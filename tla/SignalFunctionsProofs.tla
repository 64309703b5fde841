----------------------- MODULE SignalFunctionsProofs -----------------------
(***************************************************************************)
(* The functions of a formula, for any recorded signals, literals, gates    *)
(* and nesting: timestamps ascend and filters look back only, slices select *)
(* what is shown, and the scans compute what their definitions say.         *)
(***************************************************************************)
EXTENDS SignalFunctions, FiniteSetTheorems, SequenceTheorems, NaturalsInduction,
        WellFoundedInduction, TLAPS

-----------------------------------------------------------------------------
(* The inductive invariant                                                  *)

Ascends(q) == \A i \in 1 .. Len(q) - 1 : q[i] < q[i + 1]

Domains == {"Time", "Frequency"}
Signals == [ts : Seq(Int), dep : Seq(SUBSET Int), domain : Domains,
            start : Int, sym : BOOLEAN]
IsSignal(s) == s \in Signals /\ Len(s.dep) = Len(s.ts) /\ Ascends(s.ts)

\* No sample depends on a later one.
Causal(s) == \A i \in 1 .. Count(s) : \A t \in s.dep[i] : t <= s.ts[i]

\* The lengths of a spectrum: one more than a power of two.
IsSpectrum(s) == \E k \in Nat : Count(s) = pow2[k] + 1

\* The source has a recording's timestamps and the result is a signal; while
\* the guarantees last it depends on the past only, is on the time axis, is
\* shown from the origin of the source, holds what all windows select, and a
\* spectrum keeps its bins.
IInv ==
  /\ \E ts \in Sources : src = Recorded(ts)
  /\ IsSignal(cur) /\ calls \in Nat /\ lost \subseteq Guarantees
  /\ lost \cap {"axis", "causal"} = {} => Causal(cur)
  /\ "axis" \notin lost => cur.domain = "Time"
  /\ SliceSelectsWhatIsShown
  /\ (lost \cap {"axis", "origin"} = {} /\ cur.ts # <<>>) => src.ts # <<>>
  /\ (cur.domain = "Frequency" /\ "bins" \notin lost /\ Count(cur) >= 2) => IsSpectrum(cur)

-----------------------------------------------------------------------------
(* Induction                                                                *)

LEMMA LeastExists ==
  ASSUME NEW S, S \subseteq Nat, S # {}
  PROVE  \E x \in S : \A y \in S : x <= y
<1> DEFINE R == {ss \in Nat \X Nat : ss[1] < ss[2]}
<1>1. IsWellFoundedOn(R, Nat)
  BY NatLessThanWellFounded DEF OpToRel
<1>2. \A x, y \in Nat : <<y, x>> \in R <=> y < x
  OBVIOUS
<1> HIDE DEF R
<1>3. PICK x \in S : \A y \in S : ~ (<<y, x>> \in R)
  BY <1>1, WFMin
<1>4. ASSUME NEW y \in S PROVE x <= y
  <2>1. ~ (y < x)
    BY <1>2, <1>3, Zenon
  <2> QED BY <2>1
<1> QED BY <1>4

\* A set that holds 0 and every successor up to n holds all of 0 .. n.
LEMMA UpTo ==
  ASSUME NEW n \in Nat, NEW S, 0 \in S, \A i \in 1 .. n : i - 1 \in S => i \in S
  PROVE  0 .. n \subseteq S
<1> SUFFICES ASSUME (0 .. n) \ S # {} PROVE FALSE
  OBVIOUS
<1>1. (0 .. n) \ S \subseteq Nat
  OBVIOUS
<1>2. PICK k \in (0 .. n) \ S : \A j \in (0 .. n) \ S : k <= j
  BY <1>1, LeastExists
<1>3. k \in 1 .. n /\ k - 1 \in 0 .. n /\ ~(k <= k - 1)
  BY <1>2
<1>4. k - 1 \in S
  BY <1>2, <1>3
<1> QED BY <1>2, <1>3, <1>4

\* A loop over 1 .. n: pass i takes what pass i - 1 left, from X[i - 1] to X[i].
IsLoop(f, n, X, x, g) ==
  /\ f = [i \in 0 .. n |-> f[i]] /\ f[0] = x
  /\ \A i \in 0 .. n : f[i] \in X[i]
  /\ \A i \in 1 .. n : f[i] = g[i][f[i - 1]]

\* The function a loop is defined by exists, and each pass finds its input.
LEMMA LoopExists ==
  ASSUME NEW n \in Nat, NEW X, NEW x \in X[0], NEW g,
         \A i \in 1 .. n : g[i] \in [X[i - 1] -> X[i]]
  PROVE  \E f : /\ f = [i \in 0 .. n |-> f[i]] /\ f[0] = x
                /\ \A i \in 1 .. n : f[i - 1] \in X[i - 1] /\ f[i] = g[i][f[i - 1]]
                /\ \A i \in 0 .. n : i # 0 => i \in 1 .. n
<1> DEFINE S == {k \in 0 .. n : \E f : IsLoop(f, k, X, x, g)}
<1>1. 0 \in S
  <2> DEFINE h == [i \in 0 .. 0 |-> x]
  <2>1. /\ h = [i \in 0 .. 0 |-> h[i]] /\ h[0] = x /\ \A i \in 0 .. 0 : h[i] \in X[i]
        /\ \A i \in 1 .. 0 : FALSE
    OBVIOUS
  <2> HIDE DEF h
  <2>2. IsLoop(h, 0, X, x, g)
    BY <2>1 DEF IsLoop
  <2> QED BY <2>2
<1>2. ASSUME NEW k \in 1 .. n, k - 1 \in S PROVE k \in S
  <2>1. PICK f : IsLoop(f, k - 1, X, x, g)
    BY <1>2
  <2>2. f[k - 1] \in X[k - 1] /\ g[k][f[k - 1]] \in X[k]
    <3>1. k - 1 \in 0 .. k - 1
      OBVIOUS
    <3>2. f[k - 1] \in X[k - 1]
      BY <2>1, <3>1 DEF IsLoop
    <3>3. g[k] \in [X[k - 1] -> X[k]]
      OBVIOUS
    <3> QED BY <3>2, <3>3
  <2> DEFINE h == [i \in 0 .. k |-> IF i = k THEN g[k][f[k - 1]] ELSE f[i]]
  <2>3. \A i \in 0 .. k : i # k => i \in 0 .. k - 1
    OBVIOUS
  <2>4. \A i \in 0 .. k : h[i] \in X[i]
    BY <2>1, <2>2, <2>3 DEF IsLoop
  <2>5. h[0] = x
    <3>1. 0 \in 0 .. k /\ 0 # k
      OBVIOUS
    <3> QED BY <2>1, <3>1 DEF IsLoop
  <2>6. ASSUME NEW i \in 1 .. k PROVE h[i] = g[i][h[i - 1]]
    <3>1. i \in 0 .. k /\ i - 1 \in 0 .. k /\ i - 1 # k /\ (i # k => i \in 1 .. k - 1)
      OBVIOUS
    <3>2. h[i - 1] = f[i - 1]
      BY <3>1
    <3> QED BY <2>1, <3>1, <3>2 DEF IsLoop
  <2>7. h = [i \in 0 .. k |-> h[i]]
    OBVIOUS
  <2> HIDE DEF h
  <2>8. IsLoop(h, k, X, x, g)
    BY <2>4, <2>5, <2>6, <2>7 DEF IsLoop
  <2> QED BY <2>8
<1>3. n \in S
  <2> HIDE DEF S
  <2>1. 0 .. n \subseteq S
    BY <1>1, <1>2, UpTo
  <2> QED BY <2>1
<1>4. PICK f : IsLoop(f, n, X, x, g)
  BY <1>3
<1>5. ASSUME NEW i \in 1 .. n PROVE f[i - 1] \in X[i - 1]
  <2>1. i - 1 \in 0 .. n
    OBVIOUS
  <2> QED BY <1>4, <2>1 DEF IsLoop
<1>6. \A i \in 0 .. n : i # 0 => i \in 1 .. n
  OBVIOUS
<1> QED BY <1>4, <1>5, <1>6 DEF IsLoop

\* What each pass keeps, the loop keeps.
LEMMA LoopType ==
  ASSUME NEW n \in Nat, NEW X, NEW h,
         h[0] \in X[0], \A i \in 1 .. n : h[i - 1] \in X[i - 1] => h[i] \in X[i]
  PROVE  \A i \in 0 .. n : h[i] \in X[i]
<1> DEFINE S == {i \in 0 .. n : h[i] \in X[i]}
<1>1. 0 \in S
  OBVIOUS
<1>2. ASSUME NEW i \in 1 .. n, i - 1 \in S PROVE i \in S
  <2>1. h[i - 1] \in X[i - 1]
    BY <1>2
  <2> QED BY <2>1
<1>3. 0 .. n \subseteq S
  <2> HIDE DEF S
  <2> QED BY <1>1, <1>2, UpTo
<1> QED BY <1>3

-----------------------------------------------------------------------------
(* Signals                                                                  *)

\* What a signal is made of; its samples are numbered 1 .. Count(s).
LEMMA SignalIs ==
  ASSUME NEW s, IsSignal(s)
  PROVE  /\ Count(s) \in Nat /\ Count(s) = Len(s.ts) /\ Len(s.dep) = Count(s)
         /\ s.ts \in [1 .. Count(s) -> Int] /\ s.dep \in [1 .. Count(s) -> SUBSET Int]
         /\ DOMAIN s.ts = 1 .. Count(s) /\ DOMAIN s.dep = 1 .. Count(s)
         /\ s.ts \in Seq(Int) /\ s.dep \in Seq(SUBSET Int)
         /\ s.domain \in Domains /\ s.start \in Int /\ s.sym \in BOOLEAN
         /\ (s.ts = <<>> <=> Count(s) = 0) /\ Ascends(s.ts)
<1>1. /\ s.ts \in Seq(Int) /\ s.dep \in Seq(SUBSET Int) /\ Len(s.dep) = Len(s.ts)
      /\ s.domain \in Domains /\ s.start \in Int /\ s.sym \in BOOLEAN
      /\ Ascends(s.ts)
  BY DEF IsSignal, Signals
<1>2. /\ Len(s.ts) \in Nat /\ s.ts \in [1 .. Len(s.ts) -> Int] /\ DOMAIN s.ts = 1 .. Len(s.ts)
  BY <1>1, LenProperties
<1>3. s.dep \in [1 .. Len(s.dep) -> SUBSET Int] /\ DOMAIN s.dep = 1 .. Len(s.dep)
  BY <1>1, LenProperties
<1>4. s.ts = <<>> <=> Len(s.ts) = 0
  BY <1>1, EmptySeq
<1> QED BY <1>1, <1>2, <1>3, <1>4 DEF Count

\* n ascending timestamps, and the dependencies of n samples.
Times(n) == {q \in [1 .. n -> Int] : \A i \in 1 .. n - 1 : q[i] < q[i + 1]}
Deps(n) == [1 .. n -> SUBSET Int]

LEMMA SignalHas ==
  ASSUME NEW s, IsSignal(s)
  PROVE  /\ Count(s) \in Nat /\ s.ts \in Times(Count(s)) /\ s.dep \in Deps(Count(s))
         /\ s.domain \in Domains /\ s.start \in Int
  BY SignalIs DEF Times, Deps, Ascends

\* What makeDoubleSignal returns is a signal when its timestamps ascend.
LEMMA Made ==
  ASSUME NEW n \in Nat, NEW ts \in Times(n), NEW dep \in Deps(n),
         NEW domain \in Domains, NEW start \in Int
  PROVE  LET r == makeDoubleSignal(ts, dep, domain, start)
         IN  /\ IsSignal(r) /\ Count(r) = n
             /\ r.ts = ts /\ r.dep = dep /\ r.domain = domain /\ r.start = start
<1>1. ts \in Seq(Int) /\ Len(ts) = n /\ dep \in Seq(SUBSET Int) /\ Len(dep) = n
  <2>1. \A T : \A f \in [1 .. n -> T] : f \in Seq(T) /\ Len(f) = n
    BY IsASeq, LenProperties
  <2> QED BY <2>1 DEF Times, Deps
<1>2. Ascends(ts)
  BY <1>1 DEF Ascends, Times
<1> QED BY <1>1, <1>2 DEF makeDoubleSignal, IsSignal, Signals, Count

\* The same samples on the time axis: only the dependencies changed.
OnGrid(s, r) ==
  /\ IsSignal(r) /\ r.ts = s.ts
  /\ r.domain = s.domain \/ (r.domain = "Time" /\ s.ts = <<>>)
  /\ s.ts # <<>> => displayOriginNs(r) = displayOriginNs(s)

LEMMA ShapedIs ==
  ASSUME NEW s, IsSignal(s), NEW dep \in Deps(Count(s))
  PROVE  LET r == Shaped(s, dep)
         IN  /\ OnGrid(s, r) /\ IsSignal(r) /\ Count(r) = Count(s)
             /\ r.ts = s.ts /\ r.dep = dep /\ r.domain = s.domain /\ r.start = s.start
<1> DEFINE r == makeDoubleSignal(s.ts, dep, s.domain, s.start)
<1>1. /\ IsSignal(r) /\ Count(r) = Count(s)
      /\ r.ts = s.ts /\ r.dep = dep /\ r.domain = s.domain /\ r.start = s.start
  <2>1. /\ Count(s) \in Nat /\ s.ts \in Times(Count(s)) /\ s.dep \in Deps(Count(s))
        /\ s.domain \in Domains /\ s.start \in Int
    BY SignalHas
  <2> QED BY <2>1, Made
<1>2. displayOriginNs(r) = displayOriginNs(s)
  BY <1>1 DEF displayOriginNs
<1>3. Shaped(s, dep) = r
  BY DEF Shaped
<1> HIDE DEF r
<1>4. OnGrid(s, r)
  BY <1>1, <1>2 DEF OnGrid
<1> QED BY <1>1, <1>3, <1>4

\* Timestamps ascend over any distance.
LEMMA Later ==
  ASSUME NEW n \in Nat, NEW q \in [1 .. n -> Int], \A i \in 1 .. n - 1 : q[i] < q[i + 1],
         NEW i \in 1 .. n, NEW j \in 1 .. n
  PROVE  (i < j => q[i] < q[j]) /\ (i <= j => q[i] <= q[j]) /\ (q[i] < q[j] => i < j)
         /\ (q[i] = q[j] => i = j) /\ (i <= j => q[j] - q[i] >= j - i)
<1>1. \A a, b \in 1 .. n : a <= b => q[b] - q[a] >= b - a
  <2> SUFFICES ASSUME NEW a \in 1 .. n PROVE \A b \in 1 .. n : a <= b => q[b] - q[a] >= b - a
    OBVIOUS
  <2> DEFINE S == {k \in 0 .. n - a : q[a + k] - q[a] >= k}
  <2>1. 0 \in S
    OBVIOUS
  <2>2. ASSUME NEW k \in 1 .. n - a, k - 1 \in S PROVE k \in S
    <3>1. q[a + k - 1] < q[a + k] /\ q[a + k - 1] \in Int /\ q[a + k] \in Int /\ q[a] \in Int
      <4>1. a + k - 1 \in 1 .. n - 1 /\ a + k \in 1 .. n /\ (a + k - 1) + 1 = a + k
        OBVIOUS
      <4> QED BY <4>1
    <3>2. q[a + (k - 1)] - q[a] >= k - 1 /\ a + (k - 1) = a + k - 1
      BY <2>2
    <3> QED BY <3>1, <3>2
  <2>3. 0 .. n - a \subseteq S
    <3>1. n - a \in Nat
      OBVIOUS
    <3> HIDE DEF S
    <3> QED BY <2>1, <2>2, <3>1, UpTo
  <2>4. ASSUME NEW b \in 1 .. n, a <= b PROVE q[b] - q[a] >= b - a
    <3>1. b - a \in S /\ a + (b - a) = b
      BY <2>3, <2>4
    <3> QED BY <3>1
  <2> QED BY <2>4
<1>2. q[i] \in Int /\ q[j] \in Int
  OBVIOUS
<1>3. (i <= j => q[j] - q[i] >= j - i) /\ (j <= i => q[i] - q[j] >= i - j)
  BY <1>1
<1> QED BY <1>2, <1>3

\* ... of a signal.
LEMMA SignalLater ==
  ASSUME NEW s, IsSignal(s), NEW i \in 1 .. Count(s), NEW j \in 1 .. Count(s)
  PROVE  /\ s.ts[i] \in Int /\ s.ts[j] \in Int
         /\ (i < j => s.ts[i] < s.ts[j]) /\ (i <= j => s.ts[i] <= s.ts[j])
         /\ (s.ts[i] < s.ts[j] => i < j) /\ (s.ts[i] = s.ts[j] => i = j)
         /\ (i <= j => s.ts[j] - s.ts[i] >= j - i)
<1>1. Count(s) \in Nat /\ s.ts \in [1 .. Count(s) -> Int] /\ Len(s.ts) = Count(s) /\ Ascends(s.ts)
  BY SignalIs
<1>2. \A k \in 1 .. Count(s) - 1 : s.ts[k] < s.ts[k + 1]
  BY <1>1 DEF Ascends
<1> QED BY <1>1, <1>2, Later


\* The least and the greatest of a set of numbers.
LEMMA MinIs ==
  ASSUME NEW S, S \subseteq Nat, S # {}
  PROVE  Min(S) \in S /\ \A y \in S : Min(S) <= y
  BY LeastExists DEF Min

LEMMA MaxIs ==
  ASSUME NEW n \in Nat, NEW S, S \subseteq 0 .. n, S # {}
  PROVE  Max(S) \in S /\ \A y \in S : y <= Max(S)
<1> DEFINE T == {n - y : y \in S}
<1>1. T \subseteq Nat /\ T # {}
  <2>1. \A y \in S : n - y \in Nat
    OBVIOUS
  <2> QED BY <2>1
<1>2. PICK m \in T : \A t \in T : m <= t
  BY <1>1, LeastExists
<1>3. PICK x \in S : m = n - x
  OBVIOUS
<1>4. ASSUME NEW y \in S PROVE y <= x
  <2>1. n - x <= n - y /\ x \in 0 .. n /\ y \in 0 .. n
    BY <1>2, <1>3
  <2> QED BY <2>1
<1>5. \E z \in S : \A y \in S : z >= y
  BY <1>4
<1>6. Max(S) \in S /\ \A y \in S : Max(S) >= y
  BY <1>5 DEF Max
<1> QED BY <1>6

-----------------------------------------------------------------------------
(* The loops of the functions                                               *)

\* y[i] from x[i] and y[i - 1].
LowPassLoop(s, h) ==
  /\ h = [i \in 0 .. Count(s) |-> h[i]] /\ h[0] = {}
  /\ \A i \in 1 .. Count(s) : h[i] = s.dep[i] \cup h[i - 1]
  /\ \A i \in 0 .. Count(s) : h[i] \in SUBSET Int
  /\ LowPass(s) = Shaped(s, [i \in DOMAIN s.ts |-> h[i]])

LEMMA LowPassLoopExists ==
  ASSUME NEW s, IsSignal(s)
  PROVE  \E h : LowPassLoop(s, h)
<1> DEFINE n == Count(s)
           X == [i \in 0 .. n |-> SUBSET Int]
           step(i, v) == s.dep[i] \cup v
           g == [i \in 1 .. n |-> [v \in X[i - 1] |-> step(i, v)]]
           h == CHOOSE r : r = [i \in 0 .. n |-> IF i = 0 THEN {} ELSE step(i, r[i - 1])]
<1>1. n \in Nat
  BY SignalIs
<1>2. {} \in X[0] /\ \A i \in 1 .. n : i - 1 \in 0 .. n /\ i \in 0 .. n
  BY <1>1
<1>3. ASSUME NEW i \in 1 .. n, NEW v \in X[i - 1] PROVE step(i, v) \in X[i]
  <2>1. s.dep[i] \in SUBSET Int /\ i - 1 \in 0 .. n /\ i \in 0 .. n
    BY <1>2, SignalIs
  <2> QED BY <2>1
<1>4. LowPass(s) = Shaped(s, [i \in DOMAIN s.ts |-> h[i]])
  BY <1>1 DEF LowPass
<1> HIDE DEF n, X, step
<1>5. \A i \in 1 .. n : g[i] \in [X[i - 1] -> X[i]]
  BY <1>3
<1>6. PICK f : /\ f = [i \in 0 .. n |-> f[i]] /\ f[0] = {}
               /\ \A i \in 1 .. n : f[i - 1] \in X[i - 1] /\ f[i] = g[i][f[i - 1]]
               /\ \A i \in 0 .. n : i # 0 => i \in 1 .. n
  <2> HIDE DEF g
  <2> QED BY <1>1, <1>2, <1>5, LoopExists
<1>7. f = [i \in 0 .. n |-> IF i = 0 THEN {} ELSE step(i, f[i - 1])]
  BY <1>6
<1>8. h = [i \in 0 .. n |-> IF i = 0 THEN {} ELSE step(i, h[i - 1])]
  BY <1>7
<1> HIDE DEF g, h
<1>9. h[0] = {} /\ \A i \in 1 .. n : h[i] = step(i, h[i - 1])
  <2>1. 0 \in 0 .. n /\ \A i \in 1 .. n : i \in 0 .. n /\ i # 0
    BY <1>1
  <2> QED BY <1>8, <2>1
<1>10. h = [i \in 0 .. n |-> h[i]]
  BY <1>8
<1>11. \A i \in 0 .. n : h[i] \in X[i]
  <2>1. h[0] \in X[0] /\ \A i \in 1 .. n : h[i - 1] \in X[i - 1] => h[i] \in X[i]
    BY <1>2, <1>3, <1>9
  <2> QED BY <1>1, <2>1, LoopType
<1>12. \A i \in 0 .. n : h[i] \in SUBSET Int
  BY <1>11 DEF X
<1> QED BY <1>4, <1>9, <1>10, <1>12 DEF n, step, LowPassLoop

\* The lower end of a window only moves forward, and stops at the sample itself.
RollingLoop(s, window, h) ==
  /\ h = [i \in 0 .. Count(s) |-> h[i]] /\ h[0] = 1
  /\ \A i \in 1 .. Count(s) : h[i] = Min({k \in h[i - 1] .. i : s.ts[i] - s.ts[k] <= window})
  /\ \A i \in 0 .. Count(s) : h[i] \in {k \in Nat : 1 <= k /\ (k <= i \/ k = 1)}
  /\ Rolling(s, window) = Shaped(s, [i \in DOMAIN s.ts |-> UNION {s.dep[k] : k \in h[i] .. i}])

LEMMA RollingLoopExists ==
  ASSUME NEW s, IsSignal(s), NEW window \in Nat, Count(s) # 0
  PROVE  \E h : RollingLoop(s, window, h)
<1> DEFINE n == Count(s)
           X == [i \in 0 .. n |-> {k \in Nat : 1 <= k /\ (k <= i \/ k = 1)}]
           step(i, v) == Min({k \in v .. i : s.ts[i] - s.ts[k] <= window})
           g == [i \in 1 .. n |-> [v \in X[i - 1] |-> step(i, v)]]
           h == CHOOSE r : r = [i \in 0 .. n |-> IF i = 0 THEN 1 ELSE step(i, r[i - 1])]
<1>1. n \in Nat
  BY SignalIs
<1>2. 1 \in X[0] /\ \A i \in 1 .. n : i - 1 \in 0 .. n /\ i \in 0 .. n
  BY <1>1
<1>3. ASSUME NEW i \in 1 .. n, NEW v \in X[i - 1] PROVE step(i, v) \in X[i]
  <2> DEFINE W == {k \in v .. i : s.ts[i] - s.ts[k] <= window}
  <2>1. v \in Nat /\ 1 <= v /\ v <= i /\ s.ts[i] \in Int
    BY <1>2, SignalIs
  <2>2. i \in W /\ W \subseteq Nat
    BY <2>1
  <2>3. Min(W) \in W
    BY <2>2, MinIs
  <2> QED BY <1>2, <2>1, <2>3
<1>4. Rolling(s, window) = Shaped(s, [i \in DOMAIN s.ts |-> UNION {s.dep[k] : k \in h[i] .. i}])
  <2>1. s.ts # <<>>
    BY SignalIs
  <2> QED BY <2>1 DEF Rolling
<1> HIDE DEF n, X, step
<1>5. \A i \in 1 .. n : g[i] \in [X[i - 1] -> X[i]]
  BY <1>3
<1>6. PICK f : /\ f = [i \in 0 .. n |-> f[i]] /\ f[0] = 1
               /\ \A i \in 1 .. n : f[i - 1] \in X[i - 1] /\ f[i] = g[i][f[i - 1]]
               /\ \A i \in 0 .. n : i # 0 => i \in 1 .. n
  <2> HIDE DEF g
  <2> QED BY <1>1, <1>2, <1>5, LoopExists
<1>7. f = [i \in 0 .. n |-> IF i = 0 THEN 1 ELSE step(i, f[i - 1])]
  BY <1>6
<1>8. h = [i \in 0 .. n |-> IF i = 0 THEN 1 ELSE step(i, h[i - 1])]
  BY <1>7
<1> HIDE DEF g, h
<1>9. h[0] = 1 /\ \A i \in 1 .. n : h[i] = step(i, h[i - 1])
  <2>1. 0 \in 0 .. n /\ \A i \in 1 .. n : i \in 0 .. n /\ i # 0
    BY <1>1
  <2> QED BY <1>8, <2>1
<1>10. h = [i \in 0 .. n |-> h[i]]
  BY <1>8
<1>11. \A i \in 0 .. n : h[i] \in X[i]
  <2>1. h[0] \in X[0] /\ \A i \in 1 .. n : h[i - 1] \in X[i - 1] => h[i] \in X[i]
    BY <1>2, <1>3, <1>9
  <2> QED BY <1>1, <2>1, LoopType
<1>12. \A i \in 0 .. n : h[i] \in {k \in Nat : 1 <= k /\ (k <= i \/ k = 1)}
  BY <1>11 DEF X
<1> QED BY <1>4, <1>9, <1>10, <1>12 DEF n, step, RollingLoop

\* The index of the last good sample.
FillLoop(s, bad, h) ==
  /\ h = [i \in 0 .. Count(s) |-> h[i]] /\ h[0] = 0
  /\ \A i \in 1 .. Count(s) : h[i] = IF i \in bad THEN h[i - 1] ELSE i
  /\ \A i \in 0 .. Count(s) : h[i] \in 0 .. i
  /\ ForwardFill(s, bad) = Shaped(s, [i \in DOMAIN s.ts |->
                                 IF h[i] = 0 THEN s.dep[i] ELSE s.dep[h[i]]])

LEMMA FillLoopExists ==
  ASSUME NEW s, IsSignal(s), NEW bad
  PROVE  \E h : FillLoop(s, bad, h)
<1> DEFINE n == Count(s)
           X == [i \in 0 .. n |-> 0 .. i]
           step(i, v) == IF i \in bad THEN v ELSE i
           g == [i \in 1 .. n |-> [v \in X[i - 1] |-> step(i, v)]]
           h == CHOOSE r : r = [i \in 0 .. n |-> IF i = 0 THEN 0 ELSE step(i, r[i - 1])]
<1>1. n \in Nat
  BY SignalIs
<1>2. 0 \in X[0] /\ \A i \in 1 .. n : i - 1 \in 0 .. n /\ i \in 0 .. n
  BY <1>1
<1>3. ASSUME NEW i \in 1 .. n, NEW v \in X[i - 1] PROVE step(i, v) \in X[i]
  BY <1>1, <1>2
<1>4. ForwardFill(s, bad) = Shaped(s, [i \in DOMAIN s.ts |->
                                 IF h[i] = 0 THEN s.dep[i] ELSE s.dep[h[i]]])
  BY <1>1 DEF ForwardFill
<1> HIDE DEF n, X, step
<1>5. \A i \in 1 .. n : g[i] \in [X[i - 1] -> X[i]]
  BY <1>3
<1>6. PICK f : /\ f = [i \in 0 .. n |-> f[i]] /\ f[0] = 0
               /\ \A i \in 1 .. n : f[i - 1] \in X[i - 1] /\ f[i] = g[i][f[i - 1]]
               /\ \A i \in 0 .. n : i # 0 => i \in 1 .. n
  <2> HIDE DEF g
  <2> QED BY <1>1, <1>2, <1>5, LoopExists
<1>7. f = [i \in 0 .. n |-> IF i = 0 THEN 0 ELSE step(i, f[i - 1])]
  BY <1>6
<1>8. h = [i \in 0 .. n |-> IF i = 0 THEN 0 ELSE step(i, h[i - 1])]
  BY <1>7
<1> HIDE DEF g, h
<1>9. h[0] = 0 /\ \A i \in 1 .. n : h[i] = step(i, h[i - 1])
  <2>1. 0 \in 0 .. n /\ \A i \in 1 .. n : i \in 0 .. n /\ i # 0
    BY <1>1
  <2> QED BY <1>8, <2>1
<1>10. h = [i \in 0 .. n |-> h[i]]
  BY <1>8
<1>11. \A i \in 0 .. n : h[i] \in X[i]
  <2>1. h[0] \in X[0] /\ \A i \in 1 .. n : h[i - 1] \in X[i - 1] => h[i] \in X[i]
    BY <1>2, <1>3, <1>9
  <2> QED BY <1>1, <2>1, LoopType
<1>12. \A i \in 0 .. n : h[i] \in 0 .. i
  BY <1>11 DEF X
<1> QED BY <1>4, <1>9, <1>10, <1>12 DEF n, step, FillLoop

\* The pass that pushes back the chosen indices.
InOrderLoop(count, idx, h) ==
  /\ h = [i \in 0 .. count |-> h[i]] /\ h[0] = <<>>
  /\ \A i \in 1 .. count : h[i] = IF i \in idx THEN Append(h[i - 1], i) ELSE h[i - 1]
  /\ \A i \in 0 .. count : h[i] \in Seq(Nat)
  /\ InOrder(count, idx) = h[count]

LEMMA InOrderLoopExists ==
  ASSUME NEW count \in Nat, NEW idx
  PROVE  \E h : InOrderLoop(count, idx, h)
<1> DEFINE n == count
           X == [i \in 0 .. n |-> Seq(Nat)]
           step(i, v) == IF i \in idx THEN Append(v, i) ELSE v
           g == [i \in 1 .. n |-> [v \in X[i - 1] |-> step(i, v)]]
           h == CHOOSE r : r = [i \in 0 .. n |-> IF i = 0 THEN <<>> ELSE step(i, r[i - 1])]
<1>1. n \in Nat
  OBVIOUS
<1>2. <<>> \in X[0] /\ \A i \in 1 .. n : i - 1 \in 0 .. n /\ i \in 0 .. n
  BY <1>1
<1>3. ASSUME NEW i \in 1 .. n, NEW v \in X[i - 1] PROVE step(i, v) \in X[i]
  BY <1>1, <1>2
<1>4. InOrder(count, idx) = h[count]
  BY <1>1 DEF InOrder
<1> HIDE DEF n, X, step
<1>5. \A i \in 1 .. n : g[i] \in [X[i - 1] -> X[i]]
  BY <1>3
<1>6. PICK f : /\ f = [i \in 0 .. n |-> f[i]] /\ f[0] = <<>>
               /\ \A i \in 1 .. n : f[i - 1] \in X[i - 1] /\ f[i] = g[i][f[i - 1]]
               /\ \A i \in 0 .. n : i # 0 => i \in 1 .. n
  <2> HIDE DEF g
  <2> QED BY <1>1, <1>2, <1>5, LoopExists
<1>7. f = [i \in 0 .. n |-> IF i = 0 THEN <<>> ELSE step(i, f[i - 1])]
  BY <1>6
<1>8. h = [i \in 0 .. n |-> IF i = 0 THEN <<>> ELSE step(i, h[i - 1])]
  BY <1>7
<1> HIDE DEF g, h
<1>9. h[0] = <<>> /\ \A i \in 1 .. n : h[i] = step(i, h[i - 1])
  <2>1. 0 \in 0 .. n /\ \A i \in 1 .. n : i \in 0 .. n /\ i # 0
    BY <1>1
  <2> QED BY <1>8, <2>1
<1>10. h = [i \in 0 .. n |-> h[i]]
  BY <1>8
<1>11. \A i \in 0 .. n : h[i] \in X[i]
  <2>1. h[0] \in X[0] /\ \A i \in 1 .. n : h[i - 1] \in X[i - 1] => h[i] \in X[i]
    BY <1>2, <1>3, <1>9
  <2> QED BY <1>1, <2>1, LoopType
<1>12. \A i \in 0 .. n : h[i] \in Seq(Nat)
  BY <1>11 DEF X
<1> QED BY <1>4, <1>9, <1>10, <1>12 DEF n, step, InOrderLoop

-----------------------------------------------------------------------------
(* Functions that keep the grid                                             *)

\* Every sample of r is computed from samples of s that are not later.
LooksBack(s, r) ==
  \A i \in 1 .. Count(s) : \A t \in r.dep[i] : \E k \in 1 .. i : t \in s.dep[k]

LEMMA LooksBackIsCausal ==
  ASSUME NEW s, NEW r, IsSignal(s), IsSignal(r), r.ts = s.ts, LooksBack(s, r), Causal(s)
  PROVE  Causal(r)
<1>1. Count(r) = Count(s) /\ Count(s) \in Nat
  BY SignalIs DEF Count
<1> SUFFICES ASSUME NEW i \in 1 .. Count(s), NEW t \in r.dep[i] PROVE t <= s.ts[i]
  BY <1>1 DEF Causal
<1>2. PICK k \in 1 .. i : t \in s.dep[k]
  BY DEF LooksBack
<1>3. k \in 1 .. Count(s) /\ k <= i
  BY <1>1
<1>4. s.ts[k] <= s.ts[i] /\ s.ts[k] \in Int /\ s.ts[i] \in Int
  BY <1>3, SignalLater
<1>5. t <= s.ts[k] /\ t \in Int
  BY <1>2, <1>3, SignalIs DEF Causal
<1> QED BY <1>4, <1>5

LEMMA LowPassIs ==
  ASSUME NEW s, IsSignal(s)
  PROVE  LET r == LowPass(s) IN OnGrid(s, r) /\ LooksBack(s, r) /\ r.start = s.start
<1>1. PICK h : LowPassLoop(s, h)
  BY LowPassLoopExists
<1> DEFINE dep == [i \in DOMAIN s.ts |-> h[i]]
           n == Count(s)
<1>2. n \in Nat /\ DOMAIN s.ts = 1 .. n
  BY SignalIs
<1>3. dep \in Deps(n)
  <2>1. \A i \in 1 .. n : i \in 0 .. n
    BY <1>2
  <2> QED BY <1>1, <1>2, <2>1 DEF Deps, LowPassLoop
<1>4. OnGrid(s, LowPass(s)) /\ LowPass(s).dep = dep /\ LowPass(s).start = s.start
  <2>1. LowPass(s) = Shaped(s, dep)
    BY <1>1 DEF LowPassLoop
  <2> HIDE DEF dep
  <2> QED BY <1>3, <2>1, ShapedIs
<1> DEFINE S == {i \in 0 .. n : \A t \in h[i] : \E k \in 1 .. i : t \in s.dep[k]}
<1>5. 0 \in S
  BY <1>1, <1>2 DEF LowPassLoop
<1>6. ASSUME NEW i \in 1 .. n, i - 1 \in S PROVE i \in S
  <2>1. \A t \in h[i - 1] : \E k \in 1 .. i - 1 : t \in s.dep[k]
    BY <1>6
  <2>2. 1 .. i - 1 \subseteq 1 .. i /\ i \in 1 .. i /\ i \in 0 .. n
    BY <1>2
  <2>3. h[i] = s.dep[i] \cup h[i - 1]
    BY <1>1 DEF LowPassLoop
  <2> QED BY <2>1, <2>2, <2>3
<1>7. 0 .. n \subseteq S
  <2> HIDE DEF S, n
  <2> QED BY <1>2, <1>5, <1>6, UpTo
<1>8. \A i \in 1 .. n : i \in S /\ dep[i] = h[i]
  BY <1>2, <1>7
<1>9. LooksBack(s, LowPass(s))
  BY <1>4, <1>8 DEF LooksBack
<1> QED BY <1>4, <1>9

LEMMA FromRestIs ==
  ASSUME NEW s, IsSignal(s)
  PROVE  LET r == FromRest(s) IN OnGrid(s, r) /\ LooksBack(s, r)
<1> DEFINE y == LowPass(s)
           n == Count(s)
           dep == [i \in DOMAIN s.ts |-> IF i = 1 THEN {} ELSE y.dep[i]]
<1>1. n \in Nat /\ DOMAIN s.ts = 1 .. n
  BY SignalIs
<1>2. IsSignal(y) /\ y.ts = s.ts /\ LooksBack(s, y)
  BY LowPassIs DEF OnGrid
<1>3. y.dep \in [1 .. n -> SUBSET Int]
  BY <1>2, SignalIs DEF Count
<1>4. dep \in Deps(n)
  BY <1>1, <1>3 DEF Deps
<1>5. FromRest(s) = Shaped(s, dep)
  BY DEF FromRest
<1>6. OnGrid(s, FromRest(s)) /\ FromRest(s).dep = dep
  <2> HIDE DEF dep
  <2> QED BY <1>4, <1>5, ShapedIs
<1>7. LooksBack(s, FromRest(s))
  BY <1>1, <1>2, <1>6 DEF LooksBack
<1> QED BY <1>6, <1>7

LEMMA DerivativeIs ==
  ASSUME NEW s, IsSignal(s)
  PROVE  OnGrid(s, Derivative(s))
<1> DEFINE n == Count(s)
           dep == [i \in DOMAIN s.ts |->
                     IF n < 2 THEN {} ELSE s.dep[Larger(i - 1, 1)] \cup s.dep[Smaller(i + 1, n)]]
<1>1. n \in Nat /\ DOMAIN s.ts = 1 .. n /\ s.dep \in [1 .. n -> SUBSET Int]
  BY SignalIs
<1>2. \A i \in 1 .. n : Larger(i - 1, 1) \in 1 .. n /\ Smaller(i + 1, n) \in 1 .. n
  BY <1>1 DEF Larger, Smaller
<1>3. dep \in Deps(n)
  BY <1>1, <1>2 DEF Deps
<1>4. Derivative(s) = Shaped(s, dep)
  BY DEF Derivative
<1> HIDE DEF dep
<1> QED BY <1>3, <1>4, ShapedIs

LEMMA EmptyIs ==
  ASSUME NEW s, IsSignal(s), s.ts = <<>>, NEW domain \in Domains, NEW start \in Int,
         domain = s.domain \/ domain = "Time"
  PROVE  LET r == makeDoubleSignal(<<>>, <<>>, domain, start)
         IN  OnGrid(s, r) /\ LooksBack(s, r) /\ IsSignal(r) /\ r.ts = <<>> /\ r.domain = domain
<1>1. Count(s) = 0
  BY SignalIs
<1>2. <<>> \in Times(0) /\ <<>> \in Deps(0)
  BY DEF Times, Deps
<1> DEFINE r == makeDoubleSignal(<<>>, <<>>, domain, start)
<1>3. IsSignal(r) /\ r.ts = <<>> /\ r.domain = domain
  <2> HIDE DEF r
  <2>1. 0 \in Nat
    OBVIOUS
  <2> QED BY <1>2, <2>1, Made DEF r
<1> HIDE DEF r
<1>4. OnGrid(s, r)
  BY <1>3 DEF OnGrid
<1>5. LooksBack(s, r)
  BY <1>1 DEF LooksBack
<1> QED BY <1>3, <1>4, <1>5 DEF r

LEMMA RollingIs ==
  ASSUME NEW s, IsSignal(s), NEW window \in Nat
  PROVE  LET r == Rolling(s, window) IN OnGrid(s, r) /\ LooksBack(s, r)
<1>1. CASE s.ts = <<>>
  <2>1. Rolling(s, window) = makeDoubleSignal(<<>>, <<>>, "Time", kNoSourceStart)
    BY <1>1 DEF Rolling
  <2>2. "Time" \in Domains /\ kNoSourceStart \in Int
    BY FunctionsAssumption DEF Domains
  <2> QED BY <1>1, <2>1, <2>2, EmptyIs
<1>2. CASE s.ts # <<>>
  <2>1. Count(s) # 0
    BY <1>2, SignalIs
  <2>2. PICK h : RollingLoop(s, window, h)
    BY <2>1, RollingLoopExists
  <2> DEFINE dep == [i \in DOMAIN s.ts |-> UNION {s.dep[k] : k \in h[i] .. i}]
             n == Count(s)
  <2>3. n \in Nat /\ DOMAIN s.ts = 1 .. n /\ s.dep \in [1 .. n -> SUBSET Int]
    BY SignalIs
  <2>4. \A i \in 1 .. n : h[i] .. i \subseteq 1 .. i /\ 1 .. i \subseteq 1 .. n
    <3>1. \A i \in 1 .. n : h[i] \in Nat /\ 1 <= h[i]
      BY <2>2, <2>3 DEF RollingLoop
    <3> QED BY <2>3, <3>1
  <2>5. dep \in Deps(n)
    BY <2>3, <2>4 DEF Deps
  <2>6. OnGrid(s, Rolling(s, window)) /\ Rolling(s, window).dep = dep
    <3>1. Rolling(s, window) = Shaped(s, dep)
      BY <2>2 DEF RollingLoop
    <3> HIDE DEF dep
    <3> QED BY <2>5, <3>1, ShapedIs
  <2>7. LooksBack(s, Rolling(s, window))
    BY <2>3, <2>4, <2>6 DEF LooksBack
  <2> QED BY <2>6, <2>7
<1> QED BY <1>1, <1>2

LEMMA ForwardFillIs ==
  ASSUME NEW s, IsSignal(s), NEW bad
  PROVE  LET r == ForwardFill(s, bad) IN OnGrid(s, r) /\ LooksBack(s, r)
<1>1. PICK h : FillLoop(s, bad, h)
  BY FillLoopExists
<1> DEFINE dep == [i \in DOMAIN s.ts |-> IF h[i] = 0 THEN s.dep[i] ELSE s.dep[h[i]]]
           n == Count(s)
<1>2. n \in Nat /\ DOMAIN s.ts = 1 .. n /\ s.dep \in [1 .. n -> SUBSET Int]
  BY SignalIs
<1>3. \A i \in 1 .. n : h[i] \in 0 .. i /\ (h[i] # 0 => h[i] \in 1 .. n) /\ i \in 1 .. i
                        /\ (h[i] # 0 => h[i] \in 1 .. i)
  BY <1>1, <1>2 DEF FillLoop
<1>4. dep \in Deps(n)
  BY <1>2, <1>3 DEF Deps
<1>5. OnGrid(s, ForwardFill(s, bad)) /\ ForwardFill(s, bad).dep = dep
  <2>1. ForwardFill(s, bad) = Shaped(s, dep)
    BY <1>1 DEF FillLoop
  <2> HIDE DEF dep
  <2> QED BY <1>4, <2>1, ShapedIs
<1>6. LooksBack(s, ForwardFill(s, bad))
  BY <1>2, <1>3, <1>5 DEF LooksBack
<1> QED BY <1>5, <1>6

\* r is s backwards: it starts where s does and has the same steps.
Backwards(s, r) ==
  /\ r.start = s.start /\ r.ts[1] = s.ts[1] /\ r.sym = TRUE
  /\ \A i \in 1 .. Count(s) :
       /\ r.ts[i] = s.ts[1] + (s.ts[Count(s)] - s.ts[(Count(s) - i) + 1])
       /\ r.dep[i] = s.dep[(Count(s) - i) + 1]

LEMMA ReverseIs ==
  ASSUME NEW s, IsSignal(s)
  PROVE  LET r == ReverseSignal(s)
         IN  /\ IsSignal(r) /\ Count(r) = Count(s) /\ r.domain = s.domain
             /\ s.ts # <<>> => Backwards(s, r)
<1>1. CASE s.ts = <<>>
  <2>1. ReverseSignal(s) = makeDoubleSignal(<<>>, <<>>, s.domain, kNoSourceStart)
    BY <1>1 DEF ReverseSignal
  <2>2. s.domain \in Domains /\ kNoSourceStart \in Int
    BY FunctionsAssumption, SignalIs
  <2>3. LET r == makeDoubleSignal(<<>>, <<>>, s.domain, kNoSourceStart)
        IN  IsSignal(r) /\ r.ts = <<>> /\ r.domain = s.domain
    BY <1>1, <2>2, EmptyIs
  <2> QED BY <1>1, <2>1, <2>3 DEF Count
<1>2. CASE s.ts # <<>>
  <2> DEFINE n == Count(s)
             T == [i \in DOMAIN s.ts |-> s.ts[1] + (Last(s.ts) - Reverse(s.ts)[i])]
             D == Reverse(s.dep)
  <2>1. /\ n \in Nat /\ n # 0 /\ DOMAIN s.ts = 1 .. n /\ s.dep \in [1 .. n -> SUBSET Int]
        /\ s.ts \in [1 .. n -> Int] /\ Len(s.ts) = n /\ Len(s.dep) = n
        /\ s.domain \in Domains /\ s.start \in Int
    BY <1>2, SignalIs
  <2>2. \A i \in 1 .. n : (n - i) + 1 \in 1 .. n
    BY <2>1
  <2>3. \A i \in 1 .. n : Reverse(s.ts)[i] = s.ts[(n - i) + 1] /\ D[i] = s.dep[(n - i) + 1]
    BY <2>1 DEF Reverse
  <2>4. \A i \in 1 .. n : T[i] = s.ts[1] + (s.ts[n] - s.ts[(n - i) + 1])
    BY <2>1, <2>3 DEF Last
  <2>5. D \in Deps(n)
    BY <2>1, <2>2 DEF Reverse, Deps
  <2>6. T \in Times(n)
    <3>1. ASSUME NEW i \in 1 .. n PROVE T[i] \in Int
      <4>1. s.ts[1] \in Int /\ s.ts[n] \in Int /\ s.ts[(n - i) + 1] \in Int
        <5>1. 1 \in 1 .. n /\ n \in 1 .. n
          BY <2>1
        <5> QED BY <2>1, <2>2, <5>1
      <4> QED BY <2>4, <4>1
    <3>2. ASSUME NEW i \in 1 .. n - 1 PROVE T[i] < T[i + 1]
      <4>1. i \in 1 .. n /\ i + 1 \in 1 .. n /\ (n - (i + 1)) + 1 \in 1 .. n
            /\ (n - (i + 1)) + 1 < (n - i) + 1 /\ 1 \in 1 .. n /\ n \in 1 .. n
        BY <2>1
      <4>2. s.ts[(n - (i + 1)) + 1] < s.ts[(n - i) + 1]
        BY <2>2, <4>1, SignalLater
      <4>3. T[i] = s.ts[1] + (s.ts[n] - s.ts[(n - i) + 1])
        BY <2>4, <4>1
      <4>4. T[i + 1] = s.ts[1] + (s.ts[n] - s.ts[(n - (i + 1)) + 1])
        BY <2>4, <4>1
      <4>5. s.ts[1] \in Int /\ s.ts[n] \in Int /\ s.ts[(n - i) + 1] \in Int /\ s.ts[(n - (i + 1)) + 1] \in Int
        BY <2>1, <2>2, <4>1
      <4> QED BY <4>2, <4>3, <4>4, <4>5
    <3>3. T = [i \in 1 .. n |-> T[i]]
      BY <2>1
    <3> HIDE DEF T
    <3> QED BY <3>1, <3>2, <3>3 DEF Times
  <2>7. ReverseSignal(s) = makeDoubleSignal(T, D, s.domain, s.start)
    BY <1>2 DEF ReverseSignal
  <2>8. LET r == makeDoubleSignal(T, D, s.domain, s.start)
        IN  /\ IsSignal(r) /\ Count(r) = n
            /\ r.ts = T /\ r.dep = D /\ r.domain = s.domain /\ r.start = s.start
    <3> HIDE DEF T, D, n
    <3> QED BY <2>1, <2>5, <2>6, Made
  <2>9. T[1] = s.ts[1]
    <3>1. 1 \in 1 .. n /\ n \in 1 .. n /\ (n - 1) + 1 = n
      BY <2>1
    <3>2. T[1] = s.ts[1] + (s.ts[n] - s.ts[(n - 1) + 1]) /\ s.ts[1] \in Int /\ s.ts[n] \in Int
      BY <2>1, <2>4, <3>1
    <3> QED BY <3>1, <3>2
  <2>10. ReverseSignal(s).sym = TRUE
    BY <2>7 DEF makeDoubleSignal
  <2> HIDE DEF T, D
  <2> QED BY <2>3, <2>4, <2>7, <2>8, <2>9, <2>10 DEF Backwards
<1> QED BY <1>1, <1>2

LEMMA ReverseTwice ==
  ASSUME NEW s, IsSignal(s)
  PROVE  LET r == ReverseSignal(ReverseSignal(s))
         IN  /\ OnGrid(s, r)
             /\ s.ts # <<>> => r.dep = s.dep /\ r.start = s.start /\ r.sym = TRUE
<1> DEFINE a == ReverseSignal(s)
           r == ReverseSignal(a)
           n == Count(s)
<1>1. IsSignal(a) /\ Count(a) = n /\ a.domain = s.domain
  BY ReverseIs
<1> HIDE DEF a
<1>2. IsSignal(r) /\ Count(r) = n /\ r.domain = s.domain
  BY <1>1, ReverseIs
<1>3. CASE s.ts = <<>>
  <2>1. r.ts = <<>>
    BY <1>2, <1>3, SignalIs
  <2> QED BY <1>2, <1>3, <2>1 DEF OnGrid, a
<1>4. CASE s.ts # <<>>
  <2>1. /\ n \in Nat /\ n # 0 /\ s.dep \in [1 .. n -> SUBSET Int] /\ s.ts \in [1 .. n -> Int]
    BY <1>4, SignalIs
  <2>2. a.ts # <<>>
    BY <1>1, <2>1, SignalIs
  <2>3. /\ a.start = s.start /\ a.ts[1] = s.ts[1]
        /\ \A i \in 1 .. n : /\ a.ts[i] = s.ts[1] + (s.ts[n] - s.ts[(n - i) + 1])
                             /\ a.dep[i] = s.dep[(n - i) + 1]
    BY <1>4, ReverseIs DEF a, Backwards
  <2>4. /\ r.start = a.start /\ r.ts[1] = a.ts[1] /\ r.sym = TRUE
        /\ \A i \in 1 .. n : /\ r.ts[i] = a.ts[1] + (a.ts[n] - a.ts[(n - i) + 1])
                             /\ r.dep[i] = a.dep[(n - i) + 1]
    <3>1. Backwards(a, r)
      BY <1>1, <2>2, ReverseIs
    <3> HIDE DEF r
    <3> QED BY <1>1, <3>1 DEF Backwards
  <2>5. r.ts \in [1 .. n -> Int] /\ r.dep \in [1 .. n -> SUBSET Int]
    BY <1>2, SignalIs
  <2> HIDE DEF r
  <2>6. ASSUME NEW i \in 1 .. n PROVE r.ts[i] = s.ts[i] /\ r.dep[i] = s.dep[i]
    <3>1. (n - i) + 1 \in 1 .. n /\ (n - ((n - i) + 1)) + 1 = i /\ 1 \in 1 .. n /\ n \in 1 .. n
          /\ (n - n) + 1 = 1
      BY <2>1
    <3>2. a.ts[n] = s.ts[1] + (s.ts[n] - s.ts[(n - n) + 1])
      BY <2>3, <3>1
    <3>3. a.ts[(n - i) + 1] = s.ts[1] + (s.ts[n] - s.ts[(n - ((n - i) + 1)) + 1])
          /\ a.dep[(n - i) + 1] = s.dep[(n - ((n - i) + 1)) + 1]
      BY <2>3, <3>1
    <3>4. a.ts[n] = s.ts[n] /\ a.ts[(n - i) + 1] = s.ts[1] + (s.ts[n] - s.ts[i])
          /\ a.dep[(n - i) + 1] = s.dep[i]
      <4>1. s.ts[1] \in Int /\ s.ts[n] \in Int
        BY <2>1, <3>1
      <4> QED BY <3>1, <3>2, <3>3, <4>1
    <3>5. s.ts[1] \in Int /\ s.ts[n] \in Int /\ s.ts[i] \in Int
      BY <2>1, <3>1
    <3> QED BY <2>3, <2>4, <3>4, <3>5
  <2>7. r.ts = s.ts /\ r.dep = s.dep
    BY <2>1, <2>5, <2>6
  <2>8. displayOriginNs(r) = displayOriginNs(s)
    BY <2>3, <2>4, <2>7 DEF displayOriginNs
  <2> QED BY <1>2, <2>3, <2>4, <2>7, <2>8 DEF OnGrid, r, a
<1> QED BY <1>3, <1>4

\* Forward, reverse, forward, reverse is on the grid it started on.
LEMMA ForwardAndBack ==
  ASSUME NEW s, IsSignal(s), NEW a, OnGrid(s, a), NEW b, OnGrid(ReverseSignal(a), b)
  PROVE  OnGrid(s, ReverseSignal(b))
<1> DEFINE c == ReverseSignal(a)
           r == ReverseSignal(b)
           n == Count(s)
<1>1. IsSignal(a) /\ a.ts = s.ts /\ Count(a) = n
  BY DEF OnGrid, Count
<1>2. IsSignal(c) /\ Count(c) = n /\ c.domain = a.domain
  BY <1>1, ReverseIs
<1>3. IsSignal(b) /\ b.ts = c.ts /\ Count(b) = n
  BY <1>2 DEF OnGrid, Count
<1>4. IsSignal(r) /\ Count(r) = n /\ r.domain = b.domain
  BY <1>3, ReverseIs
<1>5. IsSignal(ReverseSignal(c)) /\ Count(ReverseSignal(c)) = n /\ ReverseSignal(c).ts = s.ts
  BY <1>1, <1>2, ReverseIs, ReverseTwice DEF OnGrid
<1>6. CASE s.ts = <<>>
  <2>1. n = 0
    BY <1>6, SignalIs
  <2>2. r.ts = <<>> /\ c.ts = <<>>
    BY <1>2, <1>4, <2>1, SignalIs
  <2> HIDE DEF r, c
  <2>3. r.domain = s.domain \/ r.domain = "Time"
    BY <1>2, <1>4 DEF OnGrid, c
  <2> QED BY <1>4, <1>6, <2>2, <2>3 DEF OnGrid, r
<1>7. CASE s.ts # <<>>
  <2>1. n # 0 /\ n \in Nat
    BY <1>7, SignalIs
  <2>2. b.ts # <<>> /\ c.ts # <<>> /\ a.ts # <<>>
    BY <1>1, <1>2, <1>3, <2>1, SignalIs
  <2>3. /\ r.start = b.start /\ r.ts[1] = b.ts[1]
        /\ \A i \in 1 .. n : r.ts[i] = b.ts[1] + (b.ts[n] - b.ts[(n - i) + 1])
    <3>1. Backwards(b, r)
      BY <1>3, <2>2, ReverseIs
    <3> HIDE DEF r
    <3> QED BY <1>3, <3>1 DEF Backwards
  <2>4. \A i \in 1 .. n : ReverseSignal(c).ts[i] = c.ts[1] + (c.ts[n] - c.ts[(n - i) + 1])
    <3> HIDE DEF c
    <3>1. Backwards(c, ReverseSignal(c))
      BY <1>2, <2>2, ReverseIs
    <3> QED BY <1>2, <3>1 DEF Backwards
  <2>5. r.ts \in [1 .. n -> Int] /\ s.ts \in [1 .. n -> Int]
    BY <1>4, SignalIs
  <2>6. \A i \in 1 .. n : r.ts[i] = s.ts[i]
    BY <1>3, <1>5, <2>3, <2>4
  <2> HIDE DEF r
  <2>7. r.ts = s.ts
    BY <2>1, <2>5, <2>6
  <2>8. c.start = a.start /\ c.ts[1] = a.ts[1]
    BY <1>1, <2>2, ReverseIs DEF Backwards
  <2>9. displayOriginNs(b) = displayOriginNs(c) /\ displayOriginNs(a) = displayOriginNs(s)
        /\ c.domain = b.domain /\ a.domain = s.domain
    BY <1>7, <2>2 DEF OnGrid
  <2>10. displayOriginNs(c) = displayOriginNs(a) /\ displayOriginNs(r) = displayOriginNs(b)
    <3>1. r.ts # <<>>
      BY <1>7, <2>7
    <3> QED BY <2>2, <2>3, <2>8, <3>1 DEF displayOriginNs
  <2>11. OnGrid(s, r)
    BY <1>2, <1>4, <2>7, <2>9, <2>10 DEF OnGrid
  <2> QED BY <2>11 DEF r
<1> QED BY <1>6, <1>7

LEMMA FiltFiltIs ==
  ASSUME NEW s, IsSignal(s)
  PROVE  /\ OnGrid(s, filtfilt(LowPass, s))
         /\ \A w \in Nat : OnGrid(s, filtfilt(LAMBDA x : Rolling(x, w), s))
<1>1. OnGrid(s, filtfilt(LowPass, s))
  <2> DEFINE a == LowPass(s)
             b == LowPass(ReverseSignal(a))
  <2>1. OnGrid(s, a) /\ IsSignal(a)
    BY LowPassIs DEF OnGrid
  <2> HIDE DEF a
  <2>2. IsSignal(ReverseSignal(a))
    BY <2>1, ReverseIs
  <2>3. OnGrid(ReverseSignal(a), b)
    BY <2>2, LowPassIs
  <2> HIDE DEF b
  <2>4. OnGrid(s, ReverseSignal(b))
    BY <2>1, <2>3, ForwardAndBack
  <2> QED BY <2>4 DEF a, b, filtfilt
<1>2. ASSUME NEW w \in Nat PROVE OnGrid(s, filtfilt(LAMBDA x : Rolling(x, w), s))
  <2> DEFINE a == Rolling(s, w)
             b == Rolling(ReverseSignal(a), w)
  <2>1. OnGrid(s, a) /\ IsSignal(a)
    BY RollingIs DEF OnGrid
  <2> HIDE DEF a
  <2>2. IsSignal(ReverseSignal(a))
    BY <2>1, ReverseIs
  <2>3. OnGrid(ReverseSignal(a), b)
    BY <2>2, RollingIs
  <2> HIDE DEF b
  <2>4. OnGrid(s, ReverseSignal(b))
    BY <2>1, <2>3, ForwardAndBack
  <2> QED BY <2>4 DEF a, b, filtfilt
<1> QED BY <1>1, <1>2

-----------------------------------------------------------------------------
(* Selecting samples                                                        *)

\* at lists the numbers of 1 .. n that are in idx, ascending.
Lists(at, n, idx) ==
  /\ at \in [1 .. Len(at) -> 1 .. n] /\ Len(at) \in Nat
  /\ \A j \in 1 .. Len(at) : at[j] \in idx
  /\ \A j \in 1 .. Len(at) - 1 : at[j] < at[j + 1]
  /\ \A i \in 1 .. n : i \in idx => \E j \in 1 .. Len(at) : at[j] = i

LEMMA ListsNext ==
  ASSUME NEW i \in Nat, i # 0, NEW idx, NEW v \in Seq(Nat), Lists(v, i - 1, idx)
  PROVE  Lists(IF i \in idx THEN Append(v, i) ELSE v, i, idx)
<1> DEFINE m == Len(v)
<1>1. /\ v \in [1 .. m -> 1 .. i - 1] /\ m \in Nat
      /\ \A j \in 1 .. m : v[j] \in idx
      /\ \A j \in 1 .. m - 1 : v[j] < v[j + 1]
      /\ \A k \in 1 .. i - 1 : k \in idx => \E j \in 1 .. m : v[j] = k
  BY DEF Lists
<1>2. \A k \in 1 .. i : k # i => k \in 1 .. i - 1
  OBVIOUS
<1>3. CASE i \notin idx
  <2>1. v \in [1 .. m -> 1 .. i]
    BY <1>1
  <2> QED BY <1>1, <1>2, <1>3, <2>1 DEF Lists
<1>4. CASE i \in idx
  <2> DEFINE w == Append(v, i)
  <2>1. Len(w) = m + 1 /\ w[m + 1] = i /\ \A j \in 1 .. m : w[j] = v[j]
    BY <1>1, AppendProperties
  <2>2. w \in [1 .. m + 1 -> Nat]
    <3>1. w \in Seq(Nat)
      BY AppendProperties
    <3> QED BY <2>1, <3>1, LenProperties
  <2> HIDE DEF w
  <2>3. \A j \in 1 .. m + 1 : j # m + 1 => j \in 1 .. m
    BY <1>1
  <2>4. \A j \in 1 .. m : v[j] \in 1 .. i - 1
    BY <1>1
  <2>5. \A j \in 1 .. m + 1 : w[j] \in 1 .. i /\ w[j] \in idx
    BY <1>1, <1>4, <2>1, <2>3, <2>4
  <2>6. w \in [1 .. m + 1 -> 1 .. i]
    BY <2>2, <2>5
  <2>7. ASSUME NEW j \in 1 .. (m + 1) - 1 PROVE w[j] < w[j + 1]
    <3>1. j \in 1 .. m /\ (j = m \/ j \in 1 .. m - 1) /\ (j # m => j + 1 \in 1 .. m)
      <4>1. m \in Nat
        BY <1>1
      <4> HIDE DEF m
      <4> QED BY <4>1
    <3>2. w[j] = v[j] /\ v[j] \in 1 .. i - 1
      BY <2>1, <2>4, <3>1
    <3>3. CASE j = m
      BY <2>1, <3>2, <3>3
    <3>4. CASE j # m
      BY <1>1, <2>1, <3>1, <3>2, <3>4
    <3> QED BY <3>3, <3>4
  <2>8. ASSUME NEW k \in 1 .. i, k \in idx PROVE \E j \in 1 .. m + 1 : w[j] = k
    <3>1. CASE k = i
      <4>1. m + 1 \in 1 .. m + 1
        BY <1>1
      <4> QED BY <2>1, <3>1, <4>1
    <3>2. CASE k # i
      <4>1. PICK j \in 1 .. m : v[j] = k
        BY <1>1, <1>2, <2>8, <3>2
      <4>2. j \in 1 .. m + 1
        BY <1>1
      <4> QED BY <2>1, <4>1, <4>2
    <3> QED BY <3>1, <3>2
  <2>9. Lists(w, i, idx)
    BY <1>1, <2>1, <2>5, <2>6, <2>7, <2>8 DEF Lists
  <2> QED BY <1>4, <2>9 DEF w
<1> QED BY <1>3, <1>4

LEMMA InOrderIs ==
  ASSUME NEW n \in Nat, NEW idx
  PROVE  Lists(InOrder(n, idx), n, idx) /\ InOrder(n, idx) \in Seq(Nat)
<1>1. PICK h : InOrderLoop(n, idx, h)
  BY InOrderLoopExists
<1>2. /\ h[0] = <<>> /\ InOrder(n, idx) = h[n] /\ \A i \in 0 .. n : h[i] \in Seq(Nat)
      /\ \A i \in 1 .. n : h[i] = IF i \in idx THEN Append(h[i - 1], i) ELSE h[i - 1]
  BY <1>1 DEF InOrderLoop
<1> DEFINE S == {i \in 0 .. n : Lists(h[i], i, idx)}
<1>3. 0 \in S
  <2>1. Len(<<>>) = 0 /\ <<>> \in [1 .. 0 -> 1 .. 0]
    OBVIOUS
  <2>2. Lists(<<>>, 0, idx)
    BY <2>1 DEF Lists
  <2> QED BY <1>2, <2>2
<1>4. ASSUME NEW i \in 1 .. n, i - 1 \in S PROVE i \in S
  <2>1. i \in 0 .. n /\ i - 1 \in 0 .. n /\ i \in Nat /\ i # 0
    OBVIOUS
  <2>2. Lists(h[i - 1], i - 1, idx) /\ h[i - 1] \in Seq(Nat)
    BY <1>2, <1>4, <2>1
  <2>3. Lists(IF i \in idx THEN Append(h[i - 1], i) ELSE h[i - 1], i, idx)
    BY <2>1, <2>2, ListsNext
  <2> QED BY <1>2, <2>1, <2>3
<1>5. 0 .. n \subseteq S
  <2> HIDE DEF S
  <2> QED BY <1>3, <1>4, UpTo
<1>6. n \in 0 .. n
  OBVIOUS
<1> QED BY <1>2, <1>5, <1>6

\* What is picked from a sequence: the elements at the indices, in order.
LEMMA PickedIs ==
  ASSUME NEW T, NEW q \in Seq(T), NEW idx
  PROVE  LET at == InOrder(Len(q), idx)
         IN  /\ Lists(at, Len(q), idx) /\ Len(Picked(q, idx)) = Len(at)
             /\ Picked(q, idx) \in [1 .. Len(at) -> T]
             /\ \A j \in 1 .. Len(at) : Picked(q, idx)[j] = q[at[j]]
<1> DEFINE n == Len(q)
           at == InOrder(n, idx)
           m == Len(at)
<1>1. n \in Nat /\ q \in [1 .. n -> T]
  BY LenProperties
<1>2. Lists(at, n, idx) /\ at \in Seq(Nat)
  BY <1>1, InOrderIs
<1>3. m \in Nat /\ DOMAIN at = 1 .. m /\ \A j \in 1 .. m : at[j] \in 1 .. n
  BY <1>2, LenProperties DEF Lists
<1>4. Picked(q, idx) = [j \in 1 .. m |-> q[at[j]]]
  BY <1>3 DEF Picked
<1> HIDE DEF at, m, n
<1>5. [j \in 1 .. m |-> q[at[j]]] \in [1 .. m -> T]
  BY <1>1, <1>3
<1>6. Len(Picked(q, idx)) = m
  BY <1>3, <1>4
<1> QED BY <1>2, <1>4, <1>5, <1>6 DEF at, m, n

\* r has the samples of s at the indices idx, and no others; r[j] is s[at[j]].
Selects(s, idx, r, at) ==
  /\ Lists(at, Count(s), idx) /\ Len(r.ts) = Len(at)
  /\ r.ts \in Times(Len(at)) /\ r.dep \in Deps(Len(at))
  /\ \A j \in 1 .. Len(at) : r.ts[j] = s.ts[at[j]] /\ r.dep[j] = s.dep[at[j]]

\* Along a list of indices the timestamps ascend.
LEMMA ListAscends ==
  ASSUME NEW s, IsSignal(s), NEW at, NEW idx, Lists(at, Count(s), idx)
  PROVE  [j \in 1 .. Len(at) |-> s.ts[at[j]]] \in Times(Len(at))
<1> DEFINE n == Count(s)
           m == Len(at)
           q == [j \in 1 .. m |-> s.ts[at[j]]]
<1>1. /\ at \in [1 .. m -> 1 .. n] /\ m \in Nat
      /\ \A j \in 1 .. m - 1 : at[j] < at[j + 1]
  BY DEF Lists
<1>2. n \in Nat /\ s.ts \in [1 .. n -> Int]
  BY SignalIs
<1>3. q \in [1 .. m -> Int]
  BY <1>1, <1>2
<1>4. ASSUME NEW j \in 1 .. m - 1 PROVE q[j] < q[j + 1]
  <2>1. j \in 1 .. m /\ j + 1 \in 1 .. m
    BY <1>1
  <2>2. at[j] \in 1 .. n /\ at[j + 1] \in 1 .. n /\ at[j] < at[j + 1]
    BY <1>1, <2>1
  <2>3. s.ts[at[j]] < s.ts[at[j + 1]]
    BY <2>2, SignalLater
  <2> QED BY <2>1, <2>3
<1> HIDE DEF q
<1> QED BY <1>3, <1>4 DEF Times, q

LEMMA KeptIs ==
  ASSUME NEW s, IsSignal(s), NEW idx
  PROVE  Selects(s, idx, Kept(s, idx), InOrder(Count(s), idx))
<1> DEFINE n == Count(s)
           at == InOrder(n, idx)
           m == Len(at)
<1>1. n \in Nat /\ s.ts \in Seq(Int) /\ s.dep \in Seq(SUBSET Int) /\ Len(s.ts) = n /\ Len(s.dep) = n
  BY SignalIs
<1>2. /\ Lists(at, n, idx) /\ Len(Picked(s.ts, idx)) = m
      /\ Picked(s.ts, idx) \in [1 .. m -> Int]
      /\ \A j \in 1 .. m : Picked(s.ts, idx)[j] = s.ts[at[j]]
  <2>1. LET b == InOrder(Len(s.ts), idx)
        IN  /\ Lists(b, Len(s.ts), idx) /\ Len(Picked(s.ts, idx)) = Len(b)
            /\ Picked(s.ts, idx) \in [1 .. Len(b) -> Int]
            /\ \A j \in 1 .. Len(b) : Picked(s.ts, idx)[j] = s.ts[b[j]]
    BY <1>1, PickedIs
  <2> QED BY <1>1, <2>1
<1>3. /\ Picked(s.dep, idx) \in [1 .. m -> SUBSET Int]
      /\ \A j \in 1 .. m : Picked(s.dep, idx)[j] = s.dep[at[j]]
  <2>1. LET b == InOrder(Len(s.dep), idx)
        IN  /\ Picked(s.dep, idx) \in [1 .. Len(b) -> SUBSET Int]
            /\ \A j \in 1 .. Len(b) : Picked(s.dep, idx)[j] = s.dep[b[j]]
    BY <1>1, PickedIs
  <2> QED BY <1>1, <2>1
<1> HIDE DEF at
<1>4. Picked(s.ts, idx) = [j \in 1 .. m |-> s.ts[at[j]]]
  BY <1>2
<1>5. Picked(s.ts, idx) \in Times(m)
  <2>1. [j \in 1 .. m |-> s.ts[at[j]]] \in Times(m)
    BY <1>2, ListAscends
  <2> QED BY <1>4, <2>1
<1>6. Kept(s, idx).ts = Picked(s.ts, idx) /\ Kept(s, idx).dep = Picked(s.dep, idx)
  BY DEF Kept
<1> QED BY <1>2, <1>3, <1>5, <1>6 DEF Selects, Deps, at

\* A selection keeps the order of time, and all of its timestamps are s's.
LEMMA SelectionIs ==
  ASSUME NEW s, IsSignal(s), NEW idx, NEW r, NEW at, Selects(s, idx, r, at)
  PROVE  /\ ToSet(r.ts) = {s.ts[i] : i \in idx \cap (1 .. Count(s))}
         /\ Causal(s) => Causal(r)
<1> DEFINE n == Count(s)
           m == Len(at)
<1>1. /\ at \in [1 .. m -> 1 .. n] /\ m \in Nat /\ Len(r.ts) = m
      /\ \A j \in 1 .. m : at[j] \in idx
      /\ \A i \in 1 .. n : i \in idx => \E j \in 1 .. m : at[j] = i
      /\ r.ts \in [1 .. m -> Int] /\ r.dep \in [1 .. m -> SUBSET Int]
      /\ \A j \in 1 .. m : r.ts[j] = s.ts[at[j]] /\ r.dep[j] = s.dep[at[j]]
  BY DEF Selects, Lists, Times, Deps
<1>2. DOMAIN r.ts = 1 .. m
  BY <1>1
<1> HIDE DEF m, n
<1>3. ToSet(r.ts) = {r.ts[j] : j \in 1 .. m}
  BY <1>2 DEF ToSet
<1>4. \A j \in 1 .. m : r.ts[j] \in {s.ts[i] : i \in idx \cap (1 .. n)}
  BY <1>1
<1>5. ASSUME NEW i \in idx \cap (1 .. n) PROVE s.ts[i] \in {r.ts[j] : j \in 1 .. m}
  <2>1. PICK j \in 1 .. m : at[j] = i
    BY <1>1
  <2> QED BY <1>1, <2>1
<1>6. ToSet(r.ts) = {s.ts[i] : i \in idx \cap (1 .. n)}
  BY <1>3, <1>4, <1>5
<1>7. ASSUME Causal(s) PROVE Causal(r)
  <2>1. Count(r) = m
    BY <1>1 DEF Count
  <2> QED BY <1>1, <1>7, <2>1 DEF Causal, n
<1> QED BY <1>6, <1>7 DEF n

-----------------------------------------------------------------------------
(* Slices and masks                                                         *)

LEMMA OriginIs ==
  ASSUME NEW s, IsSignal(s)
  PROVE  displayOriginNs(s) \in Int /\ CarriedOrigin(s) \in Int
<1>1. s.start \in Int /\ s.ts \in [1 .. Count(s) -> Int] /\ Count(s) \in Nat
      /\ (s.ts = <<>> <=> Count(s) = 0)
  BY SignalIs
<1>2. s.ts # <<>> => s.ts[1] \in Int
  BY <1>1
<1> QED BY <1>1, <1>2, FunctionsAssumption DEF displayOriginNs, CarriedOrigin

\* A slice keeps exactly the samples in the window, counted from what is shown.
LEMMA SliceIs ==
  ASSUME NEW s, IsSignal(s), NEW a \in Int, NEW b \in Int
  PROVE  LET r == Slice(s, a, b)
         IN  /\ IsSignal(r) /\ r.domain = s.domain /\ r.start = CarriedOrigin(s)
             /\ Causal(s) => Causal(r)
             /\ s.domain = "Time" =>
                  ToSet(r.ts) = {t \in ToSet(s.ts) : /\ Smaller(a, b) <= t - displayOriginNs(s)
                                                     /\ t - displayOriginNs(s) <= Larger(a, b)}
<1> DEFINE idx == Selection(s, a, b)
           k == Kept(s, idx)
           at == InOrder(Count(s), idx)
           r == makeDoubleSignal(k.ts, k.dep, s.domain, CarriedOrigin(s))
<1>1. Selects(s, idx, k, at)
  BY KeptIs
<1>2. s.domain \in Domains /\ CarriedOrigin(s) \in Int
  BY OriginIs, SignalIs
<1>3. Slice(s, a, b) = r
  BY DEF Slice
<1>4. idx \subseteq DOMAIN s.ts
  BY DEF Selection
<1>5. s.domain = "Time" =>
        idx = {i \in DOMAIN s.ts : /\ Smaller(a, b) <= s.ts[i] - displayOriginNs(s)
                                   /\ s.ts[i] - displayOriginNs(s) <= Larger(a, b)}
  BY DEF Selection
<1>6. DOMAIN s.ts = 1 .. Count(s) /\ s.ts \in [1 .. Count(s) -> Int]
  BY SignalIs
<1> HIDE DEF idx, k, at
<1>7. k.ts \in Times(Len(at)) /\ k.dep \in Deps(Len(at)) /\ Len(at) \in Nat /\ Len(k.ts) = Len(at)
  BY <1>1 DEF Selects, Lists
<1>8. IsSignal(r) /\ r.domain = s.domain /\ r.start = CarriedOrigin(s) /\ r.ts = k.ts /\ r.dep = k.dep
  BY <1>2, <1>7, Made
<1> HIDE DEF r
<1>9. ToSet(k.ts) = {s.ts[i] : i \in idx \cap (1 .. Count(s))} /\ (Causal(s) => Causal(k))
  BY <1>1, SelectionIs
<1>10. Causal(s) => Causal(r)
  BY <1>8, <1>9 DEF Causal, Count
<1>11. ASSUME s.domain = "Time"
       PROVE  ToSet(r.ts) = {t \in ToSet(s.ts) : /\ Smaller(a, b) <= t - displayOriginNs(s)
                                                 /\ t - displayOriginNs(s) <= Larger(a, b)}
  <2>1. ToSet(r.ts) = {s.ts[i] : i \in idx}
    BY <1>4, <1>6, <1>8, <1>9
  <2>2. ToSet(s.ts) = {s.ts[i] : i \in DOMAIN s.ts}
    BY DEF ToSet
  <2> QED BY <1>5, <1>11, <2>1, <2>2
<1> QED BY <1>3, <1>8, <1>10, <1>11

LEMMA BandMaskIs ==
  ASSUME NEW s, IsSignal(s), NEW lo, NEW hi, NEW keep
  PROVE  LET r == BandMask(s, lo, hi, keep) IN OnGrid(s, r) /\ LooksBack(s, r)
<1> DEFINE n == Count(s)
           in(i) == (i \in Selection(s, lo, hi)) = keep
           dep == [i \in DOMAIN s.ts |-> IF in(i) THEN s.dep[i] ELSE {}]
           r == makeDoubleSignal(s.ts, dep, s.domain, CarriedOrigin(s))
<1>1. n \in Nat /\ DOMAIN s.ts = 1 .. n /\ s.dep \in [1 .. n -> SUBSET Int]
  BY SignalIs
<1>2. BandMask(s, lo, hi, keep) = r
  BY DEF BandMask
<1> HIDE DEF in
<1>3. dep \in Deps(n)
  BY <1>1 DEF Deps
<1>4. \A i \in 1 .. n : dep[i] = s.dep[i] \/ dep[i] = {}
  BY <1>1
<1>5. s.ts \in Times(n) /\ s.domain \in Domains /\ CarriedOrigin(s) \in Int
  BY OriginIs, SignalHas
<1> HIDE DEF dep
<1>6. /\ IsSignal(r) /\ r.ts = s.ts /\ r.dep = dep /\ r.domain = s.domain
      /\ r.start = CarriedOrigin(s)
  <2> HIDE DEF n
  <2> QED BY <1>1, <1>3, <1>5, Made
<1> HIDE DEF r
<1>7. displayOriginNs(r) = displayOriginNs(s)
  BY <1>6 DEF displayOriginNs, CarriedOrigin
<1>8. OnGrid(s, r)
  BY <1>6, <1>7 DEF OnGrid
<1>9. LooksBack(s, r)
  <2>1. \A i \in 1 .. n : i \in 1 .. i
    BY <1>1
  <2> QED BY <1>4, <1>6, <2>1 DEF LooksBack
<1> QED BY <1>2, <1>8, <1>9

LEMMA ShiftIs ==
  ASSUME NEW s, IsSignal(s), NEW off \in Int
  PROVE  LET r == makeDoubleSignal([i \in DOMAIN s.ts |-> s.ts[i] + off], s.dep, s.domain, s.start)
         IN  IsSignal(r) /\ r.domain = s.domain /\ Count(r) = Count(s)
<1> DEFINE n == Count(s)
           T == [i \in DOMAIN s.ts |-> s.ts[i] + off]
<1>1. n \in Nat /\ DOMAIN s.ts = 1 .. n /\ s.ts \in [1 .. n -> Int]
  BY SignalIs
<1>2. s.dep \in Deps(n) /\ s.domain \in Domains /\ s.start \in Int
  BY SignalHas
<1>3. T \in Times(n)
  <2>1. \A i \in 1 .. n - 1 : s.ts[i] < s.ts[i + 1]
    BY SignalHas DEF Times
  <2>2. \A i \in 1 .. n - 1 : i \in 1 .. n /\ i + 1 \in 1 .. n
    BY <1>1
  <2> HIDE DEF n
  <2>3. T \in [1 .. n -> Int]
    BY <1>1
  <2>4. ASSUME NEW i \in 1 .. n - 1 PROVE T[i] < T[i + 1]
    <3>1. s.ts[i] \in Int /\ s.ts[i + 1] \in Int /\ s.ts[i] < s.ts[i + 1]
      BY <1>1, <2>1, <2>2
    <3>2. T[i] = s.ts[i] + off /\ T[i + 1] = s.ts[i + 1] + off
      BY <1>1, <2>2
    <3> QED BY <3>1, <3>2
  <2> HIDE DEF T
  <2> QED BY <2>3, <2>4 DEF Times
<1> DEFINE r == makeDoubleSignal(T, s.dep, s.domain, s.start)
<1>4. IsSignal(r) /\ r.domain = s.domain /\ Count(r) = n
  <2> HIDE DEF T, n
  <2> QED BY <1>1, <1>2, <1>3, Made
<1> HIDE DEF r
<1> QED BY <1>4 DEF r

-----------------------------------------------------------------------------
(* Repeating and gating                                                     *)

LEMMA Product ==
  ASSUME NEW c \in Nat, NEW d \in Int, d >= 1
  PROVE  c * d >= c
<1>1. c * d = c + c * (d - 1) /\ c * (d - 1) >= 0
  OBVIOUS
<1> QED BY <1>1

\* Quotient and remainder are the only ones.
LEMMA Quotient ==
  ASSUME NEW c \in Nat, c # 0, NEW k \in Int, NEW q \in Int, NEW r \in Int,
         k = c * q + r, 0 <= r, r < c
  PROVE  k \div c = q /\ k % c = r
<1> DEFINE d == k \div c
           m == k % c
<1>1. d \in Int /\ m \in Int /\ k = c * d + m /\ 0 <= m /\ m < c
  OBVIOUS
<1> HIDE DEF d, m
<1>2. c * (d - q) = r - m /\ c * (q - d) = m - r
  BY <1>1
<1>3. ~ (d - q >= 1)
  <2>1. d - q >= 1 => c * (d - q) >= c
    BY <1>1, Product
  <2> QED BY <1>1, <1>2, <2>1
<1>4. ~ (q - d >= 1)
  <2>1. q - d >= 1 => c * (q - d) >= c
    BY <1>1, Product
  <2> QED BY <1>1, <1>2, <2>1
<1>5. d = q
  BY <1>1, <1>3, <1>4
<1> QED BY <1>1, <1>5 DEF d, m

LEMMA QuotientOf ==
  ASSUME NEW c \in Nat, c # 0, NEW k \in Nat
  PROVE  k \div c \in Nat /\ k % c \in Nat /\ k % c < c /\ k = c * (k \div c) + (k % c)
<1> DEFINE d == k \div c
           m == k % c
<1>1. d \in Int /\ m \in Int /\ k = c * d + m /\ 0 <= m /\ m < c
  OBVIOUS
<1> HIDE DEF d, m
<1>2. ~ (-d >= 1)
  <2>1. -d >= 1 => c * (-d) >= c
    BY <1>1, Product
  <2> QED BY <1>1, <2>1
<1>3. d \in Nat /\ m \in Nat /\ m < c /\ k = c * d + m
  BY <1>1, <1>2
<1> QED BY <1>3 DEF d, m

LEMMA QuotientExact ==
  ASSUME NEW c \in Nat, c # 0, NEW q \in Int
  PROVE  (c * q) \div c = q /\ (c * q) % c = 0
<1> DEFINE k == c * q
           r == 0
<1>1. k \in Int /\ r \in Int /\ k = c * q + r /\ 0 <= r /\ r < c
  OBVIOUS
<1> HIDE DEF k, r
<1>2. k \div c = q /\ k % c = r
  BY <1>1, Quotient
<1> QED BY <1>2 DEF k, r

\* Rounding a number that is at least the divisor gives at least one.
LEMMA RoundIs ==
  ASSUME NEW p \in Nat, NEW q \in Nat, q # 0
  PROVE  Round(p, q) \in Nat /\ (p >= q => Round(p, q) >= 1)
<1> DEFINE a == 2 * p + q
           b == 2 * q
           d == a \div b
           m == a % b
<1>1. b \in Nat /\ b # 0 /\ a \in Nat
  OBVIOUS
<1>2. Round(p, q) = d
  BY DEF Round
<1>3. d \in Nat /\ m \in Nat /\ m < b /\ a = b * d + m
  <2> HIDE DEF a, b
  <2> QED BY <1>1, QuotientOf
<1> HIDE DEF d, m
<1>4. p >= q => d # 0
  BY <1>3
<1> QED BY <1>2, <1>3, <1>4

\* The step at the seam of a repetition is that of the grid: it is never lost.
LEMMA RepeatStrideIs ==
  ASSUME NEW s, IsSignal(s)
  PROVE  /\ RepeatStride(s) \in Nat
         /\ Count(s) >= 2 => RepeatStride(s) > s.ts[Count(s)] - s.ts[1]
<1> DEFINE n == Count(s)
<1>1. n \in Nat /\ Len(s.ts) = n
  BY SignalIs
<1>2. CASE n >= 2
  <2>1. 1 \in 1 .. n /\ n \in 1 .. n
    BY <1>1, <1>2
  <2>2. s.ts[1] \in Int /\ s.ts[n] \in Int /\ s.ts[n] - s.ts[1] >= n - 1
    BY <1>1, <2>1, SignalLater
  <2> DEFINE p == Span(s)
  <2>3. p = s.ts[n] - s.ts[1]
    BY <1>1 DEF Span, Last
  <2>4. p \in Nat /\ n - 1 \in Nat /\ n - 1 # 0 /\ p >= n - 1
    <3> HIDE DEF n, p
    <3> QED BY <1>1, <1>2, <2>2, <2>3
  <2> HIDE DEF p
  <2>5. Round(p, n - 1) \in Nat /\ Round(p, n - 1) >= 1
    BY <2>4, RoundIs
  <2>6. RepeatStride(s) = p + Round(p, n - 1)
    BY <1>2 DEF RepeatStride, p
  <2> QED BY <2>3, <2>4, <2>5, <2>6
<1>3. CASE ~ (n >= 2)
  BY <1>3 DEF RepeatStride
<1> QED BY <1>2, <1>3

LEMMA RepeatIs ==
  ASSUME NEW s, IsSignal(s), NEW times \in Int, RepeatAccepts(s, times)
  PROVE  IsSignal(Repeat(s, times)) /\ Repeat(s, times).domain = s.domain
<1> DEFINE c == Count(s)
           N == times * c
           stride == RepeatStride(s)
           T == [j \in 1 .. N |-> s.ts[((j - 1) % c) + 1] + ((j - 1) \div c) * stride]
           D == [j \in 1 .. N |-> s.dep[((j - 1) % c) + 1]]
<1>1. times >= 1 /\ times \in Nat /\ (times > 1 => c >= 2)
  BY DEF RepeatAccepts
<1>2. /\ c \in Nat /\ s.ts \in [1 .. c -> Int] /\ s.dep \in [1 .. c -> SUBSET Int]
      /\ s.domain \in Domains /\ s.start \in Int /\ \A i \in 1 .. c - 1 : s.ts[i] < s.ts[i + 1]
  BY SignalIs, SignalHas DEF Times
<1>3. stride \in Nat /\ (c >= 2 => stride > s.ts[c] - s.ts[1])
  BY RepeatStrideIs
<1>4. N \in Nat /\ (N # 0 => c # 0)
  <2> HIDE DEF c
  <2> QED BY <1>1, <1>2
<1>5. Repeat(s, times) = makeDoubleSignal(T, D, s.domain, s.start)
  BY DEF Repeat
<1> HIDE DEF c, stride
<1>6. ASSUME NEW j \in 1 .. N
      PROVE  /\ c # 0 /\ j - 1 \in Nat /\ (j - 1) \div c \in Nat /\ (j - 1) % c \in Nat
             /\ (j - 1) % c < c /\ j - 1 = c * ((j - 1) \div c) + ((j - 1) % c)
             /\ ((j - 1) % c) + 1 \in 1 .. c
  <2>1. j - 1 \in Nat /\ c # 0
    <3> HIDE DEF N
    <3> QED BY <1>4
  <2>2. /\ (j - 1) \div c \in Nat /\ (j - 1) % c \in Nat
        /\ (j - 1) % c < c /\ j - 1 = c * ((j - 1) \div c) + ((j - 1) % c)
    <3> DEFINE k == j - 1
    <3>1. k \in Nat
      BY <2>1
    <3> HIDE DEF k
    <3>2. k \div c \in Nat /\ k % c \in Nat /\ k % c < c /\ k = c * (k \div c) + (k % c)
      BY <1>2, <2>1, <3>1, QuotientOf
    <3> QED BY <3>2 DEF k
  <2> QED BY <1>2, <2>1, <2>2
<1>7. D \in Deps(N)
  BY <1>2, <1>6 DEF Deps
<1>8. T \in [1 .. N -> Int]
  <2>1. ASSUME NEW j \in 1 .. N
        PROVE  s.ts[((j - 1) % c) + 1] + ((j - 1) \div c) * stride \in Int
    <3> DEFINE q == (j - 1) \div c
               m == ((j - 1) % c) + 1
    <3>1. q \in Nat /\ s.ts[m] \in Int
      BY <1>2, <1>6
    <3> HIDE DEF q, m
    <3>2. s.ts[m] + q * stride \in Int
      BY <1>3, <3>1
    <3> QED BY <3>2 DEF q, m
  <2> HIDE DEF N
  <2> QED BY <2>1
<1>9. ASSUME NEW j \in 1 .. N - 1 PROVE T[j] < T[j + 1]
  <2>1. j \in 1 .. N /\ j + 1 \in 1 .. N /\ (j + 1) - 1 = j /\ j \in Nat
    <3> HIDE DEF N
    <3> QED BY <1>4
  <2>0. /\ c # 0 /\ j - 1 \in Nat /\ (j - 1) \div c \in Nat /\ (j - 1) % c \in Nat
        /\ (j - 1) % c < c /\ j - 1 = c * ((j - 1) \div c) + ((j - 1) % c)
        /\ ((j - 1) % c) + 1 \in 1 .. c
    <3> HIDE DEF N
    <3> QED BY <1>6, <2>1
  <2> DEFINE q == (j - 1) \div c
             m == (j - 1) % c
  <2>2. /\ c # 0 /\ q \in Nat /\ m \in Nat /\ m < c /\ j - 1 = c * q + m /\ m + 1 \in 1 .. c
    BY <2>0
  <2>3. T[j] = s.ts[m + 1] + q * stride
    BY <2>1
  <2>4. T[j + 1] = s.ts[(j % c) + 1] + (j \div c) * stride
    BY <2>1
  <2> HIDE DEF q, m, N, T
  <2>5. CASE m # c - 1
    <3>1. j = c * q + (m + 1) /\ 0 <= m + 1 /\ m + 1 < c /\ q \in Int /\ m + 1 \in Int /\ j \in Int
      BY <1>2, <2>1, <2>2, <2>5
    <3>2. j \div c = q /\ j % c = m + 1
      BY <1>2, <2>2, <3>1, Quotient
    <3>3. m + 1 \in 1 .. c - 1 /\ (m + 1) + 1 \in 1 .. c
      BY <1>2, <2>2, <2>5
    <3>4. s.ts[m + 1] < s.ts[(m + 1) + 1] /\ s.ts[m + 1] \in Int /\ s.ts[(m + 1) + 1] \in Int
      BY <1>2, <2>2, <3>3
    <3>5. q * stride \in Int
      BY <1>3, <2>2
    <3> QED BY <2>3, <2>4, <3>2, <3>4, <3>5
  <2>6. CASE m = c - 1
    <3>1. j = c * (q + 1) /\ q + 1 \in Int /\ j \in Int
      BY <1>2, <2>1, <2>2, <2>6
    <3>2. j \div c = q + 1 /\ j % c = 0
      BY <1>2, <2>2, <3>1, QuotientExact
    <3>3. times > 1
      <4>1. j <= N - 1 /\ c * (q + 1) >= c
        BY <1>2, <1>4, <2>2, Product
      <4>2. N > c
        BY <1>2, <1>4, <2>1, <3>1, <4>1
      <4> QED BY <1>1, <1>2, <4>2 DEF N
    <3>4. c >= 2 /\ 1 \in 1 .. c /\ c \in 1 .. c
      BY <1>1, <1>2, <3>3
    <3>5. s.ts[1] \in Int /\ s.ts[c] \in Int /\ stride > s.ts[c] - s.ts[1]
      BY <1>2, <1>3, <3>4
    <3>6. (q + 1) * stride = q * stride + stride /\ q * stride \in Int
      BY <1>3, <2>2
    <3>7. T[j] = s.ts[c] + q * stride /\ T[j + 1] = s.ts[1] + (q + 1) * stride
      BY <1>2, <2>3, <2>4, <2>6, <3>2
    <3> QED BY <1>3, <3>5, <3>6, <3>7
  <2> QED BY <2>5, <2>6
<1>10. T \in Times(N)
  <2> HIDE DEF T, N
  <2> QED BY <1>8, <1>9 DEF Times
<1> HIDE DEF T, D, N
<1> QED BY <1>2, <1>4, <1>5, <1>7, <1>10, Made

\* Some element of a sequence of numbers is the greatest.
LEMMA GreatestOf ==
  ASSUME NEW m \in Nat, m # 0, NEW d \in [1 .. m -> Int]
  PROVE  \E k \in 1 .. m : \A i \in 1 .. m : d[i] <= d[k]
<1> DEFINE S == {i \in 0 .. m : i # 0 => \E k \in 1 .. i : \A j \in 1 .. i : d[j] <= d[k]}
<1>1. 0 \in S
  OBVIOUS
<1>2. ASSUME NEW i \in 1 .. m, i - 1 \in S PROVE i \in S
  <2>1. i \in 0 .. m /\ i \in 1 .. i /\ d[i] \in Int /\ (\A j \in 1 .. i : j # i => j \in 1 .. i - 1)
    OBVIOUS
  <2>2. CASE i = 1
    <3>1. \A j \in 1 .. i : j = i
      BY <2>2
    <3>2. \A j \in 1 .. i : d[j] <= d[i]
      BY <2>1, <3>1
    <3> QED BY <2>1, <3>2
  <2>3. CASE i # 1
    <3>1. PICK k \in 1 .. i - 1 : \A j \in 1 .. i - 1 : d[j] <= d[k]
      BY <1>2, <2>3
    <3>2. k \in 1 .. i /\ d[k] \in Int
      OBVIOUS
    <3>3. CASE d[k] <= d[i]
      <4>1. ASSUME NEW j \in 1 .. i PROVE d[j] <= d[i]
        <5>1. CASE j = i
          BY <2>1, <5>1
        <5>2. CASE j # i
          <6>1. d[j] <= d[k] /\ d[j] \in Int
            BY <2>1, <3>1, <5>2
          <6> QED BY <2>1, <3>2, <3>3, <6>1
        <5> QED BY <5>1, <5>2
      <4> QED BY <2>1, <4>1
    <3>4. CASE ~ (d[k] <= d[i])
      <4>1. \A j \in 1 .. i : d[j] <= d[k]
        BY <2>1, <3>1, <3>2, <3>4
      <4> QED BY <2>1, <3>2, <4>1
    <3> QED BY <3>3, <3>4
  <2> QED BY <2>2, <2>3
<1>3. 0 .. m \subseteq S
  <2> HIDE DEF S
  <2> QED BY <1>1, <1>2, UpTo
<1>4. m \in S
  <2>1. m \in 0 .. m
    OBVIOUS
  <2> QED BY <1>3, <2>1
<1> QED BY <1>4

\* The median spacing is a spacing: never zero, so a smashed gate never stands still.
LEMMA NominalDtIs ==
  ASSUME NEW s, IsSignal(s)
  PROVE  NominalDt(s) \in Nat /\ NominalDt(s) >= 1
<1> DEFINE d == Spacings(s)
           m == Len(d)
<1>1. Count(s) \in Nat /\ s.ts \in [1 .. Count(s) -> Int]
  BY SignalIs
<1>2. CASE d = <<>>
  BY <1>2 DEF NominalDt
<1>3. CASE d # <<>>
  <2> DEFINE n == Count(s) - 1
  <2>1. n \in Nat
    <3>1. Count(s) # 0
      <4>1. Count(s) = 0 => d = [i \in {} |-> s.ts[i + 1] - s.ts[i]]
        BY DEF Spacings
      <4>2. [i \in {} |-> s.ts[i + 1] - s.ts[i]] = <<>>
        OBVIOUS
      <4> QED BY <1>3, <4>1, <4>2
    <3> QED BY <1>1, <3>1
  <2>2. \A i \in 1 .. n : s.ts[i + 1] - s.ts[i] \in Nat /\ s.ts[i + 1] - s.ts[i] >= 1
    <3>1. \A i \in 1 .. n : i \in 1 .. Count(s) /\ i + 1 \in 1 .. Count(s)
      BY <1>1
    <3>2. \A i \in 1 .. n : s.ts[i] < s.ts[i + 1]
      BY SignalHas DEF Times
    <3>3. \A i \in 1 .. n : s.ts[i] \in Int /\ s.ts[i + 1] \in Int
      BY <1>1, <3>1
    <3> QED BY <3>2, <3>3
  <2>3. d = [i \in 1 .. n |-> s.ts[i + 1] - s.ts[i]]
    BY DEF Spacings
  <2> HIDE DEF d, n
  <2>4. d \in [1 .. n -> Nat] /\ \A i \in 1 .. n : d[i] >= 1
    BY <2>2, <2>3
  <2>5. m = n /\ DOMAIN d = 1 .. n
    BY <2>1, <2>3
  <2>6. n # 0
    <3>1. n = 0 => d = <<>>
      BY <2>3
    <3> QED BY <1>3, <3>1
  <2> DEFINE most(v) == Cardinality({i \in DOMAIN d : d[i] <= v}) > m \div 2
             V == {v \in ToSet(d) : most(v)}
  <2>7. PICK k \in 1 .. n : \A i \in 1 .. n : d[i] <= d[k]
    <3>1. d \in [1 .. n -> Int]
      BY <2>4
    <3> QED BY <2>1, <2>6, <3>1, GreatestOf
  <2>8. most(d[k])
    <3>1. {i \in DOMAIN d : d[i] <= d[k]} = 1 .. n
      BY <2>5, <2>7
    <3>2. Cardinality(1 .. n) = n
      <4>1. 1 \in Int /\ n \in Int /\ ~(1 > n) /\ (n - 1) + 1 = n
        BY <2>1, <2>6
      <4>2. Cardinality(1 .. n) = IF 1 > n THEN 0 ELSE (n - 1) + 1
        BY <4>1, FS_Interval
      <4> QED BY <4>1, <4>2
    <3>3. n > n \div 2
      BY <2>1, <2>6
    <3> QED BY <2>5, <3>1, <3>2, <3>3
  <2>9. ToSet(d) = {d[i] : i \in 1 .. n}
    BY <2>5 DEF ToSet
  <2> HIDE DEF most
  <2>10. V \subseteq Nat /\ V # {} /\ \A v \in V : v >= 1
    BY <2>4, <2>7, <2>8, <2>9
  <2>11. Min(V) \in V
    <3> HIDE DEF V
    <3> QED BY <2>10, MinIs
  <2>12. NominalDt(s) = Min(V)
    BY <1>3 DEF NominalDt, most, d
  <2> HIDE DEF V
  <2> QED BY <2>10, <2>11, <2>12
<1> QED BY <1>2, <1>3

\* The time of the samples that a gate lets through.
GateLoop(s, runs, mode, h) ==
  /\ h = [i \in 0 .. Len(InOrder(Count(s), InRuns(runs))) |-> h[i]] /\ h[0] = 0
  /\ \A i \in 1 .. Len(InOrder(Count(s), InRuns(runs))) : h[i] = IF i = 1 \/ mode = 1 THEN s.ts[InOrder(Count(s), InRuns(runs))[i]]
                                 ELSE h[i - 1] + (IF InOrder(Count(s), InRuns(runs))[i] \in Starts(runs) THEN NominalDt(s)
                                           ELSE s.ts[InOrder(Count(s), InRuns(runs))[i]]
                                                  - s.ts[InOrder(Count(s), InRuns(runs))[i] - 1])
  /\ \A i \in 0 .. Len(InOrder(Count(s), InRuns(runs))) : h[i] \in Int
  /\ Gate(s, runs, mode) =
       makeDoubleSignal([j \in DOMAIN InOrder(Count(s), InRuns(runs)) |-> h[j]],
                        [j \in DOMAIN InOrder(Count(s), InRuns(runs)) |-> s.dep[InOrder(Count(s), InRuns(runs))[j]]],
                        s.domain, CarriedOrigin(s))

LEMMA GateLoopExists ==
  ASSUME NEW s, IsSignal(s), NEW runs, NEW mode
  PROVE  \E h : GateLoop(s, runs, mode, h)
<1> DEFINE n == Len(InOrder(Count(s), InRuns(runs)))
           X == [i \in 0 .. n |-> Int]
           step(i, v) == IF i = 1 \/ mode = 1 THEN s.ts[InOrder(Count(s), InRuns(runs))[i]]
                                 ELSE v + (IF InOrder(Count(s), InRuns(runs))[i] \in Starts(runs) THEN NominalDt(s)
                                           ELSE s.ts[InOrder(Count(s), InRuns(runs))[i]]
                                                  - s.ts[InOrder(Count(s), InRuns(runs))[i] - 1])
           g == [i \in 1 .. n |-> [v \in X[i - 1] |-> step(i, v)]]
           h == CHOOSE r : r = [i \in 0 .. n |-> IF i = 0 THEN 0 ELSE step(i, r[i - 1])]
<1>1. n \in Nat
  BY SignalIs, InOrderIs DEF Lists
<1>2. 0 \in X[0] /\ \A i \in 1 .. n : i - 1 \in 0 .. n /\ i \in 0 .. n
  BY <1>1
<1>3. ASSUME NEW i \in 1 .. n, NEW v \in X[i - 1] PROVE step(i, v) \in X[i]
  <2> DEFINE at == InOrder(Count(s), InRuns(runs))
  <2>1. /\ Count(s) \in Nat /\ s.ts \in [1 .. Count(s) -> Int] /\ NominalDt(s) \in Int
        /\ at \in [1 .. n -> 1 .. Count(s)] /\ \A j \in 1 .. n - 1 : at[j] < at[j + 1]
    <3>1. Count(s) \in Nat /\ s.ts \in [1 .. Count(s) -> Int]
      BY SignalIs
    <3>2. Lists(at, Count(s), InRuns(runs))
      BY <3>1, InOrderIs
    <3>3. NominalDt(s) \in Int
      BY NominalDtIs
    <3> HIDE DEF at
    <3> QED BY <3>1, <3>2, <3>3 DEF Lists, at
  <2> HIDE DEF at
  <2>2. s.ts[at[i]] \in Int /\ at[i] \in 1 .. Count(s) /\ v \in Int
    BY <1>2, <2>1
  <2>3. i # 1 => s.ts[at[i] - 1] \in Int
    <3> SUFFICES ASSUME i # 1 PROVE s.ts[at[i] - 1] \in Int
      OBVIOUS
    <3>1. i - 1 \in 1 .. n - 1 /\ i - 1 \in 1 .. n /\ (i - 1) + 1 = i
      <4>1. n \in Nat
        BY <1>1
      <4> HIDE DEF n
      <4> QED BY <4>1
    <3>2. at[i - 1] < at[i] /\ at[i - 1] \in 1 .. Count(s)
      BY <2>1, <3>1
    <3>3. at[i] - 1 \in 1 .. Count(s)
      BY <2>1, <2>2, <3>2
    <3> QED BY <2>1, <3>3
  <2>4. v + NominalDt(s) \in Int
    BY <2>1, <2>2
  <2>5. i # 1 => v + (s.ts[at[i]] - s.ts[at[i] - 1]) \in Int
    BY <2>2, <2>3
  <2>6. step(i, v) = IF i = 1 \/ mode = 1 THEN s.ts[at[i]]
                     ELSE IF at[i] \in Starts(runs) THEN v + NominalDt(s)
                     ELSE v + (s.ts[at[i]] - s.ts[at[i] - 1])
    BY DEF at
  <2> HIDE DEF step
  <2>7. step(i, v) \in Int
    BY <2>2, <2>4, <2>5, <2>6
  <2> QED BY <1>2, <2>7
<1>4. Gate(s, runs, mode) =
       makeDoubleSignal([j \in DOMAIN InOrder(Count(s), InRuns(runs)) |-> h[j]],
                        [j \in DOMAIN InOrder(Count(s), InRuns(runs)) |-> s.dep[InOrder(Count(s), InRuns(runs))[j]]],
                        s.domain, CarriedOrigin(s))
  BY <1>1 DEF Gate
<1> HIDE DEF n, X, step
<1>5. \A i \in 1 .. n : g[i] \in [X[i - 1] -> X[i]]
  BY <1>3
<1>6. PICK f : /\ f = [i \in 0 .. n |-> f[i]] /\ f[0] = 0
               /\ \A i \in 1 .. n : f[i - 1] \in X[i - 1] /\ f[i] = g[i][f[i - 1]]
               /\ \A i \in 0 .. n : i # 0 => i \in 1 .. n
  <2> HIDE DEF g
  <2> QED BY <1>1, <1>2, <1>5, LoopExists
<1>7. f = [i \in 0 .. n |-> IF i = 0 THEN 0 ELSE step(i, f[i - 1])]
  BY <1>6
<1>8. h = [i \in 0 .. n |-> IF i = 0 THEN 0 ELSE step(i, h[i - 1])]
  BY <1>7
<1> HIDE DEF g, h
<1>9. h[0] = 0 /\ \A i \in 1 .. n : h[i] = step(i, h[i - 1])
  <2>1. 0 \in 0 .. n /\ \A i \in 1 .. n : i \in 0 .. n /\ i # 0
    BY <1>1
  <2> QED BY <1>8, <2>1
<1>10. h = [i \in 0 .. n |-> h[i]]
  BY <1>8
<1>11. \A i \in 0 .. n : h[i] \in X[i]
  <2>1. h[0] \in X[0] /\ \A i \in 1 .. n : h[i - 1] \in X[i - 1] => h[i] \in X[i]
    BY <1>2, <1>3, <1>9
  <2> QED BY <1>1, <2>1, LoopType
<1>12. \A i \in 0 .. n : h[i] \in Int
  BY <1>11 DEF X
<1> QED BY <1>4, <1>9, <1>10, <1>12 DEF n, step, GateLoop

LEMMA GateIs ==
  ASSUME NEW s, IsSignal(s), NEW runs, NEW mode
  PROVE  LET r == Gate(s, runs, mode)
         IN  /\ IsSignal(r) /\ r.domain = s.domain /\ r.start = CarriedOrigin(s)
             /\ mode = 1 => (Causal(s) => Causal(r))
             /\ s.ts = <<>> => r.ts = <<>>
<1> DEFINE n == Count(s)
           at == InOrder(n, InRuns(runs))
           m == Len(at)
           G == Gate(s, runs, mode)
<1>1. PICK h : GateLoop(s, runs, mode, h)
  BY GateLoopExists
<1>2. /\ n \in Nat /\ s.ts \in [1 .. n -> Int] /\ s.dep \in [1 .. n -> SUBSET Int]
      /\ s.domain \in Domains /\ CarriedOrigin(s) \in Int
  BY SignalIs, OriginIs
<1>3. Lists(at, n, InRuns(runs)) /\ at \in Seq(Nat)
  BY <1>2, InOrderIs
<1>4. /\ at \in [1 .. m -> 1 .. n] /\ m \in Nat /\ DOMAIN at = 1 .. m
      /\ \A j \in 1 .. m - 1 : at[j] < at[j + 1]
  BY <1>3 DEF Lists
<1>5. /\ \A j \in 1 .. m : h[j] = IF j = 1 \/ mode = 1 THEN s.ts[at[j]]
                                 ELSE h[j - 1] + (IF at[j] \in Starts(runs) THEN NominalDt(s)
                                                  ELSE s.ts[at[j]] - s.ts[at[j] - 1])
      /\ \A j \in 0 .. m : h[j] \in Int
      /\ Gate(s, runs, mode) = makeDoubleSignal([j \in DOMAIN at |-> h[j]],
                                                [j \in DOMAIN at |-> s.dep[at[j]]],
                                                s.domain, CarriedOrigin(s))
  BY <1>1 DEF GateLoop
<1> HIDE DEF at
<1> DEFINE T == [j \in DOMAIN at |-> h[j]]
           D == [j \in DOMAIN at |-> s.dep[at[j]]]
<1>6. D \in Deps(m)
  BY <1>2, <1>4 DEF Deps
<1>7. T \in [1 .. m -> Int]
  <2>1. \A j \in 1 .. m : j \in 0 .. m
    BY <1>4
  <2> QED BY <1>4, <1>5, <2>1
<1>8. ASSUME NEW j \in 1 .. m - 1 PROVE T[j] < T[j + 1]
  <2>1. j \in 1 .. m /\ j + 1 \in 1 .. m /\ (j + 1) - 1 = j /\ j + 1 # 1
    <3> HIDE DEF m
    <3> QED BY <1>4
  <2>2. T[j] = h[j] /\ T[j + 1] = h[j + 1] /\ h[j] \in Int
    BY <1>4, <1>7, <2>1
  <2>3. at[j] \in 1 .. n /\ at[j + 1] \in 1 .. n /\ at[j] < at[j + 1]
    BY <1>4, <2>1
  <2>4. CASE mode = 1
    <3>1. h[j] = s.ts[at[j]] /\ h[j + 1] = s.ts[at[j + 1]]
      BY <1>5, <2>1, <2>4
    <3>2. s.ts[at[j]] < s.ts[at[j + 1]]
      BY <2>3, SignalLater
    <3> QED BY <2>2, <3>1, <3>2
  <2>5. CASE mode # 1
    <3> DEFINE k == at[j + 1]
    <3>1. h[j + 1] = h[j] + (IF k \in Starts(runs) THEN NominalDt(s) ELSE s.ts[k] - s.ts[k - 1])
      BY <1>5, <2>1, <2>5
    <3>2. k \in 1 .. n /\ k - 1 \in 1 .. n /\ k - 1 < k
      BY <1>2, <2>3
    <3>3. s.ts[k - 1] < s.ts[k] /\ s.ts[k - 1] \in Int /\ s.ts[k] \in Int
      BY <3>2, SignalLater
    <3>4. NominalDt(s) \in Nat /\ NominalDt(s) >= 1
      BY NominalDtIs
    <3> HIDE DEF k
    <3> QED BY <2>2, <3>1, <3>3, <3>4
  <2> QED BY <2>4, <2>5
<1>9. T \in Times(m)
  <2> HIDE DEF T
  <2> QED BY <1>7, <1>8 DEF Times
<1>10. Gate(s, runs, mode) = makeDoubleSignal(T, D, s.domain, CarriedOrigin(s))
  BY <1>5
<1>11. \A j \in 1 .. m : D[j] = s.dep[at[j]] /\ (mode = 1 => T[j] = s.ts[at[j]])
  BY <1>4, <1>5
<1> HIDE DEF T, D, m
<1>12. IsSignal(G) /\ G.domain = s.domain /\ G.start = CarriedOrigin(s) /\ G.ts = T /\ G.dep = D
       /\ Count(G) = m
  BY <1>2, <1>4, <1>6, <1>9, <1>10, Made
<1> HIDE DEF G
<1>13. ASSUME mode = 1, Causal(s) PROVE Causal(G)
  BY <1>4, <1>11, <1>12, <1>13 DEF Causal
<1>14. ASSUME s.ts = <<>> PROVE G.ts = <<>>
  <2>1. n = 0
    BY <1>14, SignalIs
  <2>2. m = 0
    <3>1. m # 0 => 1 \in 1 .. m
      BY <1>4
    <3> QED BY <1>4, <2>1, <3>1
  <2>3. Count(G) = 0
    BY <1>12, <2>2
  <2> QED BY <1>12, <2>3, SignalIs
<1> QED BY <1>12, <1>13, <1>14 DEF G

-----------------------------------------------------------------------------
(* The scan for the runs of a gate                                          *)

Pairs == Nat \X Nat
Scans == [in : BOOLEAN, start : Nat, runs : Seq(Pairs)]

\* What one sample does to the scan, and how it ends after count samples.
ScanStep(here, i, p) ==
  IF i \in here /\ ~p.in THEN [p EXCEPT !.in = TRUE, !.start = i]
  ELSE IF i \notin here /\ p.in
       THEN [p EXCEPT !.in = FALSE, !.runs = Append(@, <<p.start, i>>)]
       ELSE p
ScanEnd(end, count) ==
  IF end.in THEN Append(end.runs, <<end.start, count + 1>>) ELSE end.runs

\* The maximal stretches of numbers in here that end (one past the end) by i.
MaximalRuns(here, i) ==
  {r \in Pairs : /\ 1 <= r[1] /\ r[1] < r[2] /\ r[2] <= i
                 /\ r[1] .. (r[2] - 1) \subseteq here
                 /\ r[1] - 1 \notin here /\ r[2] \notin here}

LEMMA ScanStepType ==
  ASSUME NEW here, NEW i \in Nat, NEW p \in Scans
  PROVE  ScanStep(here, i, p) \in Scans
<1>1. p.in \in BOOLEAN /\ p.start \in Nat /\ p.runs \in Seq(Pairs)
  BY DEF Scans
<1>2. <<p.start, i>> \in Pairs
  BY <1>1 DEF Pairs
<1>3. Append(p.runs, <<p.start, i>>) \in Seq(Pairs)
  <2> DEFINE e == <<p.start, i>>
  <2>1. e \in Pairs
    BY <1>2
  <2> HIDE DEF e
  <2> QED BY <1>1, <2>1, AppendProperties DEF e
<1> QED BY <1>1, <1>3 DEF ScanStep, Scans

\* The scan of findGateWindows over the samples.
ScanLoop(s, here, minLen, h) ==
  /\ h = [i \in 0 .. Count(s) |-> h[i]] /\ h[0] = [in |-> FALSE, start |-> 0, runs |-> <<>>]
  /\ \A i \in 1 .. Count(s) : h[i] = ScanStep(here, i, h[i - 1])
  /\ \A i \in 0 .. Count(s) : h[i] \in Scans
  /\ GateRuns(s, here, minLen) =
       LET all == ScanEnd(h[Count(s)], Count(s))
       IN  IF minLen > 0
           THEN Picked(all, {k \in DOMAIN all : s.ts[all[k][2] - 1] - s.ts[all[k][1]] >= minLen})
           ELSE all

LEMMA ScanLoopExists ==
  ASSUME NEW s, IsSignal(s), NEW here, NEW minLen
  PROVE  \E h : ScanLoop(s, here, minLen, h)
<1> DEFINE n == Count(s)
           X == [i \in 0 .. n |-> Scans]
           step(i, v) == ScanStep(here, i, v)
           g == [i \in 1 .. n |-> [v \in X[i - 1] |-> step(i, v)]]
           h == CHOOSE r : r = [i \in 0 .. n |-> IF i = 0 THEN [in |-> FALSE, start |-> 0, runs |-> <<>>] ELSE step(i, r[i - 1])]
<1>1. n \in Nat
  BY SignalIs
<1>2. [in |-> FALSE, start |-> 0, runs |-> <<>>] \in X[0] /\ \A i \in 1 .. n : i - 1 \in 0 .. n /\ i \in 0 .. n
  BY <1>1 DEF Scans
<1>3. ASSUME NEW i \in 1 .. n, NEW v \in X[i - 1] PROVE step(i, v) \in X[i]
  <2>1. i \in Nat /\ v \in Scans
    BY <1>1, <1>2
  <2> QED BY <1>2, <2>1, ScanStepType
<1>4. GateRuns(s, here, minLen) =
       LET all == ScanEnd(h[Count(s)], Count(s))
       IN  IF minLen > 0
           THEN Picked(all, {k \in DOMAIN all : s.ts[all[k][2] - 1] - s.ts[all[k][1]] >= minLen})
           ELSE all
  BY <1>1 DEF GateRuns, ScanStep, ScanEnd
<1> HIDE DEF n, X, step
<1>5. \A i \in 1 .. n : g[i] \in [X[i - 1] -> X[i]]
  BY <1>3
<1>6. PICK f : /\ f = [i \in 0 .. n |-> f[i]] /\ f[0] = [in |-> FALSE, start |-> 0, runs |-> <<>>]
               /\ \A i \in 1 .. n : f[i - 1] \in X[i - 1] /\ f[i] = g[i][f[i - 1]]
               /\ \A i \in 0 .. n : i # 0 => i \in 1 .. n
  <2> HIDE DEF g
  <2> QED BY <1>1, <1>2, <1>5, LoopExists
<1>7. f = [i \in 0 .. n |-> IF i = 0 THEN [in |-> FALSE, start |-> 0, runs |-> <<>>] ELSE step(i, f[i - 1])]
  BY <1>6
<1>8. h = [i \in 0 .. n |-> IF i = 0 THEN [in |-> FALSE, start |-> 0, runs |-> <<>>] ELSE step(i, h[i - 1])]
  BY <1>7
<1> HIDE DEF g, h
<1>9. h[0] = [in |-> FALSE, start |-> 0, runs |-> <<>>] /\ \A i \in 1 .. n : h[i] = step(i, h[i - 1])
  <2>1. 0 \in 0 .. n /\ \A i \in 1 .. n : i \in 0 .. n /\ i # 0
    BY <1>1
  <2> QED BY <1>8, <2>1
<1>10. h = [i \in 0 .. n |-> h[i]]
  BY <1>8
<1>11. \A i \in 0 .. n : h[i] \in X[i]
  <2>1. h[0] \in X[0] /\ \A i \in 1 .. n : h[i - 1] \in X[i - 1] => h[i] \in X[i]
    BY <1>2, <1>3, <1>9
  <2> QED BY <1>1, <2>1, LoopType
<1>12. \A i \in 0 .. n : h[i] \in Scans
  BY <1>11 DEF X
<1> QED BY <1>4, <1>9, <1>10, <1>12 DEF n, step, ScanLoop

LEMMA ToSetAppend ==
  ASSUME NEW T, NEW q \in Seq(T), NEW e \in T
  PROVE  ToSet(Append(q, e)) = ToSet(q) \cup {e}
<1> DEFINE m == Len(q)
           w == Append(q, e)
<1>1. m \in Nat /\ DOMAIN q = 1 .. m
  BY LenProperties
<1>2. /\ Len(w) = m + 1 /\ w[m + 1] = e /\ \A j \in 1 .. m : w[j] = q[j]
      /\ w \in Seq(T)
  BY AppendProperties
<1>3. DOMAIN w = 1 .. m + 1
  BY <1>2, LenProperties
<1> HIDE DEF w, m
<1>4. 1 .. m + 1 = (1 .. m) \cup {m + 1}
  BY <1>1
<1>5. ToSet(w) = {w[j] : j \in 1 .. m + 1} /\ ToSet(q) = {q[j] : j \in 1 .. m}
  BY <1>1, <1>3 DEF ToSet
<1>6. {w[j] : j \in 1 .. m + 1} = {w[j] : j \in 1 .. m} \cup {w[m + 1]}
  BY <1>4
<1>7. {w[j] : j \in 1 .. m} = {q[j] : j \in 1 .. m}
  BY <1>2
<1> QED BY <1>2, <1>5, <1>6, <1>7 DEF w

LEMMA ToSetPicked ==
  ASSUME NEW T, NEW q \in Seq(T), NEW idx
  PROVE  /\ Picked(q, idx) \in Seq(T)
         /\ ToSet(Picked(q, idx)) = {q[k] : k \in idx \cap DOMAIN q}
<1> DEFINE n == Len(q)
           at == InOrder(n, idx)
           m == Len(at)
           r == Picked(q, idx)
<1>1. n \in Nat /\ DOMAIN q = 1 .. n
  BY LenProperties
<1>2. /\ Lists(at, n, idx) /\ Len(r) = m /\ r \in [1 .. m -> T]
      /\ \A j \in 1 .. m : r[j] = q[at[j]]
  BY PickedIs
<1> HIDE DEF at, r, n
<1>3. /\ at \in [1 .. m -> 1 .. n] /\ m \in Nat /\ \A j \in 1 .. m : at[j] \in idx
      /\ \A i \in 1 .. n : i \in idx => \E j \in 1 .. m : at[j] = i
  BY <1>2 DEF Lists
<1>4. DOMAIN r = 1 .. m
  BY <1>2
<1>5. r \in Seq(T)
  <2> HIDE DEF m
  <2> QED BY <1>2, <1>3, IsASeq
<1>6. ToSet(r) = {r[j] : j \in 1 .. m}
  BY <1>4 DEF ToSet
<1>7. \A j \in 1 .. m : r[j] \in {q[k] : k \in idx \cap (1 .. n)}
  BY <1>2, <1>3
<1>8. ASSUME NEW k \in idx \cap (1 .. n) PROVE q[k] \in {r[j] : j \in 1 .. m}
  <2>1. PICK j \in 1 .. m : at[j] = k
    BY <1>3
  <2> QED BY <1>2, <2>1
<1> QED BY <1>1, <1>5, <1>6, <1>7, <1>8 DEF r

\* After i samples the scan has found the runs that ended, and the open one.
Scanned(here, i, p) ==
  /\ p \in Scans /\ (p.in <=> i \in here)
  /\ p.in => p.start \in 1 .. i /\ p.start .. i \subseteq here /\ p.start - 1 \notin here
  /\ ToSet(p.runs) = MaximalRuns(here, i)

\* The one run that ends before i.
LEMMA RunEnding ==
  ASSUME NEW here, NEW i \in Nat, i \notin here, NEW a \in 1 .. i - 1,
         a .. (i - 1) \subseteq here, a - 1 \notin here
  PROVE  MaximalRuns(here, i) = MaximalRuns(here, i - 1) \cup {<<a, i>>}
<1>1. <<a, i>> \in MaximalRuns(here, i)
  BY DEF MaximalRuns, Pairs
<1>2. MaximalRuns(here, i - 1) \subseteq MaximalRuns(here, i)
  BY DEF MaximalRuns, Pairs
<1>3. ASSUME NEW r \in MaximalRuns(here, i) PROVE r \in MaximalRuns(here, i - 1) \cup {<<a, i>>}
  <2>1. /\ r[1] \in Nat /\ r[2] \in Nat /\ r = <<r[1], r[2]>> /\ r \in Pairs
        /\ 1 <= r[1] /\ r[1] < r[2] /\ r[2] <= i
        /\ r[1] .. (r[2] - 1) \subseteq here /\ r[1] - 1 \notin here /\ r[2] \notin here
    BY DEF MaximalRuns, Pairs
  <2>2. CASE r[2] = i
    <3>1. ~ (r[1] < a)
      <4>1. r[1] < a => a - 1 \in r[1] .. (r[2] - 1)
        BY <2>1, <2>2
      <4> QED BY <2>1, <4>1
    <3>2. ~ (a < r[1])
      <4>1. a < r[1] => r[1] - 1 \in a .. (i - 1)
        BY <2>1, <2>2
      <4> QED BY <2>1, <4>1
    <3>3. r[1] = a
      BY <2>1, <3>1, <3>2
    <3> QED BY <2>1, <2>2, <3>3
  <2>3. CASE r[2] # i
    <3>1. r[2] <= i - 1
      BY <2>1, <2>3
    <3> QED BY <2>1, <3>1 DEF MaximalRuns
  <2> QED BY <2>2, <2>3
<1> QED BY <1>1, <1>2, <1>3

LEMMA NoRunEnding ==
  ASSUME NEW here, NEW i \in Nat, i # 0, i \in here \/ i - 1 \notin here
  PROVE  MaximalRuns(here, i) = MaximalRuns(here, i - 1)
<1>1. MaximalRuns(here, i - 1) \subseteq MaximalRuns(here, i)
  BY DEF MaximalRuns, Pairs
<1>2. ASSUME NEW r \in MaximalRuns(here, i) PROVE r \in MaximalRuns(here, i - 1)
  <2>1. /\ r[1] \in Nat /\ r[2] \in Nat /\ r \in Pairs
        /\ 1 <= r[1] /\ r[1] < r[2] /\ r[2] <= i
        /\ r[1] .. (r[2] - 1) \subseteq here /\ r[1] - 1 \notin here /\ r[2] \notin here
    BY DEF MaximalRuns, Pairs
  <2>2. r[2] - 1 \in here
    <3>1. r[2] - 1 \in r[1] .. (r[2] - 1)
      BY <2>1
    <3> QED BY <2>1, <3>1
  <2>3. r[2] # i
    BY <2>1, <2>2
  <2>4. r[2] <= i - 1
    BY <2>1, <2>3
  <2> QED BY <2>1, <2>4 DEF MaximalRuns
<1> QED BY <1>1, <1>2

LEMMA ScanStepIs ==
  ASSUME NEW here, NEW i \in Nat, i # 0, NEW p, Scanned(here, i - 1, p)
  PROVE  Scanned(here, i, ScanStep(here, i, p))
<1> DEFINE r == ScanStep(here, i, p)
<1>1. /\ p \in Scans /\ p.in \in BOOLEAN /\ p.start \in Nat /\ p.runs \in Seq(Pairs)
      /\ (p.in <=> i - 1 \in here) /\ ToSet(p.runs) = MaximalRuns(here, i - 1)
      /\ p.in => p.start \in 1 .. i - 1 /\ p.start .. (i - 1) \subseteq here /\ p.start - 1 \notin here
  BY DEF Scanned, Scans
<1>2. r \in Scans
  BY <1>1, ScanStepType
<1>3. CASE i \in here /\ ~p.in
  <2>1. r.in = TRUE /\ r.start = i /\ r.runs = p.runs
    BY <1>1, <1>3 DEF ScanStep, Scans
  <2>2. i \in 1 .. i /\ i .. i = {i} /\ i - 1 \notin here
    BY <1>1, <1>3
  <2>3. ToSet(r.runs) = MaximalRuns(here, i)
    BY <1>1, <1>3, <2>1, NoRunEnding
  <2> HIDE DEF r
  <2> QED BY <1>2, <1>3, <2>1, <2>2, <2>3 DEF Scanned, r
<1>4. CASE i \notin here /\ p.in
  <2> DEFINE e == <<p.start, i>>
  <2>1. r.in = FALSE /\ r.runs = Append(p.runs, e)
    BY <1>1, <1>4 DEF ScanStep, Scans
  <2>2. e \in Pairs
    BY <1>1 DEF Pairs
  <2>3. MaximalRuns(here, i) = MaximalRuns(here, i - 1) \cup {e}
    BY <1>1, <1>4, RunEnding
  <2> HIDE DEF e, r
  <2>4. ToSet(r.runs) = ToSet(p.runs) \cup {e}
    BY <1>1, <2>1, <2>2, ToSetAppend
  <2> QED BY <1>1, <1>2, <1>4, <2>1, <2>3, <2>4 DEF Scanned, r
<1>5. CASE i \in here /\ p.in
  <2>1. r = p
    BY <1>5 DEF ScanStep
  <2>2. p.start \in 1 .. i /\ p.start .. i \subseteq here
    <3>1. \A j \in p.start .. i : j = i \/ j \in p.start .. (i - 1)
      BY <1>1
    <3> QED BY <1>1, <1>5, <3>1
  <2>3. ToSet(p.runs) = MaximalRuns(here, i)
    BY <1>1, <1>5, NoRunEnding
  <2> HIDE DEF r
  <2> QED BY <1>1, <1>5, <2>1, <2>2, <2>3 DEF Scanned, r
<1>6. CASE i \notin here /\ ~p.in
  <2>1. r = p
    BY <1>6 DEF ScanStep
  <2>2. ToSet(p.runs) = MaximalRuns(here, i)
    BY <1>1, <1>6, NoRunEnding
  <2> HIDE DEF r
  <2> QED BY <1>1, <1>6, <2>1, <2>2 DEF Scanned, r
<1> QED BY <1>1, <1>3, <1>4, <1>5, <1>6

LEMMA ScanEndIs ==
  ASSUME NEW here, NEW n \in Nat, n + 1 \notin here, NEW p, Scanned(here, n, p)
  PROVE  ScanEnd(p, n) \in Seq(Pairs) /\ ToSet(ScanEnd(p, n)) = MaximalRuns(here, n + 1)
<1> DEFINE i == n + 1
<1>1. /\ p.in \in BOOLEAN /\ p.start \in Nat /\ p.runs \in Seq(Pairs)
      /\ (p.in <=> n \in here) /\ ToSet(p.runs) = MaximalRuns(here, n)
      /\ p.in => p.start \in 1 .. n /\ p.start .. n \subseteq here /\ p.start - 1 \notin here
  BY DEF Scanned, Scans
<1>2. i \in Nat /\ i # 0 /\ i \notin here /\ i - 1 = n
  OBVIOUS
<1>3. CASE p.in
  <2> DEFINE e == <<p.start, i>>
  <2>1. e \in Pairs
    BY <1>1, <1>2 DEF Pairs
  <2>2. ScanEnd(p, n) = Append(p.runs, e)
    BY <1>3 DEF ScanEnd
  <2>3. MaximalRuns(here, i) = MaximalRuns(here, n) \cup {e}
    <3> HIDE DEF i
    <3>1. p.start \in 1 .. i - 1 /\ p.start .. (i - 1) \subseteq here /\ p.start - 1 \notin here
      BY <1>1, <1>2, <1>3
    <3>2. MaximalRuns(here, i) = MaximalRuns(here, i - 1) \cup {<<p.start, i>>}
      BY <1>2, <3>1, RunEnding
    <3> QED BY <1>2, <3>2
  <2> HIDE DEF e
  <2>4. ToSet(Append(p.runs, e)) = ToSet(p.runs) \cup {e} /\ Append(p.runs, e) \in Seq(Pairs)
    BY <1>1, <2>1, ToSetAppend, AppendProperties
  <2> QED BY <1>1, <2>2, <2>3, <2>4
<1>4. CASE ~p.in
  <2>1. ScanEnd(p, n) = p.runs
    BY <1>4 DEF ScanEnd
  <2>2. MaximalRuns(here, i) = MaximalRuns(here, n)
    <3> HIDE DEF i
    <3>1. MaximalRuns(here, i) = MaximalRuns(here, i - 1)
      BY <1>1, <1>2, <1>4, NoRunEnding
    <3> QED BY <1>2, <3>1
  <2> QED BY <1>1, <2>1, <2>2
<1> QED BY <1>3, <1>4

\* The windows of a gate: the maximal runs that last long enough.
LEMMA GateRunsAre ==
  ASSUME NEW s, IsSignal(s), NEW here, here \subseteq 1 .. Count(s), NEW minLen
  PROVE  /\ GateRuns(s, here, minLen) \in Seq(Pairs)
         /\ ToSet(GateRuns(s, here, minLen)) =
              {r \in MaximalRuns(here, Count(s) + 1) :
                 minLen > 0 => s.ts[r[2] - 1] - s.ts[r[1]] >= minLen}
<1> DEFINE n == Count(s)
<1>1. n \in Nat /\ 0 \notin here /\ n + 1 \notin here
  BY SignalIs
<1>2. PICK h : ScanLoop(s, here, minLen, h)
  BY ScanLoopExists
<1>3. /\ h[0] = [in |-> FALSE, start |-> 0, runs |-> <<>>]
      /\ \A i \in 1 .. n : h[i] = ScanStep(here, i, h[i - 1])
      /\ GateRuns(s, here, minLen) =
           LET all == ScanEnd(h[n], n)
           IN  IF minLen > 0
               THEN Picked(all, {k \in DOMAIN all : s.ts[all[k][2] - 1] - s.ts[all[k][1]] >= minLen})
               ELSE all
  BY <1>2 DEF ScanLoop
<1> DEFINE S == {i \in 0 .. n : Scanned(here, i, h[i])}
<1>4. 0 \in S
  <2>1. MaximalRuns(here, 0) = {}
    BY DEF MaximalRuns, Pairs
  <2>2. ToSet(<<>>) = {}
    BY DEF ToSet
  <2>3. [in |-> FALSE, start |-> 0, runs |-> <<>>] \in Scans
    BY DEF Scans
  <2> DEFINE p == [in |-> FALSE, start |-> 0, runs |-> <<>>]
  <2>4. p.in = FALSE /\ p.runs = <<>>
    OBVIOUS
  <2> HIDE DEF p
  <2>5. Scanned(here, 0, p)
    BY <1>1, <2>1, <2>2, <2>3, <2>4 DEF Scanned, p
  <2> QED BY <1>1, <1>3, <2>5 DEF p
<1>5. ASSUME NEW i \in 1 .. n, i - 1 \in S PROVE i \in S
  <2>1. i \in Nat /\ i # 0 /\ i \in 0 .. n
    BY <1>1
  <2>2. Scanned(here, i, ScanStep(here, i, h[i - 1]))
    BY <1>5, <2>1, ScanStepIs
  <2> QED BY <1>3, <2>1, <2>2
<1>6. Scanned(here, n, h[n])
  <2>1. 0 .. n \subseteq S
    <3> HIDE DEF S, n
    <3> QED BY <1>1, <1>4, <1>5, UpTo
  <2>2. n \in 0 .. n
    BY <1>1
  <2> QED BY <2>1, <2>2
<1> DEFINE all == ScanEnd(h[n], n)
           long(r) == s.ts[r[2] - 1] - s.ts[r[1]] >= minLen
           idx == {k \in DOMAIN all : long(all[k])}
<1>7. all \in Seq(Pairs) /\ ToSet(all) = MaximalRuns(here, n + 1)
  BY <1>1, <1>6, ScanEndIs
<1>8. GateRuns(s, here, minLen) = IF minLen > 0 THEN Picked(all, idx) ELSE all
  BY <1>3
<1> HIDE DEF all
<1>9. ToSet(all) = {all[k] : k \in DOMAIN all}
  BY DEF ToSet
<1>10. /\ Picked(all, idx) \in Seq(Pairs)
       /\ ToSet(Picked(all, idx)) = {all[k] : k \in idx \cap DOMAIN all}
  <2> HIDE DEF idx
  <2> QED BY <1>7, ToSetPicked
<1>11. {r \in MaximalRuns(here, n + 1) : minLen > 0 => s.ts[r[2] - 1] - s.ts[r[1]] >= minLen}
         = {r \in MaximalRuns(here, n + 1) : minLen > 0 => long(r)}
  OBVIOUS
<1> HIDE DEF long
<1>12. {all[k] : k \in idx \cap DOMAIN all} = {r \in ToSet(all) : long(r)}
  BY <1>9
<1> HIDE DEF idx
<1> QED BY <1>7, <1>8, <1>10, <1>11, <1>12

-----------------------------------------------------------------------------
(* Interpolation                                                            *)

LEMMA MinAt ==
  ASSUME NEW S, S \subseteq Nat, NEW k \in S, \A y \in S : k <= y
  PROVE  Min(S) = k
<1>1. Min(S) \in S /\ Min(S) <= k
  BY MinIs
<1>2. k <= Min(S) /\ Min(S) \in Nat /\ k \in Nat
  BY <1>1
<1> QED BY <1>1, <1>2

LEMMA MaxAt ==
  ASSUME NEW n \in Nat, NEW S, S \subseteq 0 .. n, NEW k \in S, \A y \in S : y <= k
  PROVE  Max(S) = k
<1>1. Max(S) \in S /\ k <= Max(S)
  BY MaxIs
<1>2. Max(S) <= k /\ Max(S) \in Nat /\ k \in Nat
  <2>1. \A y \in S : y \in Nat
    OBVIOUS
  <2> QED BY <1>1, <2>1
<1> QED BY <1>1, <1>2

\* lo is the sample before the query time, unless that is outside of the signal.
Brackets(s, t, lo) ==
  (s.ts[1] < t /\ t < s.ts[Count(s)]) =>
     lo \in 1 .. Count(s) - 1 /\ s.ts[lo] <= t /\ t <= s.ts[lo + 1]

LEMMA NeighboursAre ==
  ASSUME NEW s, IsSignal(s), NEW t \in Int,
         NEW b \in 1 .. Count(s), NEW a \in 1 .. Count(s),
         \A i \in 1 .. Count(s) : s.ts[i] <= t => i <= b,
         \A i \in 1 .. Count(s) : s.ts[i] >= t => a <= i,
         s.ts[b] <= t \/ (a = b /\ t < s.ts[1]), s.ts[a] >= t \/ (a = b /\ s.ts[Count(s)] < t)
  PROVE  NeighboursAt(s, t) = s.dep[b] \cup s.dep[a]
<1> DEFINE n == Count(s)
           before == {i \in DOMAIN s.ts : s.ts[i] <= t}
           after == {i \in DOMAIN s.ts : s.ts[i] >= t}
<1>1. n \in Nat /\ DOMAIN s.ts = 1 .. n /\ s.ts \in [1 .. n -> Int]
  BY SignalIs
<1>2. before \subseteq 0 .. n /\ after \subseteq Nat
  BY <1>1
<1>3. 1 \in 1 .. n /\ n \in 1 .. n
  BY <1>1
<1>4. ASSUME NEW i \in 1 .. n PROVE s.ts[1] <= s.ts[i] /\ s.ts[i] <= s.ts[n]
  <2>1. 1 <= i /\ i <= n
    BY <1>1
  <2> QED BY <1>3, <2>1, SignalLater
<1>5. s.ts[b] <= t => before # {} /\ Max(before) = b
  <2> SUFFICES ASSUME s.ts[b] <= t PROVE before # {} /\ Max(before) = b
    OBVIOUS
  <2>1. b \in before /\ \A i \in before : i <= b
    BY <1>1
  <2> HIDE DEF before
  <2>2. Max(before) = b
    BY <1>1, <1>2, <2>1, MaxAt
  <2> QED BY <2>1, <2>2
<1>6. s.ts[a] >= t => after # {} /\ Min(after) = a
  <2> SUFFICES ASSUME s.ts[a] >= t PROVE after # {} /\ Min(after) = a
    OBVIOUS
  <2>1. a \in after /\ \A i \in after : a <= i
    BY <1>1
  <2> HIDE DEF after
  <2>2. Min(after) = a
    BY <1>2, <2>1, MinAt
  <2> QED BY <2>1, <2>2
<1>7. t < s.ts[1] => before = {} /\ ~ (s.ts[b] <= t)
  BY <1>1, <1>3, <1>4
<1>8. s.ts[n] < t => after = {} /\ ~ (s.ts[a] >= t)
  BY <1>1, <1>3, <1>4
<1>9. NeighboursAt(s, t) = (IF before = {} THEN {} ELSE s.dep[Max(before)])
                             \cup (IF after = {} THEN {} ELSE s.dep[Min(after)])
  BY DEF NeighboursAt
<1>10. s.ts[1] \in Int /\ s.ts[n] \in Int /\ s.ts[1] <= s.ts[n]
  BY <1>1, <1>3, <1>4
<1> HIDE DEF before, after
<1>11. CASE s.ts[b] <= t /\ s.ts[a] >= t
  BY <1>5, <1>6, <1>9, <1>11
<1>12. CASE ~ (s.ts[b] <= t)
  <2>1. a = b /\ t < s.ts[1] /\ ~ (s.ts[n] < t)
    BY <1>10, <1>12
  <2> QED BY <1>6, <1>7, <1>9, <2>1
<1>13. CASE ~ (s.ts[a] >= t)
  <2>1. a = b /\ s.ts[n] < t /\ ~ (t < s.ts[1])
    BY <1>10, <1>13
  <2> QED BY <1>5, <1>8, <1>9, <2>1
<1> QED BY <1>11, <1>12, <1>13

\* With the right cursor, the interpolated value comes from the neighbours.
LEMMA InterpolatedIs ==
  ASSUME NEW s, IsSignal(s), Count(s) # 0, NEW t \in Int, NEW lo, Brackets(s, t, lo)
  PROVE  Interpolated(s, t, lo) = NeighboursAt(s, t) /\ NeighboursAt(s, t) \in SUBSET Int
<1> DEFINE n == Count(s)
<1>1. /\ n \in Nat /\ DOMAIN s.ts = 1 .. n /\ s.ts \in [1 .. n -> Int] /\ Len(s.ts) = n
      /\ Len(s.dep) = n /\ s.dep \in [1 .. n -> SUBSET Int]
  BY SignalIs
<1>2. 1 \in 1 .. n /\ n \in 1 .. n
  BY <1>1
<1>3. s.ts[1] \in Int /\ s.ts[n] \in Int /\ \A i \in 1 .. n : s.ts[i] \in Int
  BY <1>1, <1>2
<1>4. Last(s.ts) = s.ts[n] /\ Last(s.dep) = s.dep[n]
  BY <1>1 DEF Last
<1>5. \A i, j \in 1 .. n : i < j => s.ts[i] < s.ts[j]
  BY SignalLater
<1> HIDE DEF n
<1>6. CASE t <= s.ts[1]
  <2>1. Interpolated(s, t, lo) = s.dep[1] \cup s.dep[1]
    BY <1>6 DEF Interpolated
  <2>2. ASSUME NEW i \in 1 .. n, s.ts[i] <= t PROVE i <= 1
    <3>1. 1 < i => s.ts[1] < s.ts[i]
      BY <1>2, <1>5
    <3> QED BY <1>3, <1>6, <2>2, <3>1
  <2>3. \A i \in 1 .. n : s.ts[i] >= t => 1 <= i
    OBVIOUS
  <2>4. s.ts[1] <= t \/ (1 = 1 /\ t < s.ts[1])
    BY <1>3, <1>6
  <2>5. NeighboursAt(s, t) = s.dep[1] \cup s.dep[1]
    BY <1>2, <1>6, <2>2, <2>3, <2>4, NeighboursAre DEF n
  <2> QED BY <1>1, <1>2, <2>1, <2>5
<1>7. CASE t >= s.ts[n] /\ ~ (t <= s.ts[1])
  <2>1. Interpolated(s, t, lo) = s.dep[n] \cup s.dep[n]
    BY <1>4, <1>7 DEF Interpolated
  <2>2. ASSUME NEW i \in 1 .. n, s.ts[i] >= t PROVE n <= i
    <3>1. i < n => s.ts[i] < s.ts[n]
      BY <1>2, <1>5
    <3> QED BY <1>1, <1>3, <1>7, <2>2, <3>1
  <2>3. \A i \in 1 .. n : s.ts[i] <= t => i <= n
    OBVIOUS
  <2>4. s.ts[n] >= t \/ (n = n /\ s.ts[n] < t)
    BY <1>3, <1>7
  <2>5. NeighboursAt(s, t) = s.dep[n] \cup s.dep[n]
    BY <1>2, <1>7, <2>2, <2>3, <2>4, NeighboursAre DEF n
  <2> QED BY <1>1, <1>2, <2>1, <2>5
<1>8. CASE ~ (t <= s.ts[1]) /\ ~ (t >= s.ts[n])
  <2>1. lo \in 1 .. n - 1 /\ s.ts[lo] <= t /\ t <= s.ts[lo + 1]
    <3>1. s.ts[1] < t /\ t < s.ts[n]
      BY <1>3, <1>8
    <3> QED BY <3>1 DEF Brackets, n
  <2>2. lo \in 1 .. n /\ lo + 1 \in 1 .. n
    BY <1>1, <2>1
  <2>3. s.ts[lo] \in Int /\ s.ts[lo + 1] \in Int /\ s.ts[lo] < s.ts[lo + 1]
    <3>1. lo < lo + 1
      BY <2>2
    <3> QED BY <1>3, <1>5, <2>2, <3>1
  <2>4. \A i \in 1 .. n : (lo < i => s.ts[lo] < s.ts[i]) /\ (lo + 1 < i => s.ts[lo + 1] < s.ts[i])
                          /\ (i < lo => s.ts[i] < s.ts[lo]) /\ (i < lo + 1 => s.ts[i] < s.ts[lo + 1])
    BY <1>5, <2>2
  <2>5. Interpolated(s, t, lo) = Between(s, lo, t)
    BY <1>4, <1>8 DEF Interpolated
  <2>6. CASE t = s.ts[lo]
    <3>1. Between(s, lo, t) = s.dep[lo] \cup s.dep[lo]
      BY <2>6 DEF Between
    <3>2. \A i \in 1 .. n : (s.ts[i] <= t => i <= lo) /\ (s.ts[i] >= t => lo <= i)
      BY <1>3, <2>2, <2>4, <2>6
    <3>3. s.ts[lo] <= t /\ s.ts[lo] >= t
      BY <2>3, <2>6
    <3>4. NeighboursAt(s, t) = s.dep[lo] \cup s.dep[lo]
      BY <2>2, <3>2, <3>3, NeighboursAre DEF n
    <3> QED BY <1>1, <2>2, <2>5, <3>1, <3>4
  <2>7. CASE t = s.ts[lo + 1]
    <3> DEFINE hi == lo + 1
    <3>1. Between(s, lo, t) = s.dep[hi] \cup s.dep[hi]
      BY <2>3, <2>7 DEF Between
    <3>2. \A i \in 1 .. n : (s.ts[i] <= t => i <= hi) /\ (s.ts[i] >= t => hi <= i)
      BY <1>3, <2>2, <2>4, <2>7
    <3>3. s.ts[hi] <= t /\ s.ts[hi] >= t /\ hi \in 1 .. n
      BY <2>2, <2>3, <2>7
    <3> HIDE DEF hi
    <3>4. NeighboursAt(s, t) = s.dep[hi] \cup s.dep[hi]
      BY <3>2, <3>3, NeighboursAre DEF n
    <3> QED BY <1>1, <2>5, <3>1, <3>3, <3>4
  <2>8. CASE t # s.ts[lo] /\ t # s.ts[lo + 1]
    <3> DEFINE hi == lo + 1
    <3>1. Between(s, lo, t) = s.dep[lo] \cup s.dep[hi]
      BY <2>8 DEF Between
    <3>2. s.ts[lo] < t /\ t < s.ts[hi]
      BY <2>1, <2>3, <2>8
    <3>3. ASSUME NEW i \in 1 .. n PROVE (s.ts[i] <= t => i <= lo) /\ (s.ts[i] >= t => hi <= i)
      <4>1. s.ts[i] \in Int /\ i \in Int /\ lo \in Int
        BY <1>3, <2>2
      <4>2. lo < i => i = hi \/ hi < i
        BY <4>1
      <4>3. i < hi => i = lo \/ i < lo
        BY <4>1
      <4>4. lo < i => s.ts[hi] <= s.ts[i]
        BY <2>3, <2>4, <4>1, <4>2
      <4>5. i < hi => s.ts[i] <= s.ts[lo]
        BY <2>3, <2>4, <4>1, <4>3
      <4> QED BY <2>3, <3>2, <4>1, <4>4, <4>5
    <3>4. s.ts[lo] <= t /\ s.ts[hi] >= t /\ hi \in 1 .. n
      BY <2>2, <2>3, <3>2
    <3> HIDE DEF hi
    <3>5. NeighboursAt(s, t) = s.dep[lo] \cup s.dep[hi]
      BY <2>2, <3>3, <3>4, NeighboursAre DEF n
    <3> QED BY <1>1, <2>2, <2>5, <3>1, <3>4, <3>5
  <2> QED BY <2>6, <2>7, <2>8
<1> QED BY <1>6, <1>7, <1>8

\* The cursor stops at most one sample before the query time, for ascending ones.
CursorLoop(s, times, h) ==
  /\ h = [i \in 0 .. Len(times) |-> h[i]] /\ h[0] = 1
  /\ \A i \in 1 .. Len(times) : h[i] = IF times[i] <= s.ts[1] \/ times[i] >= Last(s.ts) THEN h[i - 1]
                                     ELSE Min({c \in h[i - 1] .. Count(s) - 1 : s.ts[c + 1] >= times[i]})
  /\ \A i \in 0 .. Len(times) : h[i] \in {c \in 1 .. Count(s) :
                               c = 1 \/ (i # 0 /\ c <= Count(s) - 1 /\ s.ts[c] < times[i])}
  /\ CursorWalk(s, times) = [j \in DOMAIN times |-> Interpolated(s, times[j], h[j])]

LEMMA CursorLoopExists ==
  ASSUME NEW s, IsSignal(s), Count(s) # 0, NEW times, times \in Times(Len(times)), Len(times) \in Nat
  PROVE  \E h : CursorLoop(s, times, h)
<1> DEFINE n == Len(times)
           X == [i \in 0 .. n |-> {c \in 1 .. Count(s) :
                               c = 1 \/ (i # 0 /\ c <= Count(s) - 1 /\ s.ts[c] < times[i])}]
           step(i, v) == IF times[i] <= s.ts[1] \/ times[i] >= Last(s.ts) THEN v
                                     ELSE Min({c \in v .. Count(s) - 1 : s.ts[c + 1] >= times[i]})
           g == [i \in 1 .. n |-> [v \in X[i - 1] |-> step(i, v)]]
           h == CHOOSE r : r = [i \in 0 .. n |-> IF i = 0 THEN 1 ELSE step(i, r[i - 1])]
<1>1. n \in Nat
  OBVIOUS
<1>2. 1 \in X[0] /\ \A i \in 1 .. n : i - 1 \in 0 .. n /\ i \in 0 .. n
  <2>1. Count(s) \in Nat
    BY SignalIs
  <2> QED BY <1>1, <2>1
<1>3. ASSUME NEW i \in 1 .. n, NEW v \in X[i - 1] PROVE step(i, v) \in X[i]
  <2>1. /\ Count(s) \in Nat /\ s.ts \in [1 .. Count(s) -> Int] /\ Len(s.ts) = Count(s)
        /\ Last(s.ts) = s.ts[Count(s)]
    <3>1. Count(s) \in Nat /\ s.ts \in [1 .. Count(s) -> Int] /\ Len(s.ts) = Count(s)
      BY SignalIs
    <3> QED BY <3>1 DEF Last
  <2>2. times \in [1 .. n -> Int] /\ \A j \in 1 .. n - 1 : times[j] < times[j + 1]
    BY DEF Times
  <2>3. /\ v \in 1 .. Count(s) /\ times[i] \in Int
        /\ v = 1 \/ (i - 1 # 0 /\ v <= Count(s) - 1 /\ s.ts[v] < times[i - 1])
    BY <1>2, <2>2
  <2>4. i - 1 # 0 => times[i - 1] < times[i] /\ times[i - 1] \in Int
    <3> SUFFICES ASSUME i - 1 # 0 PROVE times[i - 1] < times[i] /\ times[i - 1] \in Int
      OBVIOUS
    <3>1. i - 1 \in 1 .. n - 1 /\ i - 1 \in 1 .. n /\ (i - 1) + 1 = i
      <4> HIDE DEF n
      <4> QED BY <1>1
    <3> QED BY <2>2, <3>1
  <2>5. s.ts[v] \in Int
    BY <2>1, <2>3
  <2>6. v = 1 \/ (v <= Count(s) - 1 /\ s.ts[v] < times[i])
    BY <2>3, <2>4, <2>5
  <2>7. i # 0 /\ i \in 0 .. n
    BY <1>1, <1>2
  <2>8. CASE times[i] <= s.ts[1] \/ times[i] >= Last(s.ts)
    <3>1. step(i, v) = v
      BY <2>8
    <3> QED BY <2>3, <2>6, <2>7, <3>1
  <2>9. CASE ~ (times[i] <= s.ts[1] \/ times[i] >= Last(s.ts))
    <3> DEFINE m == Count(s)
               W == {c \in v .. m - 1 : s.ts[c + 1] >= times[i]}
               w == Min(W)
    <3>1. 1 \in 1 .. m /\ m \in 1 .. m /\ s.ts[1] \in Int /\ s.ts[m] \in Int
      BY <2>1, <2>3
    <3>2. s.ts[1] < times[i] /\ times[i] < s.ts[m]
      BY <2>1, <2>3, <2>9, <3>1
    <3>3. v <= m - 1 /\ m \in Nat /\ v \in Nat
      <4>1. m # 1
        BY <2>3, <3>1, <3>2
      <4> QED BY <2>1, <2>3, <2>6, <4>1
    <3>4. m - 1 \in W /\ W \subseteq Nat
      BY <2>3, <3>1, <3>2, <3>3
    <3>5. w \in W /\ \A c \in W : w <= c
      <4> HIDE DEF W
      <4> QED BY <3>4, MinIs
    <3>6. w \in v .. m - 1 /\ w \in 1 .. m
      BY <2>3, <3>3, <3>5
    <3>7. s.ts[w] < times[i]
      <4>1. CASE w = v
        BY <2>6, <3>2, <4>1
      <4>2. CASE w # v
        <5>0. w - 1 \in v .. m - 1 /\ ~ (w <= w - 1) /\ (w - 1) + 1 = w
          <6> HIDE DEF w, m
          <6> QED BY <3>3, <3>6, <4>2
        <5>1. w - 1 \in v .. m - 1 /\ w - 1 \notin W /\ (w - 1) + 1 = w
          BY <3>5, <5>0
        <5>2. s.ts[w] \in Int /\ ~ (s.ts[w] >= times[i])
          BY <2>1, <3>6, <5>1
        <5> QED BY <2>3, <5>2
      <4> QED BY <4>1, <4>2
    <3>8. step(i, v) = w
      BY <2>9
    <3> HIDE DEF w, W
    <3> QED BY <2>7, <3>6, <3>7, <3>8
  <2> QED BY <2>8, <2>9
<1>4. CursorWalk(s, times) = [j \in DOMAIN times |-> Interpolated(s, times[j], h[j])]
  BY <1>1 DEF CursorWalk
<1> HIDE DEF n, X, step
<1>5. \A i \in 1 .. n : g[i] \in [X[i - 1] -> X[i]]
  BY <1>3
<1>6. PICK f : /\ f = [i \in 0 .. n |-> f[i]] /\ f[0] = 1
               /\ \A i \in 1 .. n : f[i - 1] \in X[i - 1] /\ f[i] = g[i][f[i - 1]]
               /\ \A i \in 0 .. n : i # 0 => i \in 1 .. n
  <2> HIDE DEF g
  <2> QED BY <1>1, <1>2, <1>5, LoopExists
<1>7. f = [i \in 0 .. n |-> IF i = 0 THEN 1 ELSE step(i, f[i - 1])]
  BY <1>6
<1>8. h = [i \in 0 .. n |-> IF i = 0 THEN 1 ELSE step(i, h[i - 1])]
  BY <1>7
<1> HIDE DEF g, h
<1>9. h[0] = 1 /\ \A i \in 1 .. n : h[i] = step(i, h[i - 1])
  <2>1. 0 \in 0 .. n /\ \A i \in 1 .. n : i \in 0 .. n /\ i # 0
    BY <1>1
  <2> QED BY <1>8, <2>1
<1>10. h = [i \in 0 .. n |-> h[i]]
  BY <1>8
<1>11. \A i \in 0 .. n : h[i] \in X[i]
  <2>1. h[0] \in X[0] /\ \A i \in 1 .. n : h[i - 1] \in X[i - 1] => h[i] \in X[i]
    BY <1>2, <1>3, <1>9
  <2> QED BY <1>1, <2>1, LoopType
<1>12. \A i \in 0 .. n : h[i] \in {c \in 1 .. Count(s) :
                               c = 1 \/ (i # 0 /\ c <= Count(s) - 1 /\ s.ts[c] < times[i])}
  BY <1>11 DEF X
<1> QED BY <1>4, <1>9, <1>10, <1>12 DEF n, step, CursorLoop

\* One cursor that only moves forward finds the neighbours of every query time.
LEMMA CursorWalkIs ==
  ASSUME NEW s, IsSignal(s), Count(s) # 0,
         NEW m \in Nat, NEW times \in Times(m), Len(times) = m
  PROVE  /\ CursorWalk(s, times) = [j \in 1 .. m |-> NeighboursAt(s, times[j])]
         /\ CursorWalk(s, times) \in Deps(m)
<1> DEFINE n == Count(s)
<1>1. /\ n \in Nat /\ s.ts \in [1 .. n -> Int] /\ Len(s.ts) = n /\ Last(s.ts) = s.ts[n]
  <2>1. n \in Nat /\ s.ts \in [1 .. n -> Int] /\ Len(s.ts) = n
    BY SignalIs
  <2> QED BY <2>1 DEF Last
<1>2. times \in [1 .. m -> Int] /\ DOMAIN times = 1 .. m /\ \A j \in 1 .. m - 1 : times[j] < times[j + 1]
  BY DEF Times
<1>3. PICK h : CursorLoop(s, times, h)
  BY CursorLoopExists
<1>4. /\ h[0] = 1
      /\ \A i \in 1 .. m : h[i] = IF times[i] <= s.ts[1] \/ times[i] >= Last(s.ts) THEN h[i - 1]
                                  ELSE Min({c \in h[i - 1] .. n - 1 : s.ts[c + 1] >= times[i]})
      /\ \A i \in 0 .. m : h[i] \in {c \in 1 .. n : c = 1 \/ (i # 0 /\ c <= n - 1 /\ s.ts[c] < times[i])}
      /\ CursorWalk(s, times) = [j \in DOMAIN times |-> Interpolated(s, times[j], h[j])]
  BY <1>3 DEF CursorLoop
<1>5. ASSUME NEW j \in 1 .. m PROVE Brackets(s, times[j], h[j])
  <2>1. j \in 0 .. m /\ j - 1 \in 0 .. m
    OBVIOUS
  <2>2. /\ times[j] \in Int /\ h[j] \in 1 .. n /\ h[j - 1] \in 1 .. n
        /\ h[j] = 1 \/ (h[j] <= n - 1 /\ s.ts[h[j]] < times[j])
    BY <1>2, <1>4, <2>1
  <2> SUFFICES ASSUME s.ts[1] < times[j], times[j] < s.ts[n]
               PROVE  h[j] \in 1 .. n - 1 /\ s.ts[h[j]] <= times[j] /\ times[j] <= s.ts[h[j] + 1]
    BY DEF Brackets
  <2>3. 1 \in 1 .. n /\ n \in 1 .. n /\ s.ts[1] \in Int /\ s.ts[n] \in Int
    BY <1>1
  <2>4. n # 1
    BY <2>2, <2>3
  <2>5. h[j] \in 1 .. n - 1 /\ s.ts[h[j]] <= times[j]
    <3>1. s.ts[h[j]] \in Int
      BY <1>1, <2>2
    <3> QED BY <1>1, <2>2, <2>4, <3>1
  <2> DEFINE v == h[j - 1]
             W == {c \in v .. n - 1 : s.ts[c + 1] >= times[j]}
  <2>6. h[j] = Min(W)
    <3>1. ~ (times[j] <= s.ts[1] \/ times[j] >= Last(s.ts))
      BY <1>1, <2>2, <2>3
    <3> QED BY <1>4, <3>1
  <2>7. v \in 1 .. n /\ v <= n - 1
    <3>1. v = 1 \/ v <= n - 1
      BY <1>4, <2>1
    <3> QED BY <1>1, <2>2, <2>4, <3>1
  <2>8. n - 1 \in W /\ W \subseteq Nat
    <3>1. n - 1 \in v .. n - 1 /\ (n - 1) + 1 = n /\ v .. n - 1 \subseteq Nat
      BY <2>3, <2>7
    <3>2. s.ts[n] >= times[j]
      BY <2>2, <2>3
    <3> QED BY <3>1, <3>2
  <2>9. Min(W) \in W
    <3> HIDE DEF W
    <3> QED BY <2>8, MinIs
  <2>10. s.ts[h[j] + 1] >= times[j] /\ s.ts[h[j] + 1] \in Int
    <3>1. h[j] + 1 \in 1 .. n
      BY <1>1, <2>5
    <3> QED BY <1>1, <2>6, <2>9, <3>1
  <2> QED BY <2>2, <2>5, <2>10
<1>6. \A j \in 1 .. m : Interpolated(s, times[j], h[j]) = NeighboursAt(s, times[j])
                        /\ NeighboursAt(s, times[j]) \in SUBSET Int
  BY <1>2, <1>5, InterpolatedIs
<1>7. CursorWalk(s, times) = [j \in 1 .. m |-> NeighboursAt(s, times[j])]
  BY <1>2, <1>4, <1>6
<1> QED BY <1>6, <1>7 DEF Deps

-----------------------------------------------------------------------------
(* Binary search                                                            *)

\* The result of narrowing lo .. hi: the last index strictly between whose
\* sample (numbered from 0) is not after t, or lo.
LastNotAfter(s, t, lo, hi) ==
  Max({lo} \cup {m \in lo + 1 .. hi - 1 : s.ts[m + 1] <= t})

Bounds(n) == (0 .. n) \X (0 .. n)
Narrows(s, t, f) ==
  \A p \in Bounds(Count(s)) :
    f[p] = IF p[1] + 1 >= p[2] THEN p[1]
           ELSE IF s.ts[((p[1] + p[2]) \div 2) + 1] <= t THEN f[<<(p[1] + p[2]) \div 2, p[2]>>]
           ELSE f[<<p[1], (p[1] + p[2]) \div 2>>]

LEMMA LastNotAfterIs ==
  ASSUME NEW s, IsSignal(s), NEW t, NEW lo \in 0 .. Count(s), NEW hi \in 0 .. Count(s)
  PROVE  LET M == LastNotAfter(s, t, lo, hi)
         IN  /\ M \in 0 .. Count(s) /\ M >= lo
             /\ M = lo \/ (M < hi /\ s.ts[M + 1] <= t)
             /\ \A m \in lo + 1 .. hi - 1 : s.ts[m + 1] <= t => m <= M
<1> DEFINE S == {lo} \cup {m \in lo + 1 .. hi - 1 : s.ts[m + 1] <= t}
<1>1. Count(s) \in Nat
  BY SignalIs
<1>2. S \subseteq 0 .. Count(s) /\ S # {}
  BY <1>1
<1>3. Max(S) \in S /\ \A y \in S : y <= Max(S)
  <2> HIDE DEF S
  <2> QED BY <1>1, <1>2, MaxIs
<1>4. LastNotAfter(s, t, lo, hi) = Max(S)
  BY DEF LastNotAfter
<1> DEFINE M == Max(S)
<1>5. M \in 0 .. Count(s) /\ lo <= M
  <2>1. M \in S /\ lo <= M
    BY <1>3
  <2> HIDE DEF M, S
  <2> QED BY <1>2, <2>1
<1>6. M = lo \/ (M \in lo + 1 .. hi - 1 /\ s.ts[M + 1] <= t)
  <2>1. M \in S
    BY <1>3
  <2> HIDE DEF M
  <2> QED BY <2>1
<1>7. \A m \in lo + 1 .. hi - 1 : s.ts[m + 1] <= t => m <= M
  BY <1>3
<1> HIDE DEF M, S
<1>8. M = lo \/ (M < hi /\ s.ts[M + 1] <= t)
  BY <1>1, <1>5, <1>6
<1> QED BY <1>1, <1>4, <1>5, <1>7, <1>8 DEF M

\* What is between is the only such number.
LEMMA LastNotAfterAt ==
  ASSUME NEW s, IsSignal(s), NEW t, NEW lo \in 0 .. Count(s), NEW hi \in 0 .. Count(s),
         NEW M \in 0 .. Count(s), M >= lo, M = lo \/ (M < hi /\ s.ts[M + 1] <= t),
         \A m \in lo + 1 .. hi - 1 : s.ts[m + 1] <= t => m <= M
  PROVE  LastNotAfter(s, t, lo, hi) = M
<1> DEFINE K == LastNotAfter(s, t, lo, hi)
<1>1. /\ K \in 0 .. Count(s) /\ K >= lo
      /\ K = lo \/ (K < hi /\ s.ts[K + 1] <= t)
      /\ \A m \in lo + 1 .. hi - 1 : s.ts[m + 1] <= t => m <= K
  BY LastNotAfterIs
<1>2. Count(s) \in Nat
  BY SignalIs
<1> HIDE DEF K
<1>3. ~ (K < M)
  <2>1. K < M => M \in lo + 1 .. hi - 1 /\ s.ts[M + 1] <= t
    BY <1>1, <1>2
  <2> QED BY <1>1, <1>2, <2>1
<1>4. ~ (M < K)
  <2>1. M < K => K \in lo + 1 .. hi - 1 /\ s.ts[K + 1] <= t
    BY <1>1, <1>2
  <2> QED BY <1>1, <1>2, <2>1
<1>5. K = M
  BY <1>1, <1>2, <1>3, <1>4
<1> QED BY <1>5 DEF K

\* Halving finds it: on the side of the middle sample where t is.
LEMMA HalvingIs ==
  ASSUME NEW s, IsSignal(s), NEW t \in Int, NEW lo \in 0 .. Count(s), NEW hi \in 0 .. Count(s)
  PROVE  /\ lo + 1 >= hi => LastNotAfter(s, t, lo, hi) = lo
         /\ lo + 1 < hi =>
              LET mid == (lo + hi) \div 2
              IN  /\ mid \in 0 .. Count(s) /\ lo < mid /\ mid < hi
                  /\ LastNotAfter(s, t, lo, hi) =
                       IF s.ts[mid + 1] <= t THEN LastNotAfter(s, t, mid, hi)
                       ELSE LastNotAfter(s, t, lo, mid)
<1> DEFINE n == Count(s)
<1>1. n \in Nat /\ s.ts \in [1 .. n -> Int]
  BY SignalIs
<1>2. ASSUME lo + 1 >= hi PROVE LastNotAfter(s, t, lo, hi) = lo
  <2>1. \A m \in lo + 1 .. hi - 1 : FALSE
    BY <1>1, <1>2
  <2>2. lo >= lo
    BY <1>1
  <2> QED BY <2>1, <2>2, LastNotAfterAt
<1>3. ASSUME lo + 1 < hi
      PROVE  LET mid == (lo + hi) \div 2
             IN  /\ mid \in 0 .. n /\ lo < mid /\ mid < hi
                 /\ LastNotAfter(s, t, lo, hi) =
                      IF s.ts[mid + 1] <= t THEN LastNotAfter(s, t, mid, hi)
                      ELSE LastNotAfter(s, t, lo, mid)
  <2> DEFINE mid == (lo + hi) \div 2
  <2>1. mid \in 0 .. n /\ lo < mid /\ mid < hi
    BY <1>1, <1>3
  <2> HIDE DEF mid
  <2>2. mid + 1 \in 1 .. n /\ s.ts[mid + 1] \in Int
    BY <1>1, <2>1
  <2>3. CASE s.ts[mid + 1] <= t
    <3> DEFINE K == LastNotAfter(s, t, mid, hi)
    <3>1. /\ K \in 0 .. n /\ K >= mid
          /\ K = mid \/ (K < hi /\ s.ts[K + 1] <= t)
          /\ \A m \in mid + 1 .. hi - 1 : s.ts[m + 1] <= t => m <= K
      BY <2>1, LastNotAfterIs
    <3> HIDE DEF K
    <3>2. K >= lo /\ (K = lo \/ (K < hi /\ s.ts[K + 1] <= t))
      BY <1>1, <2>1, <2>3, <3>1
    <3>3. \A m \in lo + 1 .. hi - 1 : s.ts[m + 1] <= t => m <= K
      <4>1. \A m \in lo + 1 .. hi - 1 : m <= mid \/ m \in mid + 1 .. hi - 1
        BY <2>1
      <4> QED BY <2>1, <3>1, <4>1
    <3>4. LastNotAfter(s, t, lo, hi) = K
      BY <3>1, <3>2, <3>3, LastNotAfterAt
    <3> QED BY <2>1, <2>3, <3>4 DEF K, mid
  <2>4. CASE ~ (s.ts[mid + 1] <= t)
    <3> DEFINE K == LastNotAfter(s, t, lo, mid)
    <3>1. /\ K \in 0 .. n /\ K >= lo
          /\ K = lo \/ (K < mid /\ s.ts[K + 1] <= t)
          /\ \A m \in lo + 1 .. mid - 1 : s.ts[m + 1] <= t => m <= K
      BY <2>1, LastNotAfterIs
    <3> HIDE DEF K
    <3>2. K = lo \/ (K < hi /\ s.ts[K + 1] <= t)
      BY <1>1, <2>1, <3>1
    <3>3. ASSUME NEW m \in lo + 1 .. hi - 1, s.ts[m + 1] <= t PROVE m <= K
      <4>1. m + 1 \in 1 .. n /\ s.ts[m + 1] \in Int
        BY <1>1
      <4>2. mid + 1 <= m + 1 => s.ts[mid + 1] <= s.ts[m + 1]
        BY <2>2, <4>1, SignalLater
      <4>3. ~ (mid <= m)
        BY <2>2, <2>4, <3>3, <4>1, <4>2, <2>1
      <4>4. m \in lo + 1 .. mid - 1
        BY <2>1, <4>3
      <4> QED BY <3>1, <3>3, <4>4
    <3>4. LastNotAfter(s, t, lo, hi) = K
      BY <3>1, <3>2, <3>3, LastNotAfterAt
    <3> QED BY <2>1, <2>4, <3>4 DEF K, mid
  <2> QED BY <2>3, <2>4
<1> QED BY <1>2, <1>3

LEMMA NarrowsExists ==
  ASSUME NEW s, IsSignal(s), NEW t \in Int
  PROVE  Narrows(s, t, [p \in Bounds(Count(s)) |-> LastNotAfter(s, t, p[1], p[2])])
<1> DEFINE n == Count(s)
           f == [p \in Bounds(n) |-> LastNotAfter(s, t, p[1], p[2])]
<1> SUFFICES ASSUME NEW p \in Bounds(n)
             PROVE  f[p] = IF p[1] + 1 >= p[2] THEN p[1]
                           ELSE IF s.ts[((p[1] + p[2]) \div 2) + 1] <= t
                                THEN f[<<(p[1] + p[2]) \div 2, p[2]>>]
                                ELSE f[<<p[1], (p[1] + p[2]) \div 2>>]
  BY DEF Narrows
<1>1. p[1] \in 0 .. n /\ p[2] \in 0 .. n /\ n \in Nat
  BY SignalIs DEF Bounds
<1> DEFINE lo == p[1]
           hi == p[2]
           mid == (lo + hi) \div 2
<1>2. \A a, b \in 0 .. n : <<a, b>> \in Bounds(n) /\ <<a, b>>[1] = a /\ <<a, b>>[2] = b
  BY DEF Bounds
<1>3. \A a, b \in 0 .. n : f[<<a, b>>] = LastNotAfter(s, t, a, b)
  BY <1>2
<1>4. f[p] = LastNotAfter(s, t, lo, hi)
  OBVIOUS
<1>5. /\ lo + 1 >= hi => LastNotAfter(s, t, lo, hi) = lo
      /\ lo + 1 < hi =>
              /\ mid \in 0 .. n /\ lo < mid /\ mid < hi
              /\ LastNotAfter(s, t, lo, hi) =
                   IF s.ts[mid + 1] <= t THEN LastNotAfter(s, t, mid, hi)
                   ELSE LastNotAfter(s, t, lo, mid)
  <2>1. \A a, b \in 0 .. n :
          /\ a + 1 >= b => LastNotAfter(s, t, a, b) = a
          /\ a + 1 < b =>
              LET c == (a + b) \div 2
              IN  /\ c \in 0 .. n /\ a < c /\ c < b
                  /\ LastNotAfter(s, t, a, b) =
                       IF s.ts[c + 1] <= t THEN LastNotAfter(s, t, c, b)
                       ELSE LastNotAfter(s, t, a, c)
    BY HalvingIs
  <2> QED BY <1>1, <2>1
<1> HIDE DEF f, n
<1>6. CASE lo + 1 >= hi
  BY <1>4, <1>5, <1>6
<1>7. CASE ~ (lo + 1 >= hi)
  <2>1. lo + 1 < hi
    BY <1>1, <1>7
  <2> HIDE DEF mid
  <2>2. f[<<mid, hi>>] = LastNotAfter(s, t, mid, hi) /\ f[<<lo, mid>>] = LastNotAfter(s, t, lo, mid)
    BY <1>1, <1>3, <1>5, <2>1
  <2> QED BY <1>4, <1>5, <1>7, <2>1, <2>2 DEF mid
<1> QED BY <1>6, <1>7

\* There is one function that narrows like this: the recursion ends.
LEMMA NarrowsIs ==
  ASSUME NEW s, IsSignal(s), NEW t \in Int, NEW f, Narrows(s, t, f),
         NEW lo \in 0 .. Count(s), NEW hi \in 0 .. Count(s)
  PROVE  f[<<lo, hi>>] = LastNotAfter(s, t, lo, hi)
<1> DEFINE n == Count(s)
           S == {d \in 0 .. n : \A a, b \in 0 .. n :
                   b - a <= d => f[<<a, b>>] = LastNotAfter(s, t, a, b)}
<1>1. n \in Nat
  BY SignalIs
<1>2. ASSUME NEW a \in 0 .. n, NEW b \in 0 .. n
      PROVE  f[<<a, b>>] = IF a + 1 >= b THEN a
                           ELSE IF s.ts[((a + b) \div 2) + 1] <= t
                                THEN f[<<(a + b) \div 2, b>>]
                                ELSE f[<<a, (a + b) \div 2>>]
  <2> DEFINE p == <<a, b>>
  <2>1. p \in Bounds(n) /\ p[1] = a /\ p[2] = b
    BY DEF Bounds
  <2> HIDE DEF p
  <2>2. f[p] = IF p[1] + 1 >= p[2] THEN p[1]
               ELSE IF s.ts[((p[1] + p[2]) \div 2) + 1] <= t
                    THEN f[<<(p[1] + p[2]) \div 2, p[2]>>]
                    ELSE f[<<p[1], (p[1] + p[2]) \div 2>>]
    BY <2>1 DEF Narrows
  <2>3. f[p] = IF a + 1 >= b THEN a
               ELSE IF s.ts[((a + b) \div 2) + 1] <= t
                    THEN f[<<(a + b) \div 2, b>>]
                    ELSE f[<<a, (a + b) \div 2>>]
    BY <2>1, <2>2, Zenon
  <2> QED BY <2>3 DEF p
<1>3. \A a, b \in 0 .. n :
          /\ a + 1 >= b => LastNotAfter(s, t, a, b) = a
          /\ a + 1 < b =>
              LET c == (a + b) \div 2
              IN  /\ c \in 0 .. n /\ a < c /\ c < b
                  /\ LastNotAfter(s, t, a, b) =
                       IF s.ts[c + 1] <= t THEN LastNotAfter(s, t, c, b)
                       ELSE LastNotAfter(s, t, a, c)
  BY HalvingIs
<1> HIDE DEF n
<1>4. ASSUME NEW d \in 0 .. n, d = 0 \/ d - 1 \in S PROVE d \in S
  <2> SUFFICES ASSUME NEW a \in 0 .. n, NEW b \in 0 .. n, b - a <= d
               PROVE  f[<<a, b>>] = LastNotAfter(s, t, a, b)
    OBVIOUS
  <2>1. CASE a + 1 >= b
    BY <1>2, <1>3, <2>1
  <2>2. CASE ~ (a + 1 >= b)
    <3> DEFINE c == (a + b) \div 2
    <3>1. a + 1 < b /\ d # 0
      BY <1>1, <2>2
    <3>2. /\ c \in 0 .. n /\ a < c /\ c < b
          /\ LastNotAfter(s, t, a, b) =
               IF s.ts[c + 1] <= t THEN LastNotAfter(s, t, c, b) ELSE LastNotAfter(s, t, a, c)
      BY <1>3, <3>1
    <3>3. f[<<a, b>>] = IF s.ts[c + 1] <= t THEN f[<<c, b>>] ELSE f[<<a, c>>]
      BY <1>2, <2>2
    <3> HIDE DEF c
    <3>4. b - c <= d - 1 /\ c - a <= d - 1
      BY <1>1, <3>2
    <3>5. f[<<c, b>>] = LastNotAfter(s, t, c, b) /\ f[<<a, c>>] = LastNotAfter(s, t, a, c)
      BY <1>4, <3>1, <3>2, <3>4
    <3> QED BY <3>2, <3>3, <3>5
  <2> QED BY <2>1, <2>2
<1>5. 0 \in S
  <2>1. 0 \in 0 .. n
    BY <1>1
  <2> QED BY <1>4, <2>1
<1>6. \A i \in 1 .. n : i - 1 \in S => i \in S
  <2>1. \A i \in 1 .. n : i \in 0 .. n
    BY <1>1
  <2> QED BY <1>4, <2>1
<1>7. 0 .. n \subseteq S
  <2> HIDE DEF S
  <2> QED BY <1>1, <1>5, <1>6, UpTo
<1>8. n \in S /\ hi - lo <= n /\ lo \in 0 .. n /\ hi \in 0 .. n
  BY <1>1, <1>7 DEF n
<1> QED BY <1>8

\* The binary search finds the neighbours of any query time.
LEMMA SearchEachIs ==
  ASSUME NEW s, IsSignal(s), Count(s) # 0,
         NEW m \in Nat, NEW times \in [1 .. m -> Int]
  PROVE  /\ SearchEach(s, times) = [j \in 1 .. m |-> NeighboursAt(s, times[j])]
         /\ SearchEach(s, times) \in Deps(m)
<1> DEFINE n == Count(s)
           narrow(t) == CHOOSE f : f = [p \in (0 .. n) \X (0 .. n) |->
              IF p[1] + 1 >= p[2] THEN p[1]
              ELSE IF s.ts[((p[1] + p[2]) \div 2) + 1] <= t
                   THEN f[<<(p[1] + p[2]) \div 2, p[2]>>]
                   ELSE f[<<p[1], (p[1] + p[2]) \div 2>>]]
<1>1. /\ n \in Nat /\ s.ts \in [1 .. n -> Int] /\ Len(s.ts) = n
  BY SignalIs
<1>2. SearchEach(s, times) =
        [j \in DOMAIN times |-> Interpolated(s, times[j], narrow(times[j])[<<0, n - 1>>] + 1)]
  BY DEF SearchEach
<1>3. DOMAIN times = 1 .. m
  OBVIOUS
<1>4. ASSUME NEW t \in Int PROVE Narrows(s, t, narrow(t))
  <2> DEFINE g == [p \in Bounds(n) |-> LastNotAfter(s, t, p[1], p[2])]
             F(f) == [p \in (0 .. n) \X (0 .. n) |->
              IF p[1] + 1 >= p[2] THEN p[1]
              ELSE IF s.ts[((p[1] + p[2]) \div 2) + 1] <= t
                   THEN f[<<(p[1] + p[2]) \div 2, p[2]>>]
                   ELSE f[<<p[1], (p[1] + p[2]) \div 2>>]]
  <2>1. Narrows(s, t, g)
    BY NarrowsExists
  <2>2. g = F(g)
    <3>1. \A p \in Bounds(n) : g[p] = F(g)[p]
      <4> HIDE DEF g
      <4> QED BY <2>1 DEF Narrows, Bounds
    <3>2. g = [p \in Bounds(n) |-> g[p]] /\ F(g) = [p \in Bounds(n) |-> F(g)[p]]
      <4>1. g = [p \in Bounds(n) |-> g[p]]
        OBVIOUS
      <4> HIDE DEF g
      <4>2. F(g) = [p \in Bounds(n) |-> F(g)[p]]
        BY DEF Bounds
      <4> QED BY <4>1, <4>2
    <3> HIDE DEF g, F
    <3> QED BY <3>1, <3>2
  <2>3. narrow(t) = CHOOSE f : f = F(f)
    OBVIOUS
  <2> HIDE DEF g, narrow
  <2>4. narrow(t) = F(narrow(t))
    <3> HIDE DEF F
    <3> QED BY <2>2, <2>3
  <2>5. \A p \in Bounds(n) : narrow(t)[p] = F(narrow(t))[p]
    <3> HIDE DEF F
    <3> QED BY <2>4
  <2> DEFINE q == narrow(t)
  <2>6. \A p \in Bounds(n) : q[p] = F(q)[p]
    BY <2>5
  <2> HIDE DEF q
  <2> QED BY <2>6 DEF Narrows, Bounds, q
<1> HIDE DEF narrow
<1>5. ASSUME NEW j \in 1 .. m
      PROVE  Brackets(s, times[j], narrow(times[j])[<<0, n - 1>>] + 1)
  <2> DEFINE t == times[j]
             f == narrow(t)
             M == LastNotAfter(s, t, 0, n - 1)
  <2>1. t \in Int /\ 0 \in 0 .. n /\ n - 1 \in 0 .. n
    BY <1>1
  <2>2. Narrows(s, t, f)
    BY <1>4, <2>1
  <2>3. f[<<0, n - 1>>] = M
    <3> HIDE DEF f, t, M
    <3> QED BY <2>1, <2>2, NarrowsIs DEF M
  <2>4. /\ M \in 0 .. n /\ M >= 0
        /\ M = 0 \/ (M < n - 1 /\ s.ts[M + 1] <= t)
        /\ \A i \in 0 + 1 .. (n - 1) - 1 : s.ts[i + 1] <= t => i <= M
    <3> HIDE DEF t
    <3> QED BY <2>1, LastNotAfterIs
  <2> HIDE DEF f, M, t
  <2>5. ASSUME s.ts[1] < t, t < s.ts[n]
        PROVE  M + 1 \in 1 .. n - 1 /\ s.ts[M + 1] <= t /\ t <= s.ts[(M + 1) + 1]
    <3>1. 1 \in 1 .. n /\ n \in 1 .. n /\ s.ts[1] \in Int /\ s.ts[n] \in Int
      BY <1>1
    <3>2. n # 1 /\ n - 1 # 0
      BY <2>1, <2>5, <3>1
    <3>3. M < n - 1 /\ M + 1 \in 1 .. n - 1
      <4>1. M = 0 \/ M < n - 1
        BY <2>4
      <4>2. n \in Nat /\ M \in Nat /\ 1 <= n
        BY <1>1, <2>4, <3>1
      <4> HIDE DEF n
      <4> QED BY <3>2, <4>1, <4>2
    <3>4. s.ts[M + 1] <= t
      <4>1. M = 0 => s.ts[M + 1] = s.ts[1]
        OBVIOUS
      <4> QED BY <2>1, <2>4, <2>5, <3>1, <4>1
    <3>5. t <= s.ts[(M + 1) + 1]
      <4>1. CASE M + 1 = n - 1
        <5>1. (M + 1) + 1 = n
          BY <1>1, <4>1
        <5> QED BY <2>1, <2>5, <3>1, <5>1
      <4>2. CASE M + 1 # n - 1
        <5>1. M + 1 \in 0 + 1 .. (n - 1) - 1 /\ ~ (M + 1 <= M) /\ (M + 1) + 1 \in 1 .. n
          <6>1. n \in Nat /\ M \in Nat
            BY <1>1, <2>4
          <6> HIDE DEF n
          <6> QED BY <3>3, <4>2, <6>1
        <5>2. ~ (s.ts[(M + 1) + 1] <= t) /\ s.ts[(M + 1) + 1] \in Int
          BY <1>1, <2>4, <5>1
        <5> QED BY <2>1, <5>2
      <4> QED BY <4>1, <4>2
    <3> QED BY <3>3, <3>4, <3>5
  <2>6. Brackets(s, t, M + 1)
    BY <2>5 DEF Brackets
  <2> QED BY <2>3, <2>6 DEF f, t
<1>6. \A j \in 1 .. m :
        /\ Interpolated(s, times[j], narrow(times[j])[<<0, n - 1>>] + 1) = NeighboursAt(s, times[j])
        /\ NeighboursAt(s, times[j]) \in SUBSET Int
  BY <1>5, InterpolatedIs
<1>7. SearchEach(s, times) = [j \in 1 .. m |-> NeighboursAt(s, times[j])]
  BY <1>2, <1>3, <1>6
<1> QED BY <1>6, <1>7 DEF Deps

\* The window holds the samples at most window older, although its lower end
\* never looks back.
LEMMA WindowIs ==
  ASSUME NEW s, IsSignal(s), NEW window \in Nat, NEW i \in 1 .. Count(s)
  PROVE  Rolling(s, window).dep[i] =
           UNION {s.dep[k] : k \in {j \in 1 .. i : s.ts[i] - s.ts[j] <= window}}
<1> DEFINE n == Count(s)
<1>1. n \in Nat /\ n # 0 /\ DOMAIN s.ts = 1 .. n /\ s.ts \in [1 .. n -> Int]
  BY SignalIs
<1>2. PICK h : RollingLoop(s, window, h)
  BY <1>1, RollingLoopExists
<1>3. /\ h[0] = 1
      /\ \A k \in 1 .. n : h[k] = Min({j \in h[k - 1] .. k : s.ts[k] - s.ts[j] <= window})
      /\ \A k \in 0 .. n : h[k] \in {j \in Nat : 1 <= j /\ (j <= k \/ j = 1)}
      /\ Rolling(s, window) = Shaped(s, [k \in DOMAIN s.ts |-> UNION {s.dep[j] : j \in h[k] .. k}])
  BY <1>2 DEF RollingLoop
<1>4. Rolling(s, window).dep[i] = UNION {s.dep[k] : k \in h[i] .. i}
  BY <1>1, <1>3 DEF Shaped, makeDoubleSignal
<1> DEFINE S == {k \in 0 .. n : k # 0 => \A j \in 1 .. h[k] - 1 : ~ (s.ts[k] - s.ts[j] <= window)}
<1>5. 0 \in S
  BY <1>1
<1> HIDE DEF n
<1>6. ASSUME NEW k \in 1 .. n, k - 1 \in S PROVE k \in S
  <2> DEFINE W == {j \in h[k - 1] .. k : s.ts[k] - s.ts[j] <= window}
  <2>1. /\ k \in 0 .. n /\ k - 1 \in 0 .. n /\ k \in Nat /\ k # 0
        /\ h[k - 1] \in Nat /\ 1 <= h[k - 1] /\ (h[k - 1] <= k - 1 \/ h[k - 1] = 1)
    BY <1>1, <1>3
  <2>2. h[k - 1] <= k
    BY <2>1
  <2>3. s.ts[k] \in Int
    BY <1>1
  <2>4. k \in W /\ W \subseteq Nat
    BY <2>1, <2>2, <2>3
  <2>5. h[k] = Min(W)
    BY <1>3
  <2>6. h[k] \in W /\ \A y \in W : h[k] <= y
    <3> HIDE DEF W
    <3> QED BY <2>4, <2>5, MinIs
  <2>7. ASSUME NEW j \in 1 .. h[k] - 1 PROVE ~ (s.ts[k] - s.ts[j] <= window)
    <3>1. h[k] \in Nat /\ h[k] <= k /\ j < h[k] /\ j \in 1 .. n /\ j < k
      <4>1. h[k] \in h[k - 1] .. k
        BY <2>6
      <4> HIDE DEF W
      <4>2. h[k] \in Nat /\ h[k] <= k
        BY <2>1, <4>1
      <4>3. n \in Nat /\ k <= n /\ k \in Nat
        BY <1>1
      <4> QED BY <4>2, <4>3
    <3>2. CASE j >= h[k - 1]
      <4>1. j \in h[k - 1] .. k /\ ~ (h[k] <= j)
        BY <2>1, <3>1, <3>2
      <4> QED BY <2>6, <4>1
    <3>3. CASE ~ (j >= h[k - 1])
      <4>1. j \in 1 .. h[k - 1] - 1 /\ k - 1 # 0
        BY <1>3, <2>1, <3>1, <3>3
      <4>2. ~ (s.ts[k - 1] - s.ts[j] <= window)
        BY <1>6, <4>1
      <4>3. k - 1 \in 1 .. n /\ k - 1 < k
        BY <2>1, <4>1
      <4>4. s.ts[k - 1] < s.ts[k] /\ s.ts[k - 1] \in Int /\ s.ts[j] \in Int
        BY <1>1, <3>1, <4>3, SignalLater DEF n
      <4> QED BY <2>3, <4>2, <4>4
    <3> QED BY <3>2, <3>3
  <2> QED BY <2>1, <2>7
<1>7. i \in S /\ i # 0 /\ i \in 1 .. n
  <2>1. 0 .. n \subseteq S
    <3> HIDE DEF S
    <3> QED BY <1>1, <1>5, <1>6, UpTo
  <2>2. i \in 0 .. n /\ i # 0 /\ i \in 1 .. n
    BY <1>1 DEF n
  <2> QED BY <2>1, <2>2
<1> DEFINE W == {j \in h[i - 1] .. i : s.ts[i] - s.ts[j] <= window}
<1>8. h[i] \in W /\ h[i] \in Nat /\ h[i] <= i /\ 1 <= h[i] /\ i \in Nat
  <2>1. /\ i \in 0 .. n /\ i - 1 \in 0 .. n /\ i \in Nat
        /\ h[i - 1] \in Nat /\ 1 <= h[i - 1] /\ (h[i - 1] <= i - 1 \/ h[i - 1] = 1)
    BY <1>1, <1>3, <1>7
  <2>2. h[i - 1] <= i
    BY <1>7, <2>1
  <2>3. i \in W /\ W \subseteq Nat
    BY <1>1, <1>7, <2>1, <2>2
  <2>4. h[i] = Min(W)
    BY <1>3, <1>7
  <2>5. h[i] \in W
    <3> HIDE DEF W
    <3> QED BY <2>3, <2>4, MinIs
  <2> QED BY <2>1, <2>5
<1>9. {j \in 1 .. i : s.ts[i] - s.ts[j] <= window} = h[i] .. i
  <2>1. ASSUME NEW j \in h[i] .. i PROVE j \in 1 .. i /\ s.ts[i] - s.ts[j] <= window
    <3>1. j \in 1 .. n /\ h[i] \in 1 .. n /\ h[i] <= j /\ j \in 1 .. i
      BY <1>1, <1>7, <1>8
    <3>2. s.ts[h[i]] <= s.ts[j] /\ s.ts[h[i]] \in Int /\ s.ts[j] \in Int /\ s.ts[i] \in Int
      BY <1>1, <1>7, <3>1, SignalLater DEF n
    <3>3. s.ts[i] - s.ts[h[i]] <= window
      BY <1>8
    <3> QED BY <3>1, <3>2, <3>3
  <2>2. ASSUME NEW j \in 1 .. i, s.ts[i] - s.ts[j] <= window PROVE j \in h[i] .. i
    <3>1. ~ (j < h[i])
      <4>1. j < h[i] => j \in 1 .. h[i] - 1
        BY <1>8
      <4> QED BY <1>7, <2>2, <4>1
    <3> QED BY <1>8, <3>1
  <2> QED BY <2>1, <2>2
<1> QED BY <1>4, <1>9

-----------------------------------------------------------------------------
(* Operators of two signals                                                 *)

\* elementwiseBinary, given the interpolated values of the coarser signal.
Paired(a, b, aConst, bConst, there) ==
  LET domain == IF aConst THEN b.domain ELSE IF bConst THEN a.domain
                ELSE IF "Frequency" \in {a.domain, b.domain} THEN "Frequency" ELSE "Time"
      start == IF aConst THEN b.start ELSE IF bConst THEN a.start
               ELSE IF a.start # kNoSourceStart THEN a.start ELSE b.start
      made(ts, dep) == [makeDoubleSignal(ts, dep, domain, start) EXCEPT !.sym = FALSE]
      inRange(s) == {i \in DOMAIN s.ts : Overlap(a, b).lo <= s.ts[i] /\ s.ts[i] <= Overlap(a, b).hi}
      grid == IF Cardinality(inRange(a)) >= Cardinality(inRange(b)) THEN a ELSE b
      here == Kept(grid, inRange(grid))
  IN  IF aConst THEN made(b.ts, [i \in DOMAIN b.ts |-> b.dep[i] \cup a.dep[1]])
      ELSE IF bConst THEN made(a.ts, [i \in DOMAIN a.ts |-> a.dep[i] \cup b.dep[1]])
      ELSE IF a.ts = b.ts THEN made(a.ts, [i \in DOMAIN a.ts |-> a.dep[i] \cup b.dep[i]])
      ELSE made(here.ts, [i \in DOMAIN here.ts |-> here.dep[i] \cup there[i]])

\* The finer and the coarser signal on the overlap.
InOverlap(a, b, s) == {i \in DOMAIN s.ts : Overlap(a, b).lo <= s.ts[i] /\ s.ts[i] <= Overlap(a, b).hi}
FinerFirst(a, b) == Cardinality(InOverlap(a, b, a)) >= Cardinality(InOverlap(a, b, b))
Finer(a, b) == IF FinerFirst(a, b) THEN a ELSE b
Coarser(a, b) == IF FinerFirst(a, b) THEN b ELSE a
Shared(a, b) == Kept(Finer(a, b), InOverlap(a, b, Finer(a, b)))

LEMMA OperatorsArePaired ==
  ASSUME NEW a, NEW b
  PROVE  /\ OperatorResult(a, b) =
              Paired(a, b, isConstant(a), isConstant(b), CursorWalk(Coarser(a, b), Shared(a, b).ts))
         /\ PairResult(a, b) =
              Paired(a, b, OneSampleAtZero(a), OneSampleAtZero(b),
                     SearchEach(Coarser(a, b), Shared(a, b).ts))
  BY DEF OperatorResult, PairResult, elementwiseBinary, Paired, Coarser, Finer, FinerFirst,
         Shared, InOverlap

\* Which operand the domain and the origin of a result come from, and its grid.
PairedFrom(a, b, aConst, bConst, r) ==
  /\ r.domain \in {a.domain, b.domain}
  /\ aConst => /\ r.ts = b.ts /\ r.domain = b.domain /\ r.start = b.start
               /\ \A i \in 1 .. Count(b) : r.dep[i] = b.dep[i] \cup a.dep[1]
  /\ (~aConst /\ bConst) =>
        /\ r.ts = a.ts /\ r.domain = a.domain /\ r.start = a.start
        /\ \A i \in 1 .. Count(a) : r.dep[i] = a.dep[i] \cup b.dep[1]
  /\ (~aConst /\ ~bConst) =>
        /\ r.start = IF a.start # kNoSourceStart THEN a.start ELSE b.start
        /\ a.ts = b.ts =>
             r.ts = a.ts /\ \A i \in 1 .. Count(a) : r.dep[i] = a.dep[i] \cup b.dep[i]

LEMMA MadeUnnamed ==
  ASSUME NEW n \in Nat, NEW ts \in Times(n), NEW dep \in Deps(n),
         NEW domain \in Domains, NEW start \in Int
  PROVE  LET r == [makeDoubleSignal(ts, dep, domain, start) EXCEPT !.sym = FALSE]
         IN  /\ IsSignal(r) /\ Count(r) = n
             /\ r.ts = ts /\ r.dep = dep /\ r.domain = domain /\ r.start = start
<1> DEFINE m == makeDoubleSignal(ts, dep, domain, start)
           r == [m EXCEPT !.sym = FALSE]
<1>1. /\ IsSignal(m) /\ Count(m) = n
      /\ m.ts = ts /\ m.dep = dep /\ m.domain = domain /\ m.start = start
  BY Made
<1> HIDE DEF m
<1>2. r \in Signals /\ r.ts = m.ts /\ r.dep = m.dep /\ r.domain = m.domain /\ r.start = m.start
  BY <1>1 DEF IsSignal, Signals
<1> HIDE DEF r
<1>3. IsSignal(r) /\ Count(r) = n
  BY <1>1, <1>2 DEF IsSignal, Count
<1> QED BY <1>1, <1>2, <1>3 DEF r, m

LEMMA SharedIs ==
  ASSUME NEW a, NEW b, IsSignal(a), IsSignal(b), a.ts # <<>>, b.ts # <<>>
  PROVE  /\ IsSignal(Coarser(a, b)) /\ Count(Coarser(a, b)) # 0
         /\ \E m \in Nat : /\ Shared(a, b).ts \in Times(m) /\ Shared(a, b).dep \in Deps(m)
                           /\ Len(Shared(a, b).ts) = m
<1>1. IsSignal(Finer(a, b)) /\ IsSignal(Coarser(a, b))
  BY DEF Finer, Coarser
<1>2. Count(Coarser(a, b)) # 0
  <2>1. Coarser(a, b).ts # <<>>
    BY DEF Coarser
  <2> QED BY <1>1, <2>1, SignalIs
<1> DEFINE idx == InOverlap(a, b, Finer(a, b))
           at == InOrder(Count(Finer(a, b)), idx)
<1>3. Selects(Finer(a, b), idx, Kept(Finer(a, b), idx), at)
  BY <1>1, KeptIs
<1> HIDE DEF idx, at
<1>4. /\ Kept(Finer(a, b), idx).ts \in Times(Len(at)) /\ Kept(Finer(a, b), idx).dep \in Deps(Len(at))
      /\ Len(Kept(Finer(a, b), idx).ts) = Len(at) /\ Len(at) \in Nat
  BY <1>3 DEF Selects, Lists
<1>5. Shared(a, b) = Kept(Finer(a, b), idx)
  BY DEF Shared, idx
<1> QED BY <1>1, <1>2, <1>4, <1>5

LEMMA PairedIs ==
  ASSUME NEW a, NEW b, IsSignal(a), IsSignal(b), NEW aConst \in BOOLEAN, NEW bConst \in BOOLEAN,
         aConst => Count(a) = 1, bConst => Count(b) = 1,
         NEW there, (~aConst /\ ~bConst /\ a.ts # b.ts) =>
           \E m \in Nat : /\ Shared(a, b).ts \in Times(m) /\ Shared(a, b).dep \in Deps(m)
                          /\ Len(Shared(a, b).ts) = m /\ there \in Deps(m)
  PROVE  LET r == Paired(a, b, aConst, bConst, there)
         IN  IsSignal(r) /\ PairedFrom(a, b, aConst, bConst, r)
<1> DEFINE r == Paired(a, b, aConst, bConst, there)
           domain == IF "Frequency" \in {a.domain, b.domain} THEN "Frequency" ELSE "Time"
           start == IF a.start # kNoSourceStart THEN a.start ELSE b.start
<1>1. /\ Count(a) \in Nat /\ a.ts \in Times(Count(a)) /\ a.dep \in Deps(Count(a))
      /\ a.domain \in Domains /\ a.start \in Int /\ DOMAIN a.ts = 1 .. Count(a)
  BY SignalHas, SignalIs
<1>2. /\ Count(b) \in Nat /\ b.ts \in Times(Count(b)) /\ b.dep \in Deps(Count(b))
      /\ b.domain \in Domains /\ b.start \in Int /\ DOMAIN b.ts = 1 .. Count(b)
  BY SignalHas, SignalIs
<1>3. domain \in {a.domain, b.domain} /\ domain \in Domains /\ start \in Int
  BY <1>1, <1>2 DEF Domains
<1>4. CASE aConst
  <2> DEFINE dep == [i \in DOMAIN b.ts |-> b.dep[i] \cup a.dep[1]]
  <2>1. dep \in Deps(Count(b))
    <3>1. 1 \in 1 .. Count(a)
      BY <1>4
    <3>2. a.dep[1] \in SUBSET Int
      BY <1>1, <3>1 DEF Deps
    <3> QED BY <1>2, <3>2 DEF Deps
  <2>2. r = [makeDoubleSignal(b.ts, dep, b.domain, b.start) EXCEPT !.sym = FALSE]
    BY <1>4 DEF Paired
  <2>3. \A i \in 1 .. Count(b) : dep[i] = b.dep[i] \cup a.dep[1]
    BY <1>2
  <2> HIDE DEF dep, r
  <2>4. /\ IsSignal(r) /\ r.ts = b.ts /\ r.dep = dep /\ r.domain = b.domain /\ r.start = b.start
    BY <1>2, <2>1, <2>2, MadeUnnamed
  <2> QED BY <1>4, <2>3, <2>4 DEF PairedFrom, r
<1>5. CASE ~aConst /\ bConst
  <2> DEFINE dep == [i \in DOMAIN a.ts |-> a.dep[i] \cup b.dep[1]]
  <2>1. dep \in Deps(Count(a))
    <3>1. 1 \in 1 .. Count(b)
      BY <1>5
    <3>2. b.dep[1] \in SUBSET Int
      BY <1>2, <3>1 DEF Deps
    <3> QED BY <1>1, <3>2 DEF Deps
  <2>2. r = [makeDoubleSignal(a.ts, dep, a.domain, a.start) EXCEPT !.sym = FALSE]
    BY <1>5 DEF Paired
  <2>3. \A i \in 1 .. Count(a) : dep[i] = a.dep[i] \cup b.dep[1]
    BY <1>1
  <2> HIDE DEF dep, r
  <2>4. /\ IsSignal(r) /\ r.ts = a.ts /\ r.dep = dep /\ r.domain = a.domain /\ r.start = a.start
    BY <1>1, <2>1, <2>2, MadeUnnamed
  <2> QED BY <1>5, <2>3, <2>4 DEF PairedFrom, r
<1>6. CASE ~aConst /\ ~bConst /\ a.ts = b.ts
  <2> DEFINE dep == [i \in DOMAIN a.ts |-> a.dep[i] \cup b.dep[i]]
  <2>1. dep \in Deps(Count(a))
    <3>1. Count(a) = Count(b)
      BY <1>6 DEF Count
    <3> QED BY <1>1, <1>2, <3>1 DEF Deps
  <2>2. r = [makeDoubleSignal(a.ts, dep, domain, start) EXCEPT !.sym = FALSE]
    BY <1>6 DEF Paired
  <2>3. \A i \in 1 .. Count(a) : dep[i] = a.dep[i] \cup b.dep[i]
    BY <1>1
  <2> HIDE DEF dep, r, domain
  <2>4. /\ IsSignal(r) /\ r.ts = a.ts /\ r.dep = dep /\ r.domain = domain /\ r.start = start
    <3> HIDE DEF start
    <3> QED BY <1>1, <1>3, <2>1, <2>2, MadeUnnamed
  <2> QED BY <1>3, <1>6, <2>3, <2>4 DEF PairedFrom, r
<1>7. CASE ~aConst /\ ~bConst /\ a.ts # b.ts
  <2> DEFINE here == Shared(a, b)
             dep == [i \in DOMAIN here.ts |-> here.dep[i] \cup there[i]]
  <2>1. PICK m \in Nat : /\ here.ts \in Times(m) /\ here.dep \in Deps(m)
                         /\ Len(here.ts) = m /\ there \in Deps(m)
    BY <1>7
  <2>2. r = [makeDoubleSignal(here.ts, dep, domain, start) EXCEPT !.sym = FALSE]
    BY <1>7 DEF Paired, Shared, Finer, FinerFirst, InOverlap
  <2> HIDE DEF here
  <2>3. dep \in Deps(m)
    <3>1. DOMAIN here.ts = 1 .. m
      BY <2>1 DEF Times
    <3> QED BY <2>1, <3>1 DEF Deps
  <2> HIDE DEF dep, r, domain
  <2>4. IsSignal(r) /\ r.domain = domain /\ r.start = start
    <3> HIDE DEF start
    <3> QED BY <1>3, <2>1, <2>2, <2>3, MadeUnnamed
  <2> QED BY <1>3, <1>7, <2>4 DEF PairedFrom, r
<1> QED BY <1>4, <1>5, <1>6, <1>7

LEMMA OperatorResultIs ==
  ASSUME NEW a, NEW b, IsSignal(a), IsSignal(b), BinaryAccepts(a, b, isConstant(a), isConstant(b))
  PROVE  LET r == OperatorResult(a, b)
         IN  IsSignal(r) /\ PairedFrom(a, b, isConstant(a), isConstant(b), r)
<1> DEFINE there == CursorWalk(Coarser(a, b), Shared(a, b).ts)
           aConst == isConstant(a)
           bConst == isConstant(b)
<1>1. /\ aConst \in BOOLEAN /\ bConst \in BOOLEAN
      /\ aConst => Count(a) = 1
      /\ bConst => Count(b) = 1
  BY SignalIs DEF isConstant, OneSampleAtZero
<1>2. ASSUME ~aConst, ~bConst
      PROVE  \E m \in Nat : /\ Shared(a, b).ts \in Times(m) /\ Shared(a, b).dep \in Deps(m)
                            /\ Len(Shared(a, b).ts) = m /\ there \in Deps(m)
  <2>1. a.ts # <<>> /\ b.ts # <<>>
    BY <1>2 DEF BinaryAccepts
  <2>2. IsSignal(Coarser(a, b)) /\ Count(Coarser(a, b)) # 0
    BY <2>1, SharedIs
  <2>3. PICK m \in Nat : /\ Shared(a, b).ts \in Times(m) /\ Shared(a, b).dep \in Deps(m)
                         /\ Len(Shared(a, b).ts) = m
    BY <2>1, SharedIs
  <2>4. there \in Deps(m)
    BY <2>2, <2>3, CursorWalkIs
  <2> QED BY <2>3, <2>4
<1>3. OperatorResult(a, b) = Paired(a, b, aConst, bConst, there)
  BY OperatorsArePaired
<1> HIDE DEF aConst, bConst, there
<1>4. LET r == Paired(a, b, aConst, bConst, there) IN IsSignal(r) /\ PairedFrom(a, b, aConst, bConst, r)
  BY <1>1, <1>2, PairedIs
<1> QED BY <1>3, <1>4 DEF aConst, bConst

LEMMA PairResultIs ==
  ASSUME NEW a, NEW b, IsSignal(a), IsSignal(b),
         BinaryAccepts(a, b, OneSampleAtZero(a), OneSampleAtZero(b))
  PROVE  LET r == PairResult(a, b)
         IN  IsSignal(r) /\ PairedFrom(a, b, OneSampleAtZero(a), OneSampleAtZero(b), r)
<1> DEFINE there == SearchEach(Coarser(a, b), Shared(a, b).ts)
           aConst == OneSampleAtZero(a)
           bConst == OneSampleAtZero(b)
<1>1. /\ aConst \in BOOLEAN /\ bConst \in BOOLEAN
      /\ aConst => Count(a) = 1
      /\ bConst => Count(b) = 1
  BY DEF OneSampleAtZero
<1>2. ASSUME ~aConst, ~bConst
      PROVE  \E m \in Nat : /\ Shared(a, b).ts \in Times(m) /\ Shared(a, b).dep \in Deps(m)
                            /\ Len(Shared(a, b).ts) = m /\ there \in Deps(m)
  <2>1. a.ts # <<>> /\ b.ts # <<>>
    BY <1>2 DEF BinaryAccepts
  <2>2. IsSignal(Coarser(a, b)) /\ Count(Coarser(a, b)) # 0
    BY <2>1, SharedIs
  <2>3. PICK m \in Nat : /\ Shared(a, b).ts \in Times(m) /\ Shared(a, b).dep \in Deps(m)
                         /\ Len(Shared(a, b).ts) = m
    BY <2>1, SharedIs
  <2>4. there \in Deps(m)
    <3>1. Shared(a, b).ts \in [1 .. m -> Int]
      BY <2>3 DEF Times
    <3> QED BY <2>2, <3>1, SearchEachIs
  <2> QED BY <2>3, <2>4
<1>3. PairResult(a, b) = Paired(a, b, aConst, bConst, there)
  BY OperatorsArePaired
<1> HIDE DEF aConst, bConst, there
<1>4. LET r == Paired(a, b, aConst, bConst, there) IN IsSignal(r) /\ PairedFrom(a, b, aConst, bConst, r)
  BY <1>1, <1>2, PairedIs
<1> QED BY <1>3, <1>4 DEF aConst, bConst

-----------------------------------------------------------------------------
(* The steps                                                                *)

\* What IInv says of the signal made so far.
LEMMA CurIs ==
  ASSUME IInv
  PROVE  /\ IsSignal(cur) /\ lost \subseteq Guarantees /\ calls \in Nat
         /\ lost \cap {"axis", "causal"} = {} => Causal(cur)
         /\ "axis" \notin lost => cur.domain = "Time"
         /\ (cur.domain = "Frequency" /\ "bins" \notin lost /\ Count(cur) >= 2) => IsSpectrum(cur)
         /\ (lost \cap {"axis", "origin"} = {} /\ cur.ts # <<>>) =>
              src.ts # <<>> /\ displayOriginNs(cur) = src.ts[1] /\ displayOriginNs(cur) # kNoSourceStart
<1>1. PICK ts \in Sources : src = Recorded(ts)
  BY DEF IInv
<1>2. src.ts = ts /\ ts \in Seq(Int) /\ \A i \in 1 .. Len(ts) : kNoSourceStart < ts[i]
  BY <1>1, FunctionsAssumption DEF Recorded
<1>3. src.ts # <<>> => 1 \in 1 .. Len(ts) /\ ts[1] \in Int
  BY <1>2, EmptySeq, LenProperties
<1>4. src.ts # <<>> => src.ts[1] # kNoSourceStart
  BY <1>2, <1>3, FunctionsAssumption
<1> QED BY <1>4 DEF IInv, SliceSelectsWhatIsShown

\* What a function must do to its argument for the guarantees it gives.
Respects(r, gives) ==
  /\ IsSignal(r) /\ gives \subseteq Guarantees
  /\ gives \cap {"axis", "causal"} = {} => (Causal(cur) => Causal(r))
  /\ "axis" \notin gives => (cur.domain = "Time" => r.domain = "Time")
  /\ (gives \cap {"axis", "origin"} = {} /\ cur.domain = "Time" /\ r.ts # <<>>) =>
       /\ cur.ts # <<>>
       /\ displayOriginNs(cur) # kNoSourceStart => displayOriginNs(r) = displayOriginNs(cur)
  /\ ("bins" \notin gives /\ r.domain = "Frequency" /\ Count(r) >= 2) =>
       IsSpectrum(r) \/ (cur.domain = "Frequency" /\ Count(r) = Count(cur))

\* Such a function keeps all of the invariant but what the windows select.
LEMMA RespectsStep ==
  ASSUME IInv, NEW r, NEW gives, Respects(r, gives), Applied(r, gives),
         lost' \cap {"axis", "origin", "grid"} = {} =>
           ToSet(cur.ts)' = {t \in ToSet(src.ts) : \A w \in win' :
                               w[1] <= t - src.ts[1] /\ t - src.ts[1] <= w[2]}
  PROVE  IInv'
<1>1. cur' = r /\ lost' = lost \cup gives /\ src' = src /\ calls' = calls + 1
  BY DEF Applied
<1>2. (\E ts \in Sources : src = Recorded(ts))'
  BY <1>1 DEF IInv
<1>3. (IsSignal(cur) /\ calls \in Nat /\ lost \subseteq Guarantees)'
  BY <1>1, CurIs DEF Respects
<1>4. (lost \cap {"axis", "causal"} = {} => Causal(cur))'
  <2>1. lost' \cap {"axis", "causal"} = {} =>
          lost \cap {"axis", "causal"} = {} /\ gives \cap {"axis", "causal"} = {}
    BY <1>1
  <2> QED BY <1>1, <2>1, CurIs DEF Respects
<1>5. ("axis" \notin lost => cur.domain = "Time")'
  BY <1>1, CurIs DEF Respects
<1>6. (cur.domain = "Frequency" /\ "bins" \notin lost /\ Count(cur) >= 2 => IsSpectrum(cur))'
  <2> SUFFICES ASSUME r.domain = "Frequency", "bins" \notin lost', Count(r) >= 2
               PROVE  IsSpectrum(r)
    BY <1>1
  <2>1. CASE cur.domain = "Frequency" /\ Count(r) = Count(cur)
    <3>1. IsSpectrum(cur)
      BY <1>1, <2>1, CurIs
    <3> QED BY <2>1, <3>1 DEF IsSpectrum
  <2> QED BY <1>1, <2>1 DEF Respects
<1>7. (lost \cap {"axis", "origin"} = {} /\ cur.ts # <<>> =>
         src.ts # <<>> /\ displayOriginNs(cur) = src.ts[1])'
  <2> SUFFICES ASSUME lost' \cap {"axis", "origin"} = {}, r.ts # <<>>
               PROVE  src.ts # <<>> /\ displayOriginNs(r) = src.ts[1]
    BY <1>1
  <2>1. lost \cap {"axis", "origin"} = {} /\ gives \cap {"axis", "origin"} = {} /\ "axis" \notin lost
    BY <1>1
  <2>2. cur.domain = "Time"
    BY <2>1, CurIs
  <2>3. cur.ts # <<>> /\ displayOriginNs(r) = displayOriginNs(cur)
    BY <2>1, <2>2, CurIs DEF Respects
  <2> QED BY <2>1, <2>3, CurIs
<1>8. SliceSelectsWhatIsShown'
  BY <1>1, <1>7 DEF SliceSelectsWhatIsShown
<1> QED BY <1>2, <1>3, <1>4, <1>5, <1>6, <1>7, <1>8 DEF IInv

\* ... and what the windows select too, when it keeps the timestamps.
LEMMA GridStep ==
  ASSUME IInv, NEW r, NEW gives, Respects(r, gives), Call(r, gives),
         gives \cap {"axis", "origin", "grid"} = {} => r.ts = cur.ts
  PROVE  IInv'
<1>1. cur' = r /\ lost' = lost \cup gives /\ src' = src /\ win' = win /\ Applied(r, gives)
  BY DEF Applied, Call
<1>2. ASSUME lost' \cap {"axis", "origin", "grid"} = {}
      PROVE  ToSet(cur.ts)' = {t \in ToSet(src.ts) : \A w \in win' :
                               w[1] <= t - src.ts[1] /\ t - src.ts[1] <= w[2]}
  <2>1. lost \cap {"axis", "origin", "grid"} = {} /\ r.ts = cur.ts
    BY <1>1, <1>2
  <2> QED BY <1>1, <2>1 DEF IInv, SliceSelectsWhatIsShown
<1> QED BY <1>1, <1>2, RespectsStep

\* A function that keeps the grid, and looks back only or says otherwise.
LEMMA OnGridStep ==
  ASSUME IInv, NEW r, OnGrid(cur, r), NEW gives, Call(r, gives), gives \subseteq {"causal"},
         "causal" \in gives \/ LooksBack(cur, r)
  PROVE  IInv'
<1>1. /\ IsSignal(r) /\ IsSignal(cur) /\ r.ts = cur.ts /\ Count(r) = Count(cur)
      /\ r.domain = cur.domain \/ (r.domain = "Time" /\ cur.ts = <<>>)
      /\ cur.ts # <<>> => displayOriginNs(r) = displayOriginNs(cur)
  BY CurIs DEF OnGrid, Count
<1>2. gives \cap {"axis", "causal"} = {} => (Causal(cur) => Causal(r))
  BY <1>1, LooksBackIsCausal
<1>3. gives \subseteq Guarantees
  BY DEF Guarantees
<1>4. (r.domain = "Frequency" /\ Count(r) >= 2) => cur.domain = "Frequency" /\ Count(r) = Count(cur)
  BY <1>1
<1>5. Respects(r, gives)
  BY <1>1, <1>2, <1>3, <1>4 DEF Respects
<1> QED BY <1>1, <1>5, GridStep

LEMMA ElementwiseStep ==
  ASSUME IInv, Elementwise
  PROVE  IInv'
<1> DEFINE r == Shaped(cur, cur.dep)
<1>1. IsSignal(cur) /\ cur.dep \in Deps(Count(cur)) /\ Count(cur) \in Nat
  BY CurIs, SignalHas
<1>2. OnGrid(cur, r) /\ r.dep = cur.dep
  BY <1>1, ShapedIs
<1>3. Call(r, {})
  BY DEF Elementwise
<1> HIDE DEF r
<1>4. LooksBack(cur, r)
  BY <1>1, <1>2 DEF LooksBack
<1> QED BY <1>2, <1>3, <1>4, OnGridStep

LEMMA ApplyFilterStep ==
  ASSUME IInv, ApplyFilter
  PROVE  IInv'
<1>1. IsSignal(cur)
  BY CurIs
<1>2. OnGrid(cur, LowPass(cur)) /\ LooksBack(cur, LowPass(cur))
  BY <1>1, LowPassIs
<1>3. OnGrid(cur, FromRest(cur)) /\ LooksBack(cur, FromRest(cur))
  BY <1>1, FromRestIs
<1>4. Call(LowPass(cur), {}) \/ Call(FromRest(cur), {})
  BY DEF ApplyFilter, PT
<1> QED BY <1>2, <1>3, <1>4, OnGridStep

LEMMA IntegrateStep ==
  ASSUME IInv, Integrate
  PROVE  IInv'
<1>1. IsSignal(cur)
  BY CurIs
<1>2. OnGrid(cur, FromRest(cur)) /\ LooksBack(cur, FromRest(cur))
  BY <1>1, FromRestIs
<1>3. Call(FromRest(cur), {})
  BY DEF Integrate
<1> QED BY <1>2, <1>3, OnGridStep

LEMMA DifferentiateStep ==
  ASSUME IInv, Differentiate
  PROVE  IInv'
<1>1. OnGrid(cur, Derivative(cur))
  BY CurIs, DerivativeIs
<1>2. Call(Derivative(cur), {"causal"})
  BY DEF Differentiate
<1> QED BY <1>1, <1>2, OnGridStep

LEMMA RollingWindowStep ==
  ASSUME IInv, RollingWindow
  PROVE  IInv'
<1>1. PICK w \in Scalars : w > 0 /\ Call(Rolling(cur, w), {})
  BY DEF RollingWindow
<1>2. w \in Nat /\ IsSignal(cur)
  BY <1>1, CurIs, FunctionsAssumption
<1>3. OnGrid(cur, Rolling(cur, w)) /\ LooksBack(cur, Rolling(cur, w))
  BY <1>2, RollingIs
<1> QED BY <1>1, <1>3, OnGridStep

LEMMA ZeroPhaseStep ==
  ASSUME IInv, ZeroPhase
  PROVE  IInv'
<1>1. IsSignal(cur)
  BY CurIs
<1>2. CASE Call(filtfilt(LowPass, cur), {"causal"})
  <2>1. OnGrid(cur, filtfilt(LowPass, cur))
    BY <1>1, FiltFiltIs
  <2> QED BY <1>2, <2>1, OnGridStep
<1>3. ASSUME NEW w \in Scalars, w > 0,
             Call(filtfilt(LAMBDA s : Rolling(s, w), cur), {"causal"})
      PROVE  IInv'
  <2>1. w \in Nat
    BY <1>3, FunctionsAssumption
  <2>2. OnGrid(cur, filtfilt(LAMBDA s : Rolling(s, w), cur))
    BY <1>1, <2>1, FiltFiltIs
  <2> QED BY <1>3, <2>2, OnGridStep
<1> QED BY <1>2, <1>3 DEF ZeroPhase

LEMMA FillForwardStep ==
  ASSUME IInv, FillForward
  PROVE  IInv'
<1>1. PICK E \in Events : Call(ForwardFill(cur, At(E)), {})
  BY DEF FillForward
<1>2. OnGrid(cur, ForwardFill(cur, At(E))) /\ LooksBack(cur, ForwardFill(cur, At(E)))
  BY CurIs, ForwardFillIs
<1> QED BY <1>1, <1>2, OnGridStep

LEMMA MaskBandStep ==
  ASSUME IInv, MaskBand
  PROVE  IInv'
<1>1. PICK lo, hi \in Scalars : \E keep \in BOOLEAN : Call(BandMask(cur, lo, hi, keep), {})
  BY DEF MaskBand
<1>2. PICK keep \in BOOLEAN : Call(BandMask(cur, lo, hi, keep), {})
  BY <1>1
<1>3. OnGrid(cur, BandMask(cur, lo, hi, keep)) /\ LooksBack(cur, BandMask(cur, lo, hi, keep))
  BY CurIs, BandMaskIs
<1> QED BY <1>2, <1>3, OnGridStep

LEMMA ReverseInTimeStep ==
  ASSUME IInv, ReverseInTime
  PROVE  IInv'
<1> DEFINE r == ReverseSignal(cur)
<1>1. IsSignal(r) /\ Count(r) = Count(cur) /\ r.domain = cur.domain
  BY CurIs, ReverseIs
<1>2. Call(r, {"axis", "causal"})
  BY DEF ReverseInTime
<1> HIDE DEF r
<1>3. Respects(r, {"axis", "causal"})
  BY <1>1 DEF Respects, Guarantees
<1> QED BY <1>2, <1>3, GridStep

LEMMA ShiftStep ==
  ASSUME IInv, Shift
  PROVE  IInv'
<1> DEFINE r(off) == makeDoubleSignal([i \in DOMAIN cur.ts |-> cur.ts[i] + off], cur.dep,
                                      cur.domain, cur.start)
<1>1. PICK off \in Scalars : Call(r(off), {"axis"})
  BY DEF Shift
<1>2. off \in Int
  BY FunctionsAssumption
<1>3. IsSignal(r(off)) /\ Count(r(off)) = Count(cur) /\ r(off).domain = cur.domain
  BY <1>2, CurIs, ShiftIs
<1> HIDE DEF r
<1>4. Respects(r(off), {"axis"})
  BY <1>3 DEF Respects, Guarantees
<1> QED BY <1>1, <1>4, GridStep

LEMMA RepeatSignalStep ==
  ASSUME IInv, RepeatSignal
  PROVE  IInv'
<1>1. PICK n \in Scalars : RepeatAccepts(cur, n) /\ Call(Repeat(cur, n), {"axis", "causal"})
  BY DEF RepeatSignal
<1> DEFINE r == Repeat(cur, n)
<1>2. IsSignal(r) /\ r.domain = cur.domain
  BY <1>1, CurIs, RepeatIs, FunctionsAssumption
<1>3. cur.domain # "Frequency"
  BY <1>1 DEF RepeatAccepts
<1>4. Call(r, {"axis", "causal"})
  BY <1>1
<1> HIDE DEF r
<1>5. Respects(r, {"axis", "causal"})
  BY <1>2, <1>3 DEF Respects, Guarantees
<1> QED BY <1>4, <1>5, GridStep

LEMMA SliceWindowStep ==
  ASSUME IInv, SliceWindow
  PROVE  IInv'
<1>1. PICK a, b \in Scalars :
        /\ Applied(Slice(cur, a, b), IF cur.domain = "Time" THEN {} ELSE {"bins"})
        /\ win' = win \cup {<<Smaller(a, b), Larger(a, b)>>}
  BY DEF SliceWindow
<1> DEFINE r == Slice(cur, a, b)
           gives == IF cur.domain = "Time" THEN {} ELSE {"bins"}
           w == <<Smaller(a, b), Larger(a, b)>>
           shown(t) == Smaller(a, b) <= t - displayOriginNs(cur) /\ t - displayOriginNs(cur) <= Larger(a, b)
<1>2. a \in Int /\ b \in Int
  BY FunctionsAssumption
<1>3. /\ IsSignal(r) /\ r.domain = cur.domain /\ r.start = CarriedOrigin(cur)
      /\ Causal(cur) => Causal(r)
      /\ cur.domain = "Time" => ToSet(r.ts) = {t \in ToSet(cur.ts) : shown(t)}
  BY <1>2, CurIs, SliceIs
<1>4. Applied(r, gives) /\ win' = win \cup {w} /\ w[1] = Smaller(a, b) /\ w[2] = Larger(a, b)
  BY <1>1
<1> HIDE DEF r, w
<1>5. cur.domain = "Time" /\ r.ts # <<>> => cur.ts # <<>>
  <2> SUFFICES ASSUME cur.domain = "Time", r.ts # <<>>, cur.ts = <<>> PROVE FALSE
    OBVIOUS
  <2>1. ToSet(cur.ts) = {}
    <3>1. DOMAIN cur.ts = {}
      <4>1. DOMAIN cur.ts = 1 .. Count(cur) /\ Count(cur) = 0
        BY CurIs, SignalIs
      <4> QED BY <4>1
    <3> QED BY <3>1 DEF ToSet
  <2>2. ToSet(r.ts) = {}
    BY <1>3, <2>1
  <2>3. DOMAIN r.ts = 1 .. Count(r) /\ Count(r) \in Nat /\ Count(r) # 0
    BY <1>3, SignalIs
  <2>4. 1 \in DOMAIN r.ts
    BY <2>3
  <2> QED BY <2>2, <2>4 DEF ToSet
<1>6. Respects(r, gives)
  <2>1. (cur.domain = "Time" /\ displayOriginNs(cur) # kNoSourceStart) =>
          displayOriginNs(r) = displayOriginNs(cur)
    BY <1>3 DEF displayOriginNs, CarriedOrigin
  <2>2. gives \subseteq Guarantees /\ gives \subseteq {"bins"} /\ ("bins" \notin gives => cur.domain = "Time")
    BY DEF Guarantees
  <2> HIDE DEF gives
  <2> QED BY <1>3, <1>5, <2>1, <2>2 DEF Respects
<1>7. ASSUME lost' \cap {"axis", "origin", "grid"} = {}
      PROVE  ToSet(cur.ts)' = {t \in ToSet(src.ts) : \A v \in win' :
                               v[1] <= t - src.ts[1] /\ t - src.ts[1] <= v[2]}
  <2>1. lost \cap {"axis", "origin", "grid"} = {} /\ cur' = r /\ "axis" \notin lost
    BY <1>4, <1>7 DEF Applied
  <2>2. cur.domain = "Time" /\ (cur.ts # <<>> => displayOriginNs(cur) = src.ts[1])
    BY <2>1, CurIs
  <2>3. ToSet(r.ts) = {t \in ToSet(cur.ts) : shown(t)}
    BY <1>3, <2>2
  <2>4. ToSet(cur.ts) = {t \in ToSet(src.ts) : \A v \in win :
                               v[1] <= t - src.ts[1] /\ t - src.ts[1] <= v[2]}
    BY <2>1 DEF IInv, SliceSelectsWhatIsShown
  <2>5. ASSUME NEW t \in ToSet(cur.ts) PROVE displayOriginNs(cur) = src.ts[1]
    <3>1. cur.ts # <<>>
      BY <2>5 DEF ToSet
    <3> QED BY <2>2, <3>1
  <2>6. \A t \in ToSet(cur.ts) : shown(t) <=> (w[1] <= t - src.ts[1] /\ t - src.ts[1] <= w[2])
    BY <1>4, <2>5
  <2> HIDE DEF shown
  <2> QED BY <1>4, <2>1, <2>3, <2>4, <2>6
<1> QED BY <1>4, <1>6, <1>7, RespectsStep

LEMMA GateSignalStep ==
  ASSUME IInv, GateSignal
  PROVE  IInv'
<1>1. PICK E \in Events, minLen \in Scalars, mode \in {0, 1} :
        Call(Gate(cur, GateRuns(cur, At(E), minLen), mode),
             {"grid", "bins"} \cup (IF mode = 0 THEN {"axis", "causal"} ELSE {}))
  BY DEF GateSignal
<1> DEFINE r == Gate(cur, GateRuns(cur, At(E), minLen), mode)
           gives == {"grid", "bins"} \cup (IF mode = 0 THEN {"axis", "causal"} ELSE {})
<1>2. /\ IsSignal(r) /\ r.domain = cur.domain /\ r.start = CarriedOrigin(cur)
      /\ mode = 1 => (Causal(cur) => Causal(r))
      /\ cur.ts = <<>> => r.ts = <<>>
  BY CurIs, GateIs
<1>3. Call(r, gives)
  BY <1>1
<1>4. gives \subseteq Guarantees /\ "bins" \in gives /\ "grid" \in gives /\ (mode # 1 => "axis" \in gives)
  BY DEF Guarantees
<1> HIDE DEF r, gives
<1>5. (cur.domain = "Time" /\ displayOriginNs(cur) # kNoSourceStart) =>
        displayOriginNs(r) = displayOriginNs(cur)
  BY <1>2 DEF displayOriginNs, CarriedOrigin
<1>6. Respects(r, gives)
  BY <1>2, <1>4, <1>5 DEF Respects
<1> QED BY <1>3, <1>4, <1>6, GridStep

\* The dependencies of a signal, all together.
LEMMA EveryDepIs ==
  ASSUME NEW s, IsSignal(s)
  PROVE  EveryDep(s) \in SUBSET Int
<1>1. s.dep \in [1 .. Count(s) -> SUBSET Int]
  BY SignalIs
<1>2. \A x \in Range(s.dep) : x \subseteq Int
  BY <1>1 DEF Range
<1> QED BY <1>2 DEF EveryDep

LEMMA EditBandStep ==
  ASSUME IInv, EditBand
  PROVE  IInv'
<1> DEFINE D == [i \in DOMAIN cur.ts |-> EveryDep(cur)]
           r == makeDoubleSignal(cur.ts, D, "Time", kNoSourceStart)
           gives == {"origin", "causal"} \cup (IF cur.domain = "Time" THEN {} ELSE {"axis"})
<1>1. Call(r, gives)
  BY DEF EditBand
<1>2. /\ IsSignal(cur) /\ Count(cur) \in Nat /\ cur.ts \in Times(Count(cur))
      /\ DOMAIN cur.ts = 1 .. Count(cur) /\ EveryDep(cur) \in SUBSET Int
  BY CurIs, SignalHas, SignalIs, EveryDepIs
<1>3. D \in Deps(Count(cur))
  BY <1>2 DEF Deps
<1>4. gives \subseteq Guarantees /\ "origin" \in gives /\ "causal" \in gives
  BY DEF Guarantees
<1>5. "Time" \in Domains /\ kNoSourceStart \in Int
  BY FunctionsAssumption DEF Domains
<1> HIDE DEF D, gives
<1>6. IsSignal(r) /\ r.domain = "Time"
  BY <1>2, <1>3, <1>5, Made
<1> HIDE DEF r
<1>7. Respects(r, gives)
  BY <1>4, <1>6 DEF Respects
<1> QED BY <1>1, <1>4, <1>7, GridStep

LEMMA PeakHzStep ==
  ASSUME IInv, PeakHz
  PROVE  IInv'
<1> DEFINE r == makeDoubleSignal(<<0>>, <<EveryDep(cur)>>, "Time", kNoSourceStart)
<1>1. Call(r, Guarantees)
  BY DEF PeakHz
<1>2. EveryDep(cur) \in SUBSET Int
  BY CurIs, EveryDepIs
<1>3. <<0>> \in Times(1) /\ <<EveryDep(cur)>> \in Deps(1)
  BY <1>2 DEF Times, Deps
<1>4. "Time" \in Domains /\ kNoSourceStart \in Int
  BY FunctionsAssumption DEF Domains
<1>5. IsSignal(r)
  BY <1>3, <1>4, Made
<1> HIDE DEF r
<1>6. Respects(r, Guarantees)
  BY <1>5 DEF Respects, Guarantees
<1>7. "axis" \in Guarantees
  BY DEF Guarantees
<1> QED BY <1>1, <1>6, <1>7, GridStep

\* A signal as it was recorded.
LEMMA RecordedIs ==
  ASSUME NEW ts \in Sources
  PROVE  LET o == Recorded(ts)
         IN  /\ IsSignal(o) /\ o.domain = "Time" /\ o.start = kNoSourceStart /\ o.sym = TRUE
             /\ o.ts = ts /\ Causal(o) /\ (ts # <<>> => displayOriginNs(o) = ts[1])
<1> DEFINE o == Recorded(ts)
<1>1. ts \in Seq(Int) /\ \A i \in 1 .. Len(ts) - 1 : ts[i] < ts[i + 1]
  BY FunctionsAssumption
<1>2. Len(ts) \in Nat /\ ts \in [1 .. Len(ts) -> Int] /\ DOMAIN ts = 1 .. Len(ts)
  BY <1>1, LenProperties
<1>3. [i \in DOMAIN ts |-> {ts[i]}] \in [1 .. Len(ts) -> SUBSET Int]
  BY <1>2
<1>4. \A T : \A f \in [1 .. Len(ts) -> T] : f \in Seq(T) /\ Len(f) = Len(ts)
  BY <1>2, IsASeq, LenProperties
<1>5. /\ o.ts = ts /\ o.dep = [i \in DOMAIN ts |-> {ts[i]}] /\ o.domain = "Time"
      /\ o.start = kNoSourceStart /\ o.sym = TRUE
      /\ o = [ts |-> o.ts, dep |-> o.dep, domain |-> o.domain, start |-> o.start, sym |-> o.sym]
  BY DEF Recorded
<1>6. o.dep \in Seq(SUBSET Int) /\ Len(o.dep) = Len(ts)
  BY <1>3, <1>4, <1>5
<1>7. kNoSourceStart \in Int
  BY FunctionsAssumption
<1> HIDE DEF o
<1>8. o \in Signals
  BY <1>1, <1>5, <1>6, <1>7 DEF Signals, Domains
<1>9. IsSignal(o)
  BY <1>1, <1>5, <1>6, <1>8 DEF IsSignal, Ascends
<1>10. Causal(o)
  BY <1>2, <1>5 DEF Causal, Count
<1>11. ts # <<>> => displayOriginNs(o) = ts[1]
  BY <1>5 DEF displayOriginNs
<1> QED BY <1>5, <1>9, <1>10, <1>11 DEF o

\* An operator with a recorded signal, in either order.
LEMMA PairedStep ==
  ASSUME IInv, NEW o, IsSignal(o), o.domain = "Time", o.start = kNoSourceStart, Causal(o),
         NEW curConst \in BOOLEAN, curConst => OneSampleAtZero(cur),
         NEW oConst \in BOOLEAN, oConst => OneSampleAtZero(o),
         curConst \/ oConst \/ cur.ts # <<>>,
         NEW r, IsSignal(r), Call(r, OffGrid(o)),
         PairedFrom(cur, o, curConst, oConst, r) \/ PairedFrom(o, cur, oConst, curConst, r)
  PROVE  IInv'
<1> DEFINE gives == OffGrid(o)
<1>1. /\ IsSignal(cur) /\ Count(cur) \in Nat /\ Count(o) \in Nat
      /\ r.domain \in {cur.domain, "Time"} /\ cur.start \in Int
  BY CurIs, SignalIs DEF PairedFrom
<1>2. CASE cur.ts = o.ts
  <2>1. gives \subseteq {"origin"} /\
        ("origin" \notin gives => ~ OneSampleAtZero(cur) \/ cur.start = kNoSourceStart)
    BY <1>2 DEF OffGrid
  <2>2. r.ts = cur.ts /\ Count(r) = Count(cur) /\ Count(o) = Count(cur)
    BY <1>2 DEF PairedFrom, Count
  <2>3. \A i \in 1 .. Count(cur) : r.dep[i] = cur.dep[i] \cup o.dep[i]
    <3>1. curConst \/ oConst => Count(cur) = 1
      BY <2>2 DEF OneSampleAtZero
    <3> QED BY <1>2, <2>2, <3>1 DEF PairedFrom
  <2>4. "origin" \notin gives => r.start = cur.start
    BY <2>1 DEF PairedFrom
  <2>5. Causal(cur) => Causal(r)
    BY <1>2, <2>2, <2>3 DEF Causal
  <2>6. "origin" \notin gives => displayOriginNs(r) = displayOriginNs(cur)
    BY <2>2, <2>4 DEF displayOriginNs
  <2>7. gives \subseteq Guarantees /\ (gives \cap {"axis", "origin"} = {} => "origin" \notin gives)
    BY <2>1 DEF Guarantees
  <2>8. r.domain = "Frequency" => cur.domain = "Frequency"
    BY <1>1
  <2> HIDE DEF gives
  <2>9. Respects(r, gives)
    BY <1>1, <2>2, <2>5, <2>6, <2>7, <2>8 DEF Respects
  <2> QED BY <2>2, <2>9, GridStep DEF gives
<1>3. CASE cur.ts # o.ts /\ OneSampleAtZero(cur)
  <2>1. gives = Guarantees
    BY <1>3 DEF OffGrid
  <2>2. /\ "axis" \in gives /\ "origin" \in gives /\ "causal" \in gives /\ "grid" \in gives
        /\ "bins" \in gives /\ gives \subseteq Guarantees
    BY <2>1 DEF Guarantees
  <2> HIDE DEF gives
  <2>3. Respects(r, gives)
    BY <2>2 DEF Respects
  <2> QED BY <2>2, <2>3, GridStep DEF gives
<1>4. CASE cur.ts # o.ts /\ ~ OneSampleAtZero(cur)
  <2>1. /\ "causal" \in gives /\ "grid" \in gives /\ "bins" \in gives /\ gives \subseteq Guarantees
        /\ "origin" \notin gives => cur.start # kNoSourceStart
    BY <1>4 DEF OffGrid, Guarantees
  <2>2. ~ curConst
    BY <1>4
  <2>3. oConst => r.ts = cur.ts /\ r.start = cur.start
    BY <2>2 DEF PairedFrom
  <2>4. (~ oConst /\ cur.start # kNoSourceStart) => r.start = cur.start
    BY <2>2 DEF PairedFrom
  <2>5. "origin" \notin gives => displayOriginNs(r) = displayOriginNs(cur)
    BY <2>1, <2>3, <2>4 DEF displayOriginNs
  <2>6. r.ts # <<>> => cur.ts # <<>>
    BY <2>2, <2>3
  <2>7. gives \cap {"axis", "origin"} = {} => "origin" \notin gives
    OBVIOUS
  <2> HIDE DEF gives
  <2>8. Respects(r, gives)
    BY <1>1, <2>1, <2>5, <2>6, <2>7 DEF Respects
  <2> QED BY <2>1, <2>8, GridStep DEF gives
<1> QED BY <1>2, <1>3, <1>4

LEMMA BinaryOperatorStep ==
  ASSUME IInv, BinaryOperator
  PROVE  IInv'
<1>1. PICK ts \in Sources, swap \in BOOLEAN :
        LET o == Recorded(ts)
            a == IF swap THEN o ELSE cur
            b == IF swap THEN cur ELSE o
        IN  \/ /\ BinaryAccepts(a, b, isConstant(a), isConstant(b))
               /\ Call(OperatorResult(a, b), OffGrid(o))
            \/ /\ BinaryAccepts(a, b, OneSampleAtZero(a), OneSampleAtZero(b))
               /\ Call(PairResult(a, b), OffGrid(o))
  BY DEF BinaryOperator
<1> DEFINE o == Recorded(ts)
           a == IF swap THEN o ELSE cur
           b == IF swap THEN cur ELSE o
<1>2. /\ IsSignal(cur) /\ IsSignal(o) /\ o.domain = "Time" /\ o.start = kNoSourceStart /\ Causal(o)
  BY CurIs, RecordedIs
<1> HIDE DEF o
<1>3. IsSignal(a) /\ IsSignal(b)
  BY <1>2
<1>4. \A s : isConstant(s) \in BOOLEAN /\ OneSampleAtZero(s) \in BOOLEAN
             /\ (isConstant(s) => OneSampleAtZero(s))
  BY DEF isConstant, OneSampleAtZero
<1>5. CASE BinaryAccepts(a, b, isConstant(a), isConstant(b)) /\ Call(OperatorResult(a, b), OffGrid(o))
  <2> DEFINE r == OperatorResult(a, b)
  <2>1. IsSignal(r) /\ PairedFrom(a, b, isConstant(a), isConstant(b), r)
    BY <1>3, <1>5, OperatorResultIs
  <2>2. Call(r, OffGrid(o))
    BY <1>5
  <2>3. isConstant(cur) \/ isConstant(o) \/ cur.ts # <<>>
    BY <1>5 DEF BinaryAccepts
  <2> HIDE DEF r
  <2>4. \/ PairedFrom(cur, o, isConstant(cur), isConstant(o), r)
        \/ PairedFrom(o, cur, isConstant(o), isConstant(cur), r)
    BY <2>1
  <2> QED BY <1>2, <1>4, <2>1, <2>2, <2>3, <2>4, PairedStep
<1>6. CASE /\ BinaryAccepts(a, b, OneSampleAtZero(a), OneSampleAtZero(b))
           /\ Call(PairResult(a, b), OffGrid(o))
  <2> DEFINE r == PairResult(a, b)
  <2>1. IsSignal(r) /\ PairedFrom(a, b, OneSampleAtZero(a), OneSampleAtZero(b), r)
    BY <1>3, <1>6, PairResultIs
  <2>2. Call(r, OffGrid(o))
    BY <1>6
  <2>3. OneSampleAtZero(cur) \/ OneSampleAtZero(o) \/ cur.ts # <<>>
    BY <1>6 DEF BinaryAccepts
  <2> HIDE DEF r
  <2>4. \/ PairedFrom(cur, o, OneSampleAtZero(cur), OneSampleAtZero(o), r)
        \/ PairedFrom(o, cur, OneSampleAtZero(o), OneSampleAtZero(cur), r)
    BY <2>1
  <2> QED BY <1>2, <1>4, <2>1, <2>2, <2>3, <2>4, PairedStep
<1> QED BY <1>1, <1>5, <1>6 DEF o

-----------------------------------------------------------------------------
(* Resampling                                                               *)

LEMMA TimesAscend ==
  ASSUME NEW n \in Nat, NEW q \in Times(n), NEW i \in 1 .. n, NEW j \in 1 .. n
  PROVE  /\ (q[i] < q[j] => i < j) /\ (q[i] = q[j] => i = j)
         /\ (i <= j => q[j] - q[i] >= j - i)
<1>1. q \in [1 .. n -> Int]
  BY DEF Times
<1>2. \A k \in 1 .. n - 1 : q[k] < q[k + 1]
  BY DEF Times
<1> QED BY <1>1, <1>2, Later

\* A list of all of 1 .. n is 1 .. n.
LEMMA ListsAll ==
  ASSUME NEW n \in Nat, NEW idx, 1 .. n \subseteq idx, NEW at, Lists(at, n, idx)
  PROVE  Len(at) = n /\ \A j \in 1 .. n : at[j] = j
<1> DEFINE m == Len(at)
           g == [k \in 1 .. n |-> CHOOSE j \in 1 .. m : at[j] = k]
<1>1. /\ m \in Nat /\ at \in [1 .. m -> 1 .. n] /\ \A j \in 1 .. m - 1 : at[j] < at[j + 1]
      /\ \A i \in 1 .. n : \E j \in 1 .. m : at[j] = i
  BY DEF Lists
<1>2. \A k \in 1 .. n : g[k] \in 1 .. m /\ at[g[k]] = k
  BY <1>1
<1> HIDE DEF g, m
<1>3. ASSUME NEW i \in 1 .. m, NEW j \in 1 .. m
      PROVE  /\ (at[i] < at[j] => i < j) /\ (at[i] = at[j] => i = j)
             /\ (i <= j => at[j] - at[i] >= j - i)
  <2>1. at \in Times(m)
    BY <1>1 DEF Times
  <2> QED BY <1>1, <2>1, TimesAscend
<1>4. ASSUME NEW j \in 1 .. m PROVE at[j] >= j
  <2>1. 1 \in 1 .. m /\ at[1] \in 1 .. n /\ at[j] \in 1 .. n
    BY <1>1
  <2>2. at[j] - at[1] >= j - 1
    BY <1>1, <1>3, <2>1
  <2> QED BY <2>1, <2>2
<1>5. ASSUME NEW k \in 1 .. n PROVE g[k] >= k
  <2> DEFINE G == [i \in 1 .. n |-> g[i]]
  <2>1. G \in [1 .. n -> Int]
    BY <1>1, <1>2
  <2>2. ASSUME NEW i \in 1 .. n - 1 PROVE G[i] < G[i + 1]
    <3>1. i \in 1 .. n /\ i + 1 \in 1 .. n /\ i < i + 1
      OBVIOUS
    <3>2. at[g[i]] < at[g[i + 1]] /\ g[i] \in 1 .. m /\ g[i + 1] \in 1 .. m
      BY <1>2, <3>1
    <3>3. g[i] < g[i + 1]
      BY <1>3, <3>2
    <3> QED BY <3>1, <3>3
  <2>3. 1 \in 1 .. n /\ G[1] = g[1] /\ G[k] = g[k] /\ g[1] \in 1 .. m /\ g[k] \in 1 .. m
    BY <1>2
  <2> HIDE DEF G
  <2>4. G[k] - G[1] >= k - 1
    <3>1. \A i \in 1 .. n - 1 : G[i] < G[i + 1]
      BY <2>2
    <3>2. 1 <= k
      OBVIOUS
    <3> QED BY <2>1, <2>3, <3>1, <3>2, Later
  <2>5. G[1] \in Nat /\ G[1] >= 1 /\ G[k] \in Nat /\ k \in Nat
    BY <1>1, <2>3
  <2> QED BY <2>3, <2>4, <2>5
<1>6. \A j \in 1 .. m : at[j] = j
  <2> SUFFICES ASSUME NEW j \in 1 .. m PROVE at[j] = j
    OBVIOUS
  <2>1. at[j] \in 1 .. n /\ g[at[j]] \in 1 .. m /\ at[g[at[j]]] = at[j]
    BY <1>1, <1>2
  <2>2. g[at[j]] = j
    BY <1>3, <2>1
  <2>3. j >= at[j] /\ at[j] >= j
    BY <1>4, <1>5, <2>1, <2>2
  <2> QED BY <2>1, <2>3
<1>7. m = n
  <2>1. n # 0 => m >= n
    <3>1. n # 0 => n \in 1 .. n
      OBVIOUS
    <3>2. n # 0 => g[n] >= n /\ g[n] \in 1 .. m
      BY <1>2, <1>5, <3>1
    <3> QED BY <1>1, <3>2
  <2>2. m # 0 => m <= n
    <3>1. m # 0 => m \in 1 .. m
      BY <1>1
    <3>2. m # 0 => at[m] = m /\ at[m] \in 1 .. n
      BY <1>1, <1>6, <3>1
    <3> QED BY <1>1, <3>2
  <2> QED BY <1>1, <2>1, <2>2
<1> QED BY <1>6, <1>7 DEF m

\* At a sample, interpolation takes that sample.
LEMMA NeighboursAtSample ==
  ASSUME NEW s, IsSignal(s), NEW j \in 1 .. Count(s)
  PROVE  NeighboursAt(s, s.ts[j]) = s.dep[j]
<1>1. s.ts[j] \in Int /\ Count(s) \in Nat /\ s.ts \in [1 .. Count(s) -> Int]
  BY SignalIs
<1>2. ASSUME NEW i \in 1 .. Count(s)
      PROVE  (s.ts[i] <= s.ts[j] => i <= j) /\ (s.ts[i] >= s.ts[j] => j <= i)
  <2>1. s.ts[i] \in Int /\ (i < j => s.ts[i] < s.ts[j]) /\ (j < i => s.ts[j] < s.ts[i])
    BY SignalLater
  <2> QED BY <1>1, <2>1
<1>3. s.ts[j] <= s.ts[j] /\ s.ts[j] >= s.ts[j]
  BY <1>1
<1>4. NeighboursAt(s, s.ts[j]) = s.dep[j] \cup s.dep[j]
  BY <1>1, <1>2, <1>3, NeighboursAre
<1> QED BY <1>4

LEMMA ResampledIs ==
  ASSUME NEW s, IsSignal(s), NEW m \in Nat, NEW times \in Times(m), Len(times) = m
  PROVE  LET r == ResampledTo(s, times)
         IN  /\ IsSignal(r)
             /\ r.domain = s.domain \/ (r.domain = "Time" /\ s.ts = <<>>)
             /\ s.ts = <<>> => r.ts = <<>>
             /\ s.ts # <<>> => /\ r.ts = times /\ Count(r) = m /\ r.start = s.start
                               /\ r.dep = [j \in 1 .. m |-> NeighboursAt(s, times[j])]
<1>1. CASE s.ts = <<>>
  <2> DEFINE r == makeDoubleSignal(<<>>, <<>>, "Time", kNoSourceStart)
  <2>1. "Time" \in Domains /\ kNoSourceStart \in Int
    BY FunctionsAssumption DEF Domains
  <2>2. IsSignal(r) /\ r.ts = <<>> /\ r.domain = "Time"
    BY <1>1, <2>1, EmptyIs
  <2>3. ResampledTo(s, times) = r
    BY <1>1 DEF ResampledTo
  <2> HIDE DEF r
  <2> QED BY <1>1, <2>2, <2>3
<1>2. CASE s.ts # <<>>
  <2> DEFINE D == CursorWalk(s, times)
             r == makeDoubleSignal(times, D, s.domain, s.start)
  <2>1. Count(s) # 0
    BY <1>2, SignalIs
  <2>2. D = [j \in 1 .. m |-> NeighboursAt(s, times[j])] /\ D \in Deps(m)
    BY <2>1, CursorWalkIs
  <2>3. s.domain \in Domains /\ s.start \in Int
    BY SignalIs
  <2>4. ResampledTo(s, times) = r
    BY <1>2 DEF ResampledTo
  <2> HIDE DEF D
  <2>5. /\ IsSignal(r) /\ Count(r) = m /\ r.ts = times /\ r.dep = D
        /\ r.domain = s.domain /\ r.start = s.start
    BY <2>2, <2>3, Made
  <2> HIDE DEF r
  <2> QED BY <1>2, <2>2, <2>4, <2>5
<1> QED BY <1>1, <1>2

\* The span of a signal.
LEMMA SpanIs ==
  ASSUME NEW s, IsSignal(s), Count(s) # 0
  PROVE  /\ Span(s) = s.ts[Count(s)] - s.ts[1] /\ Span(s) \in Nat /\ Span(s) >= Count(s) - 1
         /\ s.ts[1] \in Int /\ s.ts[Count(s)] \in Int /\ Last(s.ts) = s.ts[Count(s)]
<1>1. Count(s) \in Nat /\ Len(s.ts) = Count(s)
  BY SignalIs
<1>2. 1 \in 1 .. Count(s) /\ Count(s) \in 1 .. Count(s) /\ 1 <= Count(s)
  BY <1>1
<1>3. /\ s.ts[1] \in Int /\ s.ts[Count(s)] \in Int
      /\ s.ts[Count(s)] - s.ts[1] >= Count(s) - 1
  BY <1>2, SignalLater
<1>4. Last(s.ts) = s.ts[Count(s)]
  BY <1>1 DEF Last
<1>5. Span(s) = s.ts[Count(s)] - s.ts[1]
  BY <1>4 DEF Span
<1> QED BY <1>1, <1>2, <1>3, <1>4, <1>5

LEMMA RateGridIs ==
  ASSUME NEW s, IsSignal(s), NEW rate \in Int, rate > 0, Second \div rate > 0
  PROVE  LET q == RateGrid(s, rate)
         IN  \E m \in Nat : /\ q \in Times(m) /\ Len(q) = m
                            /\ s.ts # <<>> => m # 0 /\ q[1] = s.ts[1]
<1> DEFINE q == RateGrid(s, rate)
<1>1. CASE s.ts = <<>>
  <2>1. q = <<>>
    BY <1>1 DEF RateGrid
  <2>2. <<>> \in Times(0) /\ Len(<<>>) = 0
    BY DEF Times
  <2> QED BY <1>1, <2>1, <2>2
<1>2. CASE s.ts # <<>>
  <2> DEFINE d == Second \div rate
             m == (Span(s) \div d) + 1
             T == [i \in 1 .. m |-> s.ts[1] + (i - 1) * d]
  <2>1. q = T
    BY <1>2 DEF RateGrid
  <2>2. Count(s) # 0
    BY <1>2, SignalIs
  <2>3. Span(s) \in Nat /\ s.ts[1] \in Int
    BY <2>2, SpanIs
  <2>4. d \in Nat /\ d # 0
    <3>1. Second \in Nat /\ rate \in Nat /\ rate # 0
      BY FunctionsAssumption
    <3> QED BY <3>1, QuotientOf
  <2> HIDE DEF d
  <2>5. m \in Nat /\ m # 0
    <3>1. Span(s) \div d \in Nat
      BY <2>3, <2>4, QuotientOf
    <3> QED BY <3>1
  <2>6. T \in [1 .. m -> Int] /\ \A i \in 1 .. m : T[i] = s.ts[1] + (i - 1) * d
    <3>1. ASSUME NEW i \in 1 .. m PROVE s.ts[1] + (i - 1) * d \in Int
      BY <2>3, <2>4, <2>5
    <3> QED BY <3>1
  <2> HIDE DEF m
  <2>7. Len(T) = m
    <3>1. T \in Seq(Int) /\ DOMAIN T = 1 .. m
      BY <2>5, <2>6, IsASeq
    <3> QED BY <2>5, <3>1, LenProperties
  <2> HIDE DEF T
  <2>8. ASSUME NEW i \in 1 .. m - 1 PROVE T[i] < T[i + 1]
    <3>1. i \in 1 .. m /\ i + 1 \in 1 .. m /\ i \in Int
      BY <2>5
    <3>2. T[i] = s.ts[1] + (i - 1) * d /\ T[i + 1] = s.ts[1] + ((i + 1) - 1) * d
      BY <2>6, <3>1
    <3>3. ((i + 1) - 1) * d = (i - 1) * d + d
      BY <2>4, <3>1
    <3>4. (i - 1) * d \in Int
      BY <2>4, <3>1
    <3> QED BY <2>3, <2>4, <3>2, <3>3, <3>4
  <2>9. T \in Times(m)
    BY <2>6, <2>8 DEF Times
  <2>10. T[1] = s.ts[1]
    <3>1. 1 \in 1 .. m
      BY <2>5
    <3>2. T[1] = s.ts[1] + (1 - 1) * d
      BY <2>6, <3>1
    <3>3. (1 - 1) * d = 0
      BY <2>4
    <3> QED BY <2>3, <3>2, <3>3
  <2>11. q \in Times(m) /\ Len(q) = m /\ m # 0 /\ q[1] = s.ts[1]
    BY <2>1, <2>5, <2>7, <2>9, <2>10
  <2> QED BY <2>5, <2>11
<1> HIDE DEF q
<1> QED BY <1>1, <1>2 DEF q

LEMMA ReferenceGridIs ==
  ASSUME NEW s, IsSignal(s), NEW o, IsSignal(o)
  PROVE  LET q == ReferenceGrid(s, o)
         IN  /\ \E m \in Nat : q \in Times(m) /\ Len(q) = m
             /\ s.ts = o.ts => q \in Times(Count(s)) /\ Len(q) = Count(s)
                               /\ \A j \in 1 .. Count(s) : q[j] = s.ts[j]
<1> DEFINE q == ReferenceGrid(s, o)
           idx == {i \in DOMAIN o.ts : s.ts[1] <= o.ts[i] /\ o.ts[i] <= Last(s.ts)}
           at == InOrder(Count(o), idx)
<1>1. CASE s.ts = <<>>
  <2>1. q = <<>> /\ Count(s) = 0
    BY <1>1, SignalIs DEF ReferenceGrid
  <2>2. <<>> \in Times(0) /\ Len(<<>>) = 0
    BY DEF Times
  <2>3. \A j \in 1 .. Count(s) : FALSE
    BY <2>1
  <2> HIDE DEF q
  <2>4. /\ \E m \in Nat : q \in Times(m) /\ Len(q) = m
        /\ q \in Times(Count(s)) /\ Len(q) = Count(s)
        /\ \A j \in 1 .. Count(s) : q[j] = s.ts[j]
    BY <2>1, <2>2, <2>3
  <2> QED BY <2>4 DEF q
<1>2. CASE s.ts # <<>>
  <2>1. q = Picked(o.ts, idx)
    BY <1>2 DEF ReferenceGrid
  <2>2. o.ts \in Seq(Int) /\ Len(o.ts) = Count(o) /\ DOMAIN o.ts = 1 .. Count(o) /\ Count(o) \in Nat
    BY SignalIs
  <2> HIDE DEF idx
  <2>3. /\ Lists(at, Count(o), idx) /\ Len(q) = Len(at) /\ q \in [1 .. Len(at) -> Int]
        /\ \A j \in 1 .. Len(at) : q[j] = o.ts[at[j]]
    BY <2>1, <2>2, PickedIs
  <2> HIDE DEF at
  <2>4. q = [j \in 1 .. Len(at) |-> o.ts[at[j]]]
    <3> HIDE DEF q
    <3> QED BY <2>3
  <2>5. q \in Times(Len(at)) /\ Len(at) \in Nat
    <3>1. Len(at) \in Nat
      BY <2>3 DEF Lists
    <3> QED BY <2>3, <2>4, <3>1, ListAscends
  <2>6. ASSUME s.ts = o.ts
        PROVE  Len(at) = Count(s) /\ \A j \in 1 .. Count(s) : q[j] = s.ts[j]
    <3>1. Count(o) = Count(s) /\ Count(s) # 0
      BY <1>2, <2>6, SignalIs DEF Count
    <3>2. ASSUME NEW i \in 1 .. Count(o) PROVE i \in idx
      <4>1. s.ts[1] <= s.ts[i] /\ s.ts[i] <= s.ts[Count(s)] /\ Last(s.ts) = s.ts[Count(s)]
        <5>1. 1 \in 1 .. Count(s) /\ Count(s) \in 1 .. Count(s) /\ i \in 1 .. Count(s)
              /\ 1 <= i /\ i <= Count(s)
          BY <2>2, <3>1
        <5> QED BY <3>1, <5>1, SignalLater, SpanIs
      <4> QED BY <2>2, <2>6, <4>1 DEF idx
    <3>3. Len(at) = Count(o) /\ \A j \in 1 .. Count(o) : at[j] = j
      <4>1. 1 .. Count(o) \subseteq idx
        BY <3>2
      <4> QED BY <2>2, <2>3, <4>1, ListsAll
    <3> HIDE DEF q
    <3> QED BY <2>3, <2>6, <3>1, <3>3
  <2> HIDE DEF q
  <2>7. /\ \E m \in Nat : q \in Times(m) /\ Len(q) = m
        /\ s.ts = o.ts => q \in Times(Count(s)) /\ Len(q) = Count(s)
                          /\ \A j \in 1 .. Count(s) : q[j] = s.ts[j]
    BY <2>3, <2>5, <2>6
  <2> QED BY <2>7 DEF q
<1> HIDE DEF q
<1> QED BY <1>1, <1>2 DEF q

LEMMA ResampleRateStep ==
  ASSUME IInv, ResampleRate
  PROVE  IInv'
<1>1. PICK rate \in Rates : /\ rate > 0 /\ Second \div rate > 0
                            /\ Call(ResampledTo(cur, RateGrid(cur, rate)), {"grid", "bins", "causal"})
  BY DEF ResampleRate
<1> DEFINE q == RateGrid(cur, rate)
           r == ResampledTo(cur, q)
           gives == {"grid", "bins", "causal"}
<1>2. rate \in Int /\ IsSignal(cur)
  BY CurIs, FunctionsAssumption
<1>3. PICK m \in Nat : q \in Times(m) /\ Len(q) = m /\ (cur.ts # <<>> => m # 0 /\ q[1] = cur.ts[1])
  BY <1>1, <1>2, RateGridIs
<1>4. Call(r, gives)
  BY <1>1
<1> HIDE DEF q
<1>5. /\ IsSignal(r)
      /\ r.domain = cur.domain \/ (r.domain = "Time" /\ cur.ts = <<>>)
      /\ cur.ts = <<>> => r.ts = <<>>
      /\ cur.ts # <<>> => r.ts = q /\ r.start = cur.start
  BY <1>2, <1>3, ResampledIs
<1> HIDE DEF r
<1>6. cur.ts # <<>> /\ r.ts # <<>> => displayOriginNs(r) = displayOriginNs(cur)
  BY <1>3, <1>5 DEF displayOriginNs
<1>7. gives \subseteq Guarantees /\ "grid" \in gives /\ "bins" \in gives /\ "causal" \in gives
  BY DEF Guarantees
<1> HIDE DEF gives
<1>8. Respects(r, gives)
  BY <1>5, <1>6, <1>7 DEF Respects
<1> QED BY <1>4, <1>7, <1>8, GridStep

LEMMA ResampleReferenceStep ==
  ASSUME IInv, ResampleReference
  PROVE  IInv'
<1>1. PICK ts \in Sources :
        Call(ResampledTo(cur, ReferenceGrid(cur, Recorded(ts))), OffGrid(Recorded(ts)))
  BY DEF ResampleReference
<1> DEFINE o == Recorded(ts)
           q == ReferenceGrid(cur, o)
           r == ResampledTo(cur, q)
           gives == OffGrid(o)
<1>2. IsSignal(cur) /\ IsSignal(o)
  BY CurIs, RecordedIs
<1>3. Call(r, gives)
  BY <1>1
<1> HIDE DEF o
<1>4. \E m \in Nat : q \in Times(m) /\ Len(q) = m
  BY <1>2, ReferenceGridIs
<1>5. cur.ts = o.ts => /\ q \in Times(Count(cur)) /\ Len(q) = Count(cur)
                       /\ \A j \in 1 .. Count(cur) : q[j] = cur.ts[j]
  BY <1>2, ReferenceGridIs
<1> HIDE DEF q
<1>6. /\ IsSignal(r)
      /\ r.domain = cur.domain \/ (r.domain = "Time" /\ cur.ts = <<>>)
      /\ cur.ts = <<>> => r.ts = <<>>
      /\ cur.ts # <<>> => r.ts = q /\ r.start = cur.start
  BY <1>2, <1>4, ResampledIs
<1>7. ASSUME cur.ts = o.ts
      PROVE  r.ts = cur.ts /\ (Causal(cur) => Causal(r))
  <2>1. CASE cur.ts = <<>>
    <3>1. r.ts = <<>> /\ Count(r) = 0
      BY <1>6, <2>1, SignalIs
    <3> QED BY <2>1, <3>1 DEF Causal
  <2>2. CASE cur.ts # <<>>
    <3>1. r.ts = q /\ Count(r) = Count(cur) /\ r.dep = [j \in 1 .. Count(cur) |-> NeighboursAt(cur, q[j])]
      BY <1>2, <1>5, <1>7, <2>2, SignalIs, ResampledIs
    <3>2. cur.ts \in [1 .. Count(cur) -> Int] /\ q \in [1 .. Count(cur) -> Int]
      BY <1>2, <1>5, <1>7, SignalIs DEF Times
    <3>3. q = cur.ts
      BY <1>5, <1>7, <3>2
    <3> HIDE DEF r
    <3>4. \A j \in 1 .. Count(cur) : r.dep[j] = cur.dep[j]
      BY <1>2, <3>1, <3>3, NeighboursAtSample
    <3> QED BY <3>1, <3>3, <3>4 DEF Causal
  <2> QED BY <2>1, <2>2
<1> HIDE DEF r
<1>8. CASE cur.ts = o.ts
  <2>1. gives \subseteq {"origin"} /\ gives \subseteq Guarantees
    BY <1>8 DEF OffGrid, Guarantees
  <2>2. r.ts = cur.ts /\ (Causal(cur) => Causal(r)) /\ Count(r) = Count(cur)
    BY <1>7, <1>8 DEF Count
  <2>3. cur.ts # <<>> => displayOriginNs(r) = displayOriginNs(cur)
    BY <1>6, <2>2 DEF displayOriginNs
  <2> HIDE DEF gives
  <2>4. Respects(r, gives)
    BY <1>6, <2>1, <2>2, <2>3 DEF Respects
  <2> QED BY <1>3, <2>2, <2>4, GridStep
<1>9. CASE cur.ts # o.ts
  <2>1. /\ "grid" \in gives /\ "bins" \in gives /\ "causal" \in gives /\ gives \subseteq Guarantees
        /\ "origin" \notin gives => cur.start # kNoSourceStart
    BY <1>9 DEF OffGrid, Guarantees
  <2>2. ("origin" \notin gives /\ cur.ts # <<>>) => displayOriginNs(r) = displayOriginNs(cur)
    BY <1>6, <2>1 DEF displayOriginNs
  <2> HIDE DEF gives
  <2>3. Respects(r, gives)
    BY <1>6, <2>1, <2>2 DEF Respects
  <2> QED BY <1>3, <2>1, <2>3, GridStep
<1> QED BY <1>8, <1>9

-----------------------------------------------------------------------------
(* Powers of two                                                            *)

\* The first n doublings.
Doubles(f, n) ==
  /\ f = [i \in 0 .. n |-> f[i]] /\ f[0] = 1 /\ \A i \in 0 .. n : f[i] \in Nat
  /\ \A i \in 1 .. n : f[i] = 2 * f[i - 1]

LEMMA DoublesExists ==
  ASSUME NEW n \in Nat
  PROVE  \E f : Doubles(f, n)
<1> DEFINE X == [i \in 0 .. n |-> Nat]
           g == [i \in 1 .. n |-> [v \in Nat |-> 2 * v]]
<1>1. 1 \in X[0] /\ \A i \in 1 .. n : i - 1 \in 0 .. n /\ i \in 0 .. n
  OBVIOUS
<1>2. \A i \in 1 .. n : g[i] \in [X[i - 1] -> X[i]]
  BY <1>1
<1>3. \A i \in 1 .. n : \A v \in X[i - 1] : g[i][v] = 2 * v
  BY <1>1
<1> HIDE DEF g
<1>4. \A i \in 0 .. n : X[i] = Nat
  OBVIOUS
<1> HIDE DEF X
<1>5. PICK f : /\ f = [i \in 0 .. n |-> f[i]] /\ f[0] = 1
               /\ \A i \in 1 .. n : f[i - 1] \in X[i - 1] /\ f[i] = g[i][f[i - 1]]
               /\ \A i \in 0 .. n : i # 0 => i \in 1 .. n
  BY <1>1, <1>2, LoopExists
<1>6. \A i \in 1 .. n : f[i - 1] \in Nat /\ f[i] = 2 * f[i - 1]
  BY <1>1, <1>3, <1>4, <1>5
<1>7. \A i \in 0 .. n : f[i] \in Nat
  <2>1. \A i \in 1 .. n : f[i] \in Nat
    <3>1. \A v \in Nat : 2 * v \in Nat
      OBVIOUS
    <3> QED BY <1>6, <3>1
  <2>2. f[0] \in Nat /\ \A i \in 0 .. n : i = 0 \/ i \in 1 .. n
    BY <1>5
  <2> QED BY <2>1, <2>2
<1> QED BY <1>5, <1>6, <1>7 DEF Doubles

LEMMA DoublesAgree ==
  ASSUME NEW n \in Nat, NEW f, Doubles(f, n), NEW m \in Nat, n <= m, NEW h, Doubles(h, m)
  PROVE  f[n] = h[n]
<1> DEFINE S == {i \in 0 .. n : f[i] = h[i]}
<1>1. 0 \in S
  BY DEF Doubles
<1>2. ASSUME NEW i \in 1 .. n, i - 1 \in S PROVE i \in S
  <2>1. i \in 1 .. m /\ i \in 0 .. n
    OBVIOUS
  <2>2. f[i] = 2 * f[i - 1] /\ h[i] = 2 * h[i - 1]
    BY <2>1 DEF Doubles
  <2> QED BY <1>2, <2>1, <2>2
<1> HIDE DEF S
<1>3. 0 .. n \subseteq S
  BY <1>1, <1>2, UpTo
<1>4. n \in S
  BY <1>3
<1> QED BY <1>4 DEF S

LEMMA PowersAre ==
  /\ pow2[0] = 1
  /\ \A k \in Nat : pow2[k] \in Nat /\ pow2[k + 1] = 2 * pow2[k]
<1> DEFINE F(n) == CHOOSE f : Doubles(f, n)
           p == [k \in Nat |-> F(k)[k]]
           r == CHOOSE f : f = [k \in Nat |-> IF k = 0 THEN 1 ELSE 2 * f[k - 1]]
<1>1. \A n \in Nat : Doubles(F(n), n)
  BY DoublesExists
<1> HIDE DEF F
<1>2. \A k \in Nat : p[k] \in Nat
  BY <1>1 DEF Doubles
<1>3. p[0] = 1
  BY <1>1 DEF Doubles
<1>4. ASSUME NEW k \in Nat \ {0} PROVE p[k] = 2 * p[k - 1]
  <2>1. k \in Nat /\ k - 1 \in Nat /\ k \in 1 .. k /\ k - 1 <= k
    OBVIOUS
  <2>2. Doubles(F(k), k) /\ Doubles(F(k - 1), k - 1)
    BY <1>1, <2>1
  <2>3. F(k)[k] = 2 * F(k)[k - 1]
    BY <2>1, <2>2 DEF Doubles
  <2>4. F(k - 1)[k - 1] = F(k)[k - 1]
    BY <2>1, <2>2, DoublesAgree
  <2>5. p[k] = F(k)[k] /\ p[k - 1] = F(k - 1)[k - 1]
    BY <2>1
  <2> QED BY <2>3, <2>4, <2>5
<1>5. p = [k \in Nat |-> IF k = 0 THEN 1 ELSE 2 * p[k - 1]]
  <2>1. \A k \in Nat : p[k] = IF k = 0 THEN 1 ELSE 2 * p[k - 1]
    BY <1>3, <1>4
  <2>2. p = [k \in Nat |-> p[k]]
    OBVIOUS
  <2> HIDE DEF p
  <2> QED BY <2>1, <2>2
<1> HIDE DEF p
<1>6. r = [k \in Nat |-> IF k = 0 THEN 1 ELSE 2 * r[k - 1]]
  BY <1>5
<1>7. pow2 = r
  BY DEF pow2
<1> HIDE DEF r
<1>8. pow2 = [k \in Nat |-> IF k = 0 THEN 1 ELSE 2 * pow2[k - 1]]
  BY <1>6, <1>7
<1>9. pow2[0] = 1
  BY <1>8
<1>10. ASSUME NEW k \in Nat PROVE pow2[k + 1] = 2 * pow2[k]
  <2>1. k + 1 \in Nat /\ k + 1 # 0 /\ (k + 1) - 1 = k
    OBVIOUS
  <2> QED BY <1>8, <2>1
<1>11. ASSUME NEW k \in Nat PROVE pow2[k] \in Nat
  <2> DEFINE S == {i \in 0 .. k : pow2[i] \in Nat}
  <2>1. 0 \in S
    BY <1>9
  <2>2. ASSUME NEW i \in 1 .. k, i - 1 \in S PROVE i \in S
    <3>1. i - 1 \in Nat /\ (i - 1) + 1 = i /\ i \in 0 .. k
      OBVIOUS
    <3>2. pow2[i] = 2 * pow2[i - 1]
      BY <1>10, <3>1
    <3> QED BY <2>2, <3>1, <3>2
  <2>3. k \in S
    <3> HIDE DEF S
    <3>1. 0 .. k \subseteq S
      BY <2>1, <2>2, UpTo
    <3> QED BY <3>1
  <2> QED BY <2>3
<1> QED BY <1>9, <1>10, <1>11

LEMMA PowersGrow ==
  ASSUME NEW n \in Nat
  PROVE  pow2[n] \in Nat /\ pow2[n] >= n + 1
<1> DEFINE S == {i \in 0 .. n : pow2[i] >= i + 1}
<1>1. 0 \in S
  BY PowersAre
<1>2. ASSUME NEW i \in 1 .. n, i - 1 \in S PROVE i \in S
  <2>1. i - 1 \in Nat /\ (i - 1) + 1 = i /\ i \in 0 .. n
    OBVIOUS
  <2>2. pow2[i] = 2 * pow2[i - 1] /\ pow2[i - 1] \in Nat
    BY <2>1, PowersAre
  <2>3. pow2[i - 1] >= (i - 1) + 1
    BY <1>2
  <2> QED BY <2>1, <2>2, <2>3
<1>3. n \in S
  <2> HIDE DEF S
  <2>1. 0 .. n \subseteq S
    BY <1>1, <1>2, UpTo
  <2> QED BY <2>1
<1> QED BY <1>3, PowersAre

LEMMA PowersMultiply ==
  ASSUME NEW e \in Nat, NEW d \in Nat
  PROVE  pow2[e + d] = pow2[e] * pow2[d]
<1> DEFINE S == {i \in 0 .. d : pow2[e + i] = pow2[e] * pow2[i]}
<1>1. 0 \in S
  <2>1. e + 0 = e /\ pow2[e] \in Nat
    BY PowersAre
  <2> QED BY <2>1, PowersAre
<1>2. ASSUME NEW i \in 1 .. d, i - 1 \in S PROVE i \in S
  <2>1. i - 1 \in Nat /\ (i - 1) + 1 = i /\ i \in 0 .. d /\ e + (i - 1) \in Nat /\ (e + (i - 1)) + 1 = e + i
    OBVIOUS
  <2>2. pow2[i] = 2 * pow2[i - 1] /\ pow2[i - 1] \in Nat /\ pow2[e] \in Nat
    BY <2>1, PowersAre
  <2>3. pow2[e + i] = 2 * pow2[e + (i - 1)]
    BY <2>1, PowersAre
  <2>4. pow2[e + (i - 1)] = pow2[e] * pow2[i - 1]
    BY <1>2
  <2>5. \A a, b \in Nat : 2 * (a * b) = a * (2 * b)
    OBVIOUS
  <2> QED BY <2>1, <2>2, <2>3, <2>4, <2>5
<1>3. d \in S
  <2> HIDE DEF S
  <2>1. 0 .. d \subseteq S
    BY <1>1, <1>2, UpTo
  <2> QED BY <2>1
<1> QED BY <1>3

\* Of two powers of two, the larger is a multiple of the smaller.
LEMMA PowersDivide ==
  ASSUME NEW e \in Nat, NEW k \in Nat, pow2[e] <= pow2[k]
  PROVE  \E c \in Nat : pow2[k] = pow2[e] * c
<1>1. CASE e <= k
  <2>1. k - e \in Nat /\ e + (k - e) = k
    BY <1>1
  <2>2. pow2[e + (k - e)] = pow2[e] * pow2[k - e] /\ pow2[k - e] \in Nat
    BY <2>1, PowersMultiply, PowersAre
  <2> QED BY <2>1, <2>2
<1>2. CASE ~ (e <= k)
  <2>1. e - k \in Nat /\ k + (e - k) = e /\ e - k >= 1
    BY <1>2
  <2>2. pow2[k + (e - k)] = pow2[k] * pow2[e - k]
    BY <2>1, PowersMultiply
  <2>3. pow2[e - k] \in Nat /\ pow2[e - k] >= 2 /\ pow2[k] \in Nat /\ pow2[k] >= 1
    <3>1. pow2[e - k] \in Nat /\ pow2[e - k] >= (e - k) + 1 /\ pow2[k] \in Nat /\ pow2[k] >= k + 1
      BY <2>1, PowersGrow
    <3> QED BY <2>1, <3>1
  <2>4. \A a, b \in Nat : a >= 1 /\ b >= 2 => a * b > a
    <3> SUFFICES ASSUME NEW a \in Nat, NEW b \in Nat, a >= 1, b >= 2 PROVE a * b > a
      OBVIOUS
    <3>1. a * (b - 1) >= a
      <4>1. b - 1 \in Int /\ b - 1 >= 1
        OBVIOUS
      <4> QED BY <4>1, Product
    <3>2. a * b = a * (b - 1) + a
      OBVIOUS
    <3>3. a * (b - 1) \in Int
      OBVIOUS
    <3> QED BY <3>1, <3>2, <3>3
  <2>5. pow2[e] > pow2[k] /\ pow2[e] \in Nat
    BY <2>1, <2>2, <2>3, <2>4, PowersAre
  <2> QED BY <2>3, <2>5
<1> QED BY <1>1, <1>2

LEMMA PowerOfTwoFromIs ==
  ASSUME NEW n \in Nat
  PROVE  \E k \in Nat : /\ PowerOfTwoFrom(n) = pow2[k] /\ pow2[k] >= n
                        /\ n >= 2 => k >= 1
<1> DEFINE K == {k \in 0 .. n : pow2[k] >= n}
<1>1. n \in K
  <2>1. pow2[n] \in Nat /\ pow2[n] >= n + 1
    BY PowersGrow
  <2> QED BY <2>1
<1>2. K \subseteq Nat /\ K # {}
  BY <1>1
<1>3. Min(K) \in K
  <2> HIDE DEF K
  <2> QED BY <1>2, MinIs
<1>4. PowerOfTwoFrom(n) = pow2[Min(K)]
  BY DEF PowerOfTwoFrom
<1> DEFINE k == Min(K)
<1>5. k \in Nat /\ pow2[k] >= n
  BY <1>3
<1> HIDE DEF k
<1>6. n >= 2 => k # 0
  BY <1>5, PowersAre
<1> QED BY <1>4, <1>5, <1>6 DEF k

-----------------------------------------------------------------------------
(* Spectra                                                                  *)

\* N samples are transformed, and half as many bins and one more come out,
\* fs / N apart, for n + 1 samples over the span.
IsBuffer(N, k) == k \in Nat /\ N = pow2[k + 1]

BinsAre(r, n, span, k) ==
  /\ Count(r) = pow2[k] + 1
  /\ \A j \in 1 .. Count(r) :
       r.ts[j] = Round((j - 1) * n * Second * Second, span * pow2[k + 1])

\* The bins of a spectrum of a buffer of pow2[k + 1] samples.
LEMMA SpectrumOfIs ==
  ASSUME NEW s, IsSignal(s), Count(s) # 0, NEW n \in Nat, NEW span \in Nat, span # 0,
         NEW k, NEW N, IsBuffer(N, k), NEW dep \in SUBSET Int
  PROVE  LET r == SpectrumOf(s, n, span, N, dep)
         IN  /\ r.domain = "Frequency" /\ r.start = s.ts[1] /\ BinsAre(r, n, span, k)
             /\ TicksApart(r) => IsSignal(r)
<1> DEFINE r == SpectrumOf(s, n, span, N, dep)
           c == pow2[k] + 1
           T == [j \in 1 .. c |-> Round((j - 1) * n * Second * Second, span * N)]
           D == [j \in 1 .. c |-> dep]
<1>1. /\ k \in Nat /\ pow2[k] \in Nat /\ N = 2 * pow2[k] /\ pow2[k] >= k + 1
      /\ N = pow2[k + 1]
  BY PowersAre, PowersGrow DEF IsBuffer
<1>2. (N \div 2) + 1 = c
  <2>1. (2 * pow2[k]) \div 2 = pow2[k]
    BY <1>1, QuotientExact
  <2> QED BY <1>1, <2>1
<1>3. r = makeDoubleSignal(T, D, "Frequency", s.ts[1])
  <2> HIDE DEF c
  <2> QED BY <1>2 DEF SpectrumOf
<1>4. c \in Nat /\ span * N \in Nat /\ span * N # 0
  <2>1. N \in Nat /\ N >= 1
    BY <1>1
  <2>2. span * N >= span
    BY <2>1, Product
  <2>3. span * N \in Int
    BY <2>1
  <2> QED BY <1>1, <2>2, <2>3
<1> DEFINE q == span * N
<1>5. ASSUME NEW j \in 1 .. c PROVE Round((j - 1) * n * Second * Second, q) \in Nat
  <2>1. Second \in Nat
    BY FunctionsAssumption
  <2>2. j - 1 \in Nat
    BY <1>4
  <2>3. \A a, b \in Nat : a * b \in Nat
    OBVIOUS
  <2>4. (j - 1) * n * Second * Second \in Nat
    BY <2>1, <2>2, <2>3
  <2> HIDE DEF q
  <2> QED BY <1>4, <2>4, RoundIs DEF q
<1> HIDE DEF q, c
<1>6. T \in [1 .. c -> Int] /\ D \in Deps(c)
  BY <1>5 DEF Deps, q
<1>7. r.ts = T /\ Count(r) = c
  <2>1. r.ts = T
    BY <1>3 DEF makeDoubleSignal
  <2> HIDE DEF T, r
  <2>2. T \in Seq(Int) /\ DOMAIN T = 1 .. c
    BY <1>4, <1>6, IsASeq
  <2>3. Len(T) = c
    BY <1>4, <2>2, LenProperties
  <2> QED BY <2>1, <2>3 DEF Count
<1>8. ASSUME TicksApart(r) PROVE T \in Times(c)
  <2>1. \A i \in 1 .. Count(r) - 1 : r.ts[i] < r.ts[i + 1]
    BY <1>8 DEF TicksApart
  <2> HIDE DEF T, r
  <2> QED BY <1>6, <1>7, <2>1 DEF Times
<1>9. "Frequency" \in Domains /\ s.ts[1] \in Int
  BY SpanIs DEF Domains
<1>10. \A j \in 1 .. c : T[j] = Round((j - 1) * n * Second * Second, span * N)
  OBVIOUS
<1> HIDE DEF T, D, r
<1>11. r.domain = "Frequency" /\ r.start = s.ts[1] /\ (TicksApart(r) => IsSignal(r))
  <2>1. TicksApart(r) => IsSignal(r)
    BY <1>3, <1>4, <1>6, <1>8, <1>9, Made
  <2>2. r.domain = "Frequency" /\ r.start = s.ts[1]
    BY <1>3 DEF makeDoubleSignal
  <2> QED BY <2>1, <2>2
<1>12. BinsAre(r, n, span, k)
  BY <1>1, <1>7, <1>10 DEF BinsAre, c
<1> QED BY <1>11, <1>12 DEF r

LEMMA SpectrumIs ==
  ASSUME NEW s, IsSignal(s), TransformAccepts(s)
  PROVE  LET r == Spectrum(s)
         IN  /\ IsSpectrum(r) /\ r.start = s.ts[1] /\ (TicksApart(r) => IsSignal(r))
             /\ \E k : IsBuffer(PowerOfTwoFrom(Count(s)), k) /\ BinsAre(r, Count(s) - 1, Span(s), k)
<1> DEFINE N == PowerOfTwoFrom(Count(s))
           n == Count(s) - 1
           r == SpectrumOf(s, n, Span(s), N, EveryDep(s))
<1>1. Count(s) \in Nat /\ Count(s) >= 2 /\ n \in Nat /\ Count(s) # 0
  BY SignalIs DEF TransformAccepts
<1>2. PICK i \in Nat : N = pow2[i] /\ i >= 1
  BY <1>1, PowerOfTwoFromIs
<1> DEFINE k == i - 1
<1>3. IsBuffer(N, k)
  BY <1>2 DEF IsBuffer
<1>4. Span(s) \in Nat /\ Span(s) # 0 /\ EveryDep(s) \in SUBSET Int
  BY <1>1, SpanIs, EveryDepIs DEF TransformAccepts
<1>5. Spectrum(s) = r
  BY DEF Spectrum
<1> HIDE DEF N, n, k
<1>6. r.start = s.ts[1] /\ BinsAre(r, n, Span(s), k) /\ (TicksApart(r) => IsSignal(r))
  BY <1>1, <1>3, <1>4, <1>5, SpectrumOfIs
<1> HIDE DEF r
<1>7. IsSpectrum(r)
  BY <1>3, <1>6 DEF IsSpectrum, BinsAre, IsBuffer
<1>8. IsBuffer(PowerOfTwoFrom(Count(s)), k) /\ BinsAre(r, Count(s) - 1, Span(s), k)
  BY <1>3, <1>6 DEF N, n
<1> QED BY <1>3, <1>5, <1>6, <1>7, <1>8

LEMMA WelchIs ==
  ASSUME NEW s, IsSignal(s), NEW here, here \subseteq 1 .. Count(s), NEW minLen,
         LongRuns(GateRuns(s, here, minLen)) # <<>>,
         TicksApart(Welch(s, GateRuns(s, here, minLen)))
  PROVE  LET r == Welch(s, GateRuns(s, here, minLen))
         IN  IsSignal(r) /\ r.domain = "Frequency" /\ IsSpectrum(r)
<1> DEFINE runs == GateRuns(s, here, minLen)
           idx == {k \in DOMAIN runs : runs[k][2] - runs[k][1] >= 2}
           long == LongRuns(runs)
           first == long[1][1]
           L == {q[2] - q[1] : q \in ToSet(runs)}
           N == PowerOfTwoFrom(Max(L))
           dep == UNION {s.dep[i] : i \in InRuns(long)}
           n == Count(s)
<1>1. n \in Nat /\ s.dep \in [1 .. n -> SUBSET Int]
  BY SignalIs
<1>2. /\ runs \in Seq(Pairs)
      /\ ToSet(runs) \subseteq MaximalRuns(here, n + 1)
  BY GateRunsAre
<1>3. long = Picked(runs, idx)
  BY DEF LongRuns
<1> HIDE DEF runs
<1>4. /\ long \in Seq(Pairs) /\ ToSet(long) = {runs[k] : k \in idx \cap DOMAIN runs}
  <2> HIDE DEF idx
  <2> QED BY <1>2, <1>3, ToSetPicked
<1>5. \A q \in ToSet(runs) : q \in Pairs /\ 1 <= q[1] /\ q[1] < q[2] /\ q[2] <= n + 1
  BY <1>2 DEF MaximalRuns
<1>6. \A q \in ToSet(long) : q \in ToSet(runs) /\ q[2] - q[1] >= 2
  BY <1>4 DEF ToSet
<1> HIDE DEF idx, long
<1>7. long # <<>> /\ long[1] \in ToSet(long)
  <2>1. long # <<>>
    BY DEF runs, long
  <2>2. 1 \in DOMAIN long
    BY <1>4, <2>1, EmptySeq, LenProperties
  <2> QED BY <2>1, <2>2 DEF ToSet
<1>8. /\ long[1] \in ToSet(runs) /\ long[1][2] - long[1][1] >= 2
      /\ long[1] \in Pairs /\ 1 <= long[1][1] /\ long[1][2] <= n + 1
  BY <1>5, <1>6, <1>7
<1>9. first \in 1 .. n /\ first + 1 \in 1 .. n /\ first < first + 1
  <2>1. long[1][1] \in Nat /\ long[1][2] \in Nat
    BY <1>8 DEF Pairs
  <2> QED BY <1>1, <1>8, <2>1
<1>10. s.ts[first + 1] - s.ts[first] \in Nat /\ s.ts[first + 1] - s.ts[first] # 0
  BY <1>9, SignalLater
<1>11. L \subseteq 0 .. n + 1 /\ L # {} /\ \E x \in L : x >= 2
  <2>1. ASSUME NEW q \in ToSet(runs) PROVE q[2] - q[1] \in 0 .. n + 1
    <3>1. q[1] \in Nat /\ q[2] \in Nat /\ q[1] < q[2] /\ q[2] <= n + 1
      BY <1>5 DEF Pairs
    <3> QED BY <1>1, <3>1
  <2>2. long[1][2] - long[1][1] \in L
    BY <1>8
  <2> QED BY <1>8, <2>1, <2>2
<1>12. Max(L) \in Nat /\ Max(L) >= 2
  <2> HIDE DEF L
  <2>1. n + 1 \in Nat
    BY <1>1
  <2>2. Max(L) \in L /\ \A y \in L : y <= Max(L)
    BY <1>11, <2>1, MaxIs
  <2>3. PICK x \in L : x >= 2
    BY <1>11
  <2>4. Max(L) \in 0 .. n + 1 /\ x \in 0 .. n + 1 /\ x <= Max(L)
    BY <1>11, <2>2, <2>3
  <2> QED BY <2>1, <2>3, <2>4
<1>13. PICK i \in Nat : N = pow2[i] /\ i >= 1
  <2> HIDE DEF L
  <2> QED BY <1>12, PowerOfTwoFromIs
<1> DEFINE k == i - 1
<1>14. IsBuffer(N, k)
  BY <1>13 DEF IsBuffer
<1>15. dep \in SUBSET Int
  <2>1. ASSUME NEW i_1 \in InRuns(long) PROVE s.dep[i_1] \subseteq Int
    <3>1. PICK q \in ToSet(long) : i_1 \in q[1] .. q[2] - 1
      BY DEF InRuns
    <3>2. q[1] \in Nat /\ q[2] \in Nat /\ 1 <= q[1] /\ q[2] <= n + 1
      BY <1>5, <1>6 DEF Pairs
    <3>3. i_1 \in 1 .. n
      BY <1>1, <3>1, <3>2
    <3> QED BY <1>1, <3>3
  <2> QED BY <2>1
<1> DEFINE r == SpectrumOf(s, 1, s.ts[first + 1] - s.ts[first], N, dep)
<1>16. Welch(s, runs) = r
  BY DEF Welch, long
<1>17. TicksApart(r)
  BY <1>16 DEF runs
<1>18. Count(s) # 0
  BY <1>9
<1> HIDE DEF N, k, dep, first
<1>19. IsSignal(r) /\ r.domain = "Frequency" /\ \E n_1, d : BinsAre(r, n_1, d, k)
  <2> DEFINE d == s.ts[first + 1] - s.ts[first]
  <2>1. d \in Nat /\ d # 0
    BY <1>10
  <2>2. r = SpectrumOf(s, 1, d, N, dep) /\ TicksApart(SpectrumOf(s, 1, d, N, dep))
    BY <1>17
  <2> HIDE DEF d, r
  <2> QED BY <1>14, <1>15, <1>18, <2>1, <2>2, SpectrumOfIs
<1> HIDE DEF r
<1>20. IsSpectrum(r)
  BY <1>14, <1>19 DEF IsSpectrum, BinsAre, IsBuffer
<1> QED BY <1>16, <1>19, <1>20 DEF runs

\* Back from a spectrum: a signal on the time axis.
LEMMA RevertIs ==
  ASSUME NEW s, IsSignal(s), Count(s) >= 2, TicksApart(RevertFFT(s))
  PROVE  LET r == RevertFFT(s)
         IN  IsSignal(r) /\ r.domain = "Time"
<1> DEFINE N == RevertLength(Count(s))
           df == IF s.ts[2] > s.ts[1] THEN s.ts[2] - s.ts[1] ELSE Second
           t0 == IF s.start # kNoSourceStart THEN s.start ELSE 0
           T == [i \in 1 .. N |-> t0 + Round((i - 1) * Second * Second, N * df)]
           D == [i \in 1 .. N |-> EveryDep(s)]
           r == RevertFFT(s)
<1>1. r = makeDoubleSignal(T, D, "Time", kNoSourceStart)
  BY DEF RevertFFT
<1>2. Count(s) \in Nat /\ s.start \in Int /\ EveryDep(s) \in SUBSET Int
  BY SignalIs, EveryDepIs
<1>3. N \in Nat /\ N # 0
  BY <1>2 DEF RevertLength
<1>4. df \in Nat /\ df # 0
  <2>1. 1 \in 1 .. Count(s) /\ 2 \in 1 .. Count(s)
    BY <1>2
  <2>2. s.ts[1] < s.ts[2] /\ s.ts[1] \in Int /\ s.ts[2] \in Int
    BY <2>1, SignalLater
  <2> QED BY <2>2
<1>5. t0 \in Int
  BY <1>2
<1> HIDE DEF N, df, t0
<1>6. N * df \in Nat /\ N * df # 0
  <2>1. N * df >= N
    BY <1>3, <1>4, Product
  <2>2. N * df \in Int
    BY <1>3, <1>4
  <2> QED BY <1>3, <2>1, <2>2
<1>7. T \in [1 .. N -> Int]
  <2> SUFFICES ASSUME NEW i \in 1 .. N PROVE t0 + Round((i - 1) * Second * Second, N * df) \in Int
    OBVIOUS
  <2>1. Second \in Nat
    BY FunctionsAssumption
  <2>2. i - 1 \in Nat
    BY <1>3
  <2>3. \A a, b \in Nat : a * b \in Nat
    OBVIOUS
  <2>4. (i - 1) * Second * Second \in Nat
    BY <2>1, <2>2, <2>3
  <2>5. Round((i - 1) * Second * Second, N * df) \in Nat
    <3> DEFINE p == (i - 1) * Second * Second
               q == N * df
    <3> HIDE DEF p, q
    <3>1. Round(p, q) \in Nat
      BY <1>6, <2>4, RoundIs DEF p, q
    <3> QED BY <3>1 DEF p, q
  <2> QED BY <1>5, <2>5
<1>8. D \in Deps(N)
  BY <1>2 DEF Deps
<1>9. r.ts = T /\ Count(r) = N
  <2>1. r.ts = T
    BY <1>1 DEF makeDoubleSignal
  <2>2. T \in Seq(Int) /\ DOMAIN T = 1 .. N
    BY <1>3, <1>7, IsASeq
  <2> HIDE DEF T, r
  <2>3. Len(T) = N
    BY <1>3, <2>2, LenProperties
  <2> QED BY <2>1, <2>3 DEF Count
<1>10. T \in Times(N)
  <2>1. \A i \in 1 .. Count(r) - 1 : r.ts[i] < r.ts[i + 1]
    BY DEF TicksApart
  <2> HIDE DEF T, r
  <2> QED BY <1>7, <1>9, <2>1 DEF Times
<1>11. "Time" \in Domains /\ kNoSourceStart \in Int
  BY FunctionsAssumption DEF Domains
<1> HIDE DEF T, D, r
<1>12. IsSignal(r) /\ r.domain = "Time"
  BY <1>1, <1>3, <1>8, <1>10, <1>11, Made
<1> QED BY <1>12 DEF r

LEMMA TransformStep ==
  ASSUME IInv, Transform
  PROVE  IInv'
<1> DEFINE r == Spectrum(cur)
           gives == {"axis", "causal"}
<1>1. IsSignal(r) /\ IsSpectrum(r)
  BY CurIs, SpectrumIs DEF Transform
<1>2. Call(r, gives)
  BY DEF Transform
<1>3. gives \subseteq Guarantees /\ "axis" \in gives /\ "causal" \in gives
  BY DEF Guarantees
<1> HIDE DEF r, gives
<1>4. Respects(r, gives)
  BY <1>1, <1>3 DEF Respects
<1> QED BY <1>2, <1>3, <1>4, GridStep

LEMMA AtIs ==
  ASSUME NEW E, IsSignal(cur)
  PROVE  At(E) \subseteq 1 .. Count(cur)
  BY SignalIs DEF At

LEMMA TransformEventsStep ==
  ASSUME IInv, TransformEvents
  PROVE  IInv'
<1>1. PICK E \in Events, minLen \in Scalars :
        /\ LongRuns(GateRuns(cur, At(E), minLen)) # <<>>
        /\ TicksApart(Welch(cur, GateRuns(cur, At(E), minLen)))
        /\ Call(Welch(cur, GateRuns(cur, At(E), minLen)), {"axis", "causal"})
  BY DEF TransformEvents
<1> DEFINE r == Welch(cur, GateRuns(cur, At(E), minLen))
           gives == {"axis", "causal"}
<1>2. IsSignal(r) /\ IsSpectrum(r)
  <2> DEFINE here == At(E)
  <2>1. IsSignal(cur) /\ here \subseteq 1 .. Count(cur)
    BY CurIs, AtIs
  <2> HIDE DEF here
  <2> QED BY <1>1, <2>1, WelchIs DEF here
<1>3. Call(r, gives)
  BY <1>1
<1>4. gives \subseteq Guarantees /\ "axis" \in gives /\ "causal" \in gives
  BY DEF Guarantees
<1> HIDE DEF r, gives
<1>5. Respects(r, gives)
  BY <1>2, <1>4 DEF Respects
<1> QED BY <1>3, <1>4, <1>5, GridStep

LEMMA RevertStep ==
  ASSUME IInv, Revert
  PROVE  IInv'
<1> DEFINE r == RevertFFT(cur)
           gives == {"axis", "origin", "causal", "grid"}
<1>1. IsSignal(r) /\ r.domain = "Time"
  BY CurIs, RevertIs DEF Revert
<1>2. Call(r, gives)
  BY DEF Revert
<1>3. gives \subseteq Guarantees /\ "axis" \in gives /\ "causal" \in gives
  BY DEF Guarantees
<1> HIDE DEF r, gives
<1>4. Respects(r, gives)
  BY <1>1, <1>3 DEF Respects
<1> QED BY <1>2, <1>3, <1>4, GridStep

-----------------------------------------------------------------------------
(* Every behaviour                                                          *)

LEMMA InitInv ==
  ASSUME Init
  PROVE  IInv
<1>1. PICK ts \in Sources : src = Recorded(ts)
  BY DEF Init
<1>2. cur = src /\ win = {} /\ lost = {} /\ calls = 0
  BY DEF Init
<1>3. /\ IsSignal(cur) /\ cur.domain = "Time" /\ Causal(cur) /\ cur.ts = ts
      /\ (ts # <<>> => displayOriginNs(cur) = ts[1])
  BY <1>1, <1>2, RecordedIs
<1>4. SliceSelectsWhatIsShown
  BY <1>2, <1>3 DEF SliceSelectsWhatIsShown
<1> QED BY <1>1, <1>2, <1>3, <1>4 DEF IInv, Guarantees

LEMMA NextInv ==
  ASSUME IInv, [Next]_vars
  PROVE  IInv'
<1>1. CASE UNCHANGED vars
  BY <1>1 DEF IInv, SliceSelectsWhatIsShown, vars
<1>2. ASSUME Next PROVE IInv'
  BY <1>2, ElementwiseStep, ApplyFilterStep, IntegrateStep, DifferentiateStep, RollingWindowStep,
     ZeroPhaseStep, ReverseInTimeStep, FillForwardStep, ShiftStep, SliceWindowStep, MaskBandStep,
     RepeatSignalStep, GateSignalStep, BinaryOperatorStep, ResampleRateStep,
     ResampleReferenceStep, TransformStep, TransformEventsStep, EditBandStep, RevertStep,
     PeakHzStep DEF Next
<1> QED BY <1>1, <1>2

\* In every nesting of functions: the result is a well-formed signal whose
\* timestamps ascend, it depends on the past while only filters and their like
\* were used, a spectrum keeps the bins that revertFFT needs, and slices select
\* what is shown (IInv is inductive).
THEOREM FunctionsInvariant == Spec => []IInv
<1>1. Init => IInv
  BY InitInv
<1>2. IInv /\ [Next]_vars => IInv'
  BY NextInv
<1> QED BY <1>1, <1>2, PTL DEF Spec

\* Timestamps ascend whatever functions of the registry are nested, and no
\* sample of a chain of filters, integrals, windows and fills depends on a
\* later one.
THEOREM FunctionsRespectTime == Spec => []TimeRespected
<1>1. IInv => TimeRespected
  <2> SUFFICES ASSUME IInv PROVE TimeRespected
    OBVIOUS
  <2>1. IsSignal(cur) /\ (lost \cap {"axis", "causal"} = {} => Causal(cur))
    BY CurIs
  <2>2. \A i \in 1 .. Count(cur) - 1 : cur.ts[i] < cur.ts[i + 1]
    BY <2>1, SignalIs DEF Ascends
  <2> QED BY <2>1, <2>2 DEF TimeRespected, Causal
<1> QED BY <1>1, FunctionsInvariant, PTL

\* Slices of slices select the intersection of their windows, measured from
\* the origin of the source, and a derived signal is shown from that origin,
\* however many of its leading samples were dropped.
THEOREM SlicesSelectWhatIsShown == Spec => []SliceSelectsWhatIsShown
<1>1. IInv => SliceSelectsWhatIsShown
  BY DEF IInv
<1> QED BY <1>1, FunctionsInvariant, PTL

-----------------------------------------------------------------------------
(* The algorithms and their definitions                                     *)

LEMMA WindowsAreExact ==
  ASSUME IsSignal(cur)
  PROVE  WindowIsExact
<1> SUFFICES ASSUME NEW w \in Scalars, w > 0, NEW i \in 1 .. Count(cur)
             PROVE  Rolling(cur, w).dep[i] =
                      UNION {cur.dep[k] : k \in {j \in 1 .. i : cur.ts[i] - cur.ts[j] <= w}}
  BY DEF WindowIsExact
<1>1. w \in Nat
  BY FunctionsAssumption
<1> QED BY <1>1, WindowIs

LEMMA InterpolationIsExact ==
  ASSUME IsSignal(cur)
  PROVE  InterpolatesBetweenNeighbours
<1> SUFFICES ASSUME cur.ts # <<>>, NEW times \in Sources
             PROVE  LET expected == [j \in DOMAIN times |-> NeighboursAt(cur, times[j])]
                    IN  CursorWalk(cur, times) = expected /\ SearchEach(cur, times) = expected
  BY DEF InterpolatesBetweenNeighbours
<1> DEFINE m == Len(times)
<1>1. times \in Seq(Int) /\ \A i \in 1 .. m - 1 : times[i] < times[i + 1]
  BY FunctionsAssumption
<1>2. m \in Nat /\ times \in [1 .. m -> Int] /\ DOMAIN times = 1 .. m
  BY <1>1, LenProperties
<1>3. times \in Times(m) /\ Len(times) = m
  BY <1>1, <1>2 DEF Times
<1>4. Count(cur) # 0
  BY SignalIs
<1> HIDE DEF m
<1>5. CursorWalk(cur, times) = [j \in 1 .. m |-> NeighboursAt(cur, times[j])]
  BY <1>2, <1>3, <1>4, CursorWalkIs
<1>6. SearchEach(cur, times) = [j \in 1 .. m |-> NeighboursAt(cur, times[j])]
  BY <1>2, <1>4, SearchEachIs
<1> QED BY <1>2, <1>5, <1>6

LEMMA GateRunsAreMaximal ==
  ASSUME IsSignal(cur)
  PROVE  GateFindsMaximalRuns
<1> SUFFICES ASSUME NEW E \in Events, NEW minLen \in Scalars
             PROVE  ToSet(GateRuns(cur, At(E), minLen)) =
                      {<<r[1], r[2] + 1>> : r \in
                         {p \in (1 .. Count(cur)) \X (1 .. Count(cur)) :
                            /\ p[1] <= p[2] /\ p[1] .. p[2] \subseteq At(E)
                            /\ p[1] - 1 \notin At(E) /\ p[2] + 1 \notin At(E)
                            /\ minLen > 0 => cur.ts[p[2]] - cur.ts[p[1]] >= minLen}}
  BY DEF GateFindsMaximalRuns
<1> DEFINE here == At(E)
           n == Count(cur)
           G == ToSet(GateRuns(cur, here, minLen))
           P == {p \in (1 .. n) \X (1 .. n) :
                   /\ p[1] <= p[2] /\ p[1] .. p[2] \subseteq here
                   /\ p[1] - 1 \notin here /\ p[2] + 1 \notin here
                   /\ minLen > 0 => cur.ts[p[2]] - cur.ts[p[1]] >= minLen}
<1>1. here \subseteq 1 .. n /\ n \in Nat
  BY AtIs, SignalIs
<1> HIDE DEF here
<1>2. G = {r \in MaximalRuns(here, n + 1) :
             minLen > 0 => cur.ts[r[2] - 1] - cur.ts[r[1]] >= minLen}
  BY <1>1, GateRunsAre
<1> HIDE DEF n, G
<1>3. ASSUME NEW r \in G PROVE \E p \in P : r = <<p[1], p[2] + 1>>
  <2>1. /\ r \in Nat \X Nat /\ 1 <= r[1] /\ r[1] < r[2] /\ r[2] <= n + 1
        /\ r[1] .. (r[2] - 1) \subseteq here /\ r[1] - 1 \notin here /\ r[2] \notin here
        /\ minLen > 0 => cur.ts[r[2] - 1] - cur.ts[r[1]] >= minLen
    BY <1>2 DEF MaximalRuns, Pairs
  <2>2. /\ r[1] \in 1 .. n /\ r[2] - 1 \in 1 .. n /\ r[1] <= r[2] - 1 /\ (r[2] - 1) + 1 = r[2]
        /\ r = <<r[1], r[2]>>
    BY <1>1, <2>1
  <2> DEFINE p == <<r[1], r[2] - 1>>
  <2>3. p[1] = r[1] /\ p[2] = r[2] - 1 /\ p \in (1 .. n) \X (1 .. n)
    BY <2>2
  <2> HIDE DEF p
  <2>4. p \in P
    BY <2>1, <2>2, <2>3
  <2>5. r = <<p[1], p[2] + 1>>
    BY <2>2, <2>3
  <2> QED BY <2>4, <2>5
<1>4. ASSUME NEW p \in P PROVE <<p[1], p[2] + 1>> \in G
  <2>1. /\ p[1] \in 1 .. n /\ p[2] \in 1 .. n /\ p[1] <= p[2] /\ p[1] .. p[2] \subseteq here
        /\ p[1] - 1 \notin here /\ p[2] + 1 \notin here
        /\ minLen > 0 => cur.ts[p[2]] - cur.ts[p[1]] >= minLen
    OBVIOUS
  <2> DEFINE r == <<p[1], p[2] + 1>>
  <2>2. r[1] = p[1] /\ r[2] = p[2] + 1 /\ r \in Nat \X Nat
    BY <2>1
  <2> HIDE DEF r, P
  <2>3. /\ 1 <= r[1] /\ r[1] < r[2] /\ r[2] <= n + 1 /\ r[2] - 1 = p[2]
    BY <1>1, <2>1, <2>2
  <2>4. r[1] .. (r[2] - 1) \subseteq here /\ r[1] - 1 \notin here /\ r[2] \notin here
    BY <2>1, <2>2, <2>3
  <2>5. r \in MaximalRuns(here, n + 1)
    BY <2>2, <2>3, <2>4 DEF MaximalRuns, Pairs
  <2>6. r \in G
    BY <1>2, <2>1, <2>2, <2>3, <2>5
  <2> QED BY <2>6 DEF r
<1> HIDE DEF P
<1>5. G = {<<r[1], r[2] + 1>> : r \in P}
  BY <1>3, <1>4
<1> QED BY <1>5 DEF G, P, n, here

LEMMA ReversalUndoesItself ==
  ASSUME IsSignal(cur)
  PROVE  ReverseTwiceIsIdentity
<1> SUFFICES ASSUME cur.ts # <<>>
             PROVE  ReverseSignal(ReverseSignal(cur)) = [cur EXCEPT !.sym = TRUE]
  BY DEF ReverseTwiceIsIdentity
<1> DEFINE r == ReverseSignal(ReverseSignal(cur))
           q == [cur EXCEPT !.sym = TRUE]
<1>1. OnGrid(cur, r) /\ r.dep = cur.dep /\ r.start = cur.start /\ r.sym = TRUE
  BY ReverseTwice
<1> HIDE DEF r
<1>2. r \in Signals /\ r.ts = cur.ts /\ r.domain = cur.domain
  BY <1>1 DEF OnGrid, IsSignal
<1>3. cur \in Signals
  BY DEF IsSignal
<1>4. /\ q \in Signals /\ q.ts = cur.ts /\ q.dep = cur.dep /\ q.domain = cur.domain
      /\ q.start = cur.start /\ q.sym = TRUE
  BY <1>3 DEF Signals
<1> HIDE DEF q
<1>5. \A x, y \in Signals : (/\ x.ts = y.ts /\ x.dep = y.dep /\ x.domain = y.domain
                             /\ x.start = y.start /\ x.sym = y.sym) => x = y
  <2>1. \A x \in Signals : x = [ts |-> x.ts, dep |-> x.dep, domain |-> x.domain,
                                start |-> x.start, sym |-> x.sym]
    BY DEF Signals
  <2> QED BY <2>1
<1>6. r = q
  BY <1>1, <1>2, <1>4, <1>5
<1> QED BY <1>6 DEF r, q

-----------------------------------------------------------------------------
(* A round trip through a spectrum                                          *)

LEMMA RoundExact ==
  ASSUME NEW q \in Nat, q # 0, NEW c \in Int
  PROVE  Round(q * c, q) = c
<1> DEFINE k == 2 * (q * c) + q
           d == 2 * q
<1>1. d \in Nat /\ d # 0 /\ k \in Int /\ k = d * c + q /\ q < d
  <2>1. q * c \in Int /\ (2 * q) * c = 2 * (q * c)
    OBVIOUS
  <2> QED BY <2>1
<1> HIDE DEF k, d
<1>2. k \div d = c
  BY <1>1, Quotient
<1> QED BY <1>2 DEF k, d, Round

LEMMA Cancel ==
  ASSUME NEW a \in Nat, a # 0, NEW x \in Int, NEW y \in Int, a * x = a * y
  PROVE  x = y
<1>1. \A u, v \in Int : u < v => a * u < a * v
  <2> SUFFICES ASSUME NEW u \in Int, NEW v \in Int, u < v PROVE a * u < a * v
    OBVIOUS
  <2>1. a * (v - u) >= a
    <3>1. v - u \in Int /\ v - u >= 1
      OBVIOUS
    <3> QED BY <3>1, Product
  <2>2. a * (v - u) = a * v - a * u
    OBVIOUS
  <2>3. a * u \in Int /\ a * v \in Int
    OBVIOUS
  <2> QED BY <2>1, <2>2, <2>3
<1>2. ~ (x < y) /\ ~ (y < x)
  <2>1. a * x \in Int /\ a * y \in Int
    OBVIOUS
  <2> QED BY <1>1, <2>1
<1> QED BY <1>2

\* Spacings that are all the same fraction of the span are all the same.
LEMMA EvenSpacing ==
  ASSUME NEW s, IsSignal(s), Count(s) >= 2,
         \A i \in 1 .. Count(s) - 1 : (s.ts[i + 1] - s.ts[i]) * (Count(s) - 1) = Span(s)
  PROVE  \E d \in Nat : /\ d * (Count(s) - 1) = Span(s)
                        /\ \A i \in 1 .. Count(s) : s.ts[i] = s.ts[1] + (i - 1) * d
<1> DEFINE N == Count(s)
           n == N - 1
           d == s.ts[2] - s.ts[1]
<1>1. N \in Nat /\ N >= 2 /\ n \in Nat /\ n # 0 /\ s.ts \in [1 .. N -> Int] /\ 1 \in 1 .. n /\ 2 \in 1 .. N
  BY SignalIs
<1>2. d \in Nat
  <2>1. 1 \in 1 .. N
    BY <1>1
  <2> QED BY <1>1, <2>1, SignalLater
<1>3. ASSUME NEW i \in 1 .. n PROVE s.ts[i + 1] - s.ts[i] = d /\ s.ts[i] \in Int /\ s.ts[i + 1] \in Int
  <2> DEFINE e == s.ts[i + 1] - s.ts[i]
  <2>1. i \in 1 .. N /\ i + 1 \in 1 .. N
    BY <1>1
  <2>2. s.ts[i] \in Int /\ s.ts[i + 1] \in Int /\ e \in Int
    BY <1>1, <2>1
  <2>3. e * n = Span(s)
    OBVIOUS
  <2>4. d * n = Span(s)
    <3>1. 1 \in 1 .. Count(s) - 1 /\ 1 + 1 = 2
      BY <1>1
    <3>2. (s.ts[1 + 1] - s.ts[1]) * (Count(s) - 1) = Span(s)
      BY <3>1
    <3> QED BY <3>1, <3>2
  <2> HIDE DEF d, e, n
  <2>5. n * e = n * d
    <3>1. e * n = n * e /\ d * n = n * d
      BY <1>1, <1>2, <2>2
    <3> QED BY <2>3, <2>4, <3>1
  <2>6. e = d
    BY <1>1, <1>2, <2>2, <2>5, Cancel
  <2> QED BY <2>2, <2>6 DEF e
<1>4. d * n = Span(s)
  <2>1. 1 \in 1 .. Count(s) - 1 /\ 1 + 1 = 2
    BY <1>1
  <2>2. (s.ts[1 + 1] - s.ts[1]) * (Count(s) - 1) = Span(s)
    BY <2>1
  <2> QED BY <2>1, <2>2
<1>5. s.ts[1] \in Int
  BY <1>1, <1>3
<1> HIDE DEF d
<1>6. \A i \in 1 .. N : s.ts[i] = s.ts[1] + (i - 1) * d
  <2> DEFINE S == {k \in 0 .. n : s.ts[k + 1] = s.ts[1] + k * d}
  <2>1. 0 \in S
    <3>1. 0 * d = 0
      BY <1>2
    <3> QED BY <1>1, <1>5, <3>1
  <2>2. ASSUME NEW k \in 1 .. n, k - 1 \in S PROVE k \in S
    <3>1. s.ts[k + 1] - s.ts[k] = d /\ s.ts[k] \in Int /\ s.ts[k + 1] \in Int
      BY <1>3
    <3>2. s.ts[(k - 1) + 1] = s.ts[1] + (k - 1) * d /\ (k - 1) + 1 = k
      BY <2>2
    <3>3. k * d = (k - 1) * d + d /\ (k - 1) * d \in Int
      BY <1>2
    <3>4. s.ts[k + 1] = s.ts[1] + k * d
      BY <1>2, <1>5, <3>1, <3>2, <3>3
    <3> QED BY <3>4
  <2>3. 0 .. n \subseteq S
    <3> HIDE DEF S, n
    <3> QED BY <1>1, <2>1, <2>2, UpTo
  <2>4. ASSUME NEW i \in 1 .. N PROVE s.ts[i] = s.ts[1] + (i - 1) * d
    <3>1. i - 1 \in 0 .. n /\ (i - 1) + 1 = i
      BY <1>1
    <3>2. s.ts[(i - 1) + 1] = s.ts[1] + (i - 1) * d
      BY <2>3, <3>1
    <3> QED BY <3>1, <3>2
  <2> QED BY <2>4
<1> QED BY <1>2, <1>4, <1>6

LEMMA RoundTripIs ==
  ASSUME IsSignal(cur)
  PROVE  RoundTripRestoresGrid
<1> SUFFICES ASSUME Count(cur) >= 2, Count(cur) = PowerOfTwoFrom(Count(cur)),
                    cur.ts[1] # kNoSourceStart,
                    \A i \in 1 .. Count(cur) - 1 :
                      (cur.ts[i + 1] - cur.ts[i]) * (Count(cur) - 1) = Span(cur),
                    ((Count(cur) - 1) * Second * Second) % (Span(cur) * Count(cur)) = 0
             PROVE  RevertFFT(Spectrum(cur)).ts = cur.ts
  BY DEF RoundTripRestoresGrid
<1> DEFINE N == Count(cur)
           n == N - 1
           L == Span(cur)
           q == L * N
           r == Spectrum(cur)
           P == n * Second * Second
           D == P \div q
<1>1. /\ N \in Nat /\ N >= 2 /\ n \in Nat /\ n # 0 /\ n >= 1
      /\ cur.ts \in [1 .. N -> Int] /\ L \in Nat /\ L >= 1 /\ cur.ts[1] \in Int
  BY SignalIs, SpanIs
<1>2. Second \in Nat /\ Second >= 1
  BY FunctionsAssumption
<1>3. PICK d \in Nat : d * n = L /\ \A i \in 1 .. N : cur.ts[i] = cur.ts[1] + (i - 1) * d
  BY EvenSpacing
<1>4. TransformAccepts(cur)
  BY <1>1 DEF TransformAccepts
<1>5. PICK k : IsBuffer(PowerOfTwoFrom(N), k) /\ BinsAre(r, n, L, k)
  BY <1>4, SpectrumIs
<1>6. r.start = cur.ts[1]
  BY <1>4, SpectrumIs
<1>7. /\ N = pow2[k + 1] /\ N = 2 * pow2[k] /\ pow2[k] \in Nat /\ Count(r) = pow2[k] + 1
      /\ \A j \in 1 .. Count(r) : r.ts[j] = Round((j - 1) * n * Second * Second, L * pow2[k + 1])
  BY <1>5, PowersAre DEF IsBuffer, BinsAre
<1>8. RevertLength(Count(r)) = N /\ 1 \in 1 .. Count(r) /\ 2 \in 1 .. Count(r)
  <2>1. N = 2 * pow2[k] /\ pow2[k] \in Nat /\ Count(r) = pow2[k] + 1
    BY <1>7
  <2> DEFINE c == pow2[k]
  <2>2. N \in Nat /\ N >= 2 /\ N = 2 * c /\ c \in Nat /\ Count(r) = c + 1
    BY <1>1, <2>1
  <2> HIDE DEF r, N, c
  <2>3. RevertLength(Count(r)) = N
    BY <2>2 DEF RevertLength
  <2>4. 1 \in 1 .. Count(r) /\ 2 \in 1 .. Count(r)
    BY <2>2
  <2> QED BY <2>3, <2>4
<1>9. q \in Nat /\ q # 0 /\ P \in Nat /\ P # 0
  <2>1. \A a, b \in Nat : a * b \in Nat /\ (b >= 1 => a * b >= a)
    BY Product
  <2>2. q \in Nat /\ q >= L
    BY <1>1, <2>1
  <2>3. n * Second \in Nat /\ n * Second >= n
    BY <1>1, <1>2, <2>1
  <2>4. P \in Nat /\ P >= n * Second
    BY <1>2, <2>1, <2>3
  <2> QED BY <1>1, <2>2, <2>3, <2>4
<1>10. D \in Nat /\ D # 0 /\ P = q * D
  <2>1. P % q = 0
    OBVIOUS
  <2> HIDE DEF P, q
  <2>2. P \div q \in Nat /\ P = q * (P \div q) + (P % q)
    BY <1>9, QuotientOf
  <2> DEFINE c == P \div q
  <2>3. c \in Nat /\ P = q * c + 0
    BY <2>1, <2>2
  <2> HIDE DEF c
  <2>4. q * c \in Int /\ q * 0 = 0
    BY <1>9, <2>3
  <2>5. c # 0 /\ P = q * c
    BY <1>9, <2>3, <2>4
  <2> QED BY <2>3, <2>5 DEF c
<1> HIDE DEF D, r
<1>11. r.ts[1] = 0 /\ r.ts[2] = D
  <2>1. r.ts[1] = Round((1 - 1) * n * Second * Second, q) /\ r.ts[2] = Round((2 - 1) * n * Second * Second, q)
    BY <1>7, <1>8
  <2>2. (2 - 1) * n * Second * Second = P
    BY <1>1, <1>2
  <2>3. (1 - 1) * n * Second * Second = q * 0
    BY <1>1, <1>2, <1>9
  <2> HIDE DEF q, P
  <2>4. Round(q * D, q) = D /\ Round(q * 0, q) = 0
    BY <1>9, <1>10, RoundExact
  <2> QED BY <1>10, <2>1, <2>2, <2>3, <2>4
<1>12. RevertFFT(r).ts = [i \in 1 .. N |-> cur.ts[1] + Round((i - 1) * Second * Second, N * D)]
  <2>1. r.ts[2] > r.ts[1] /\ r.ts[2] - r.ts[1] = D
    BY <1>10, <1>11
  <2> QED BY <1>6, <1>8, <2>1 DEF RevertFFT, makeDoubleSignal
<1>13. Second * Second = (N * D) * d
  <2>1. n * Second * Second = n * (Second * Second)
    BY <1>1, <1>2
  <2>2. q * D = n * ((N * D) * d)
    <3>1. \A a, b, c, e \in Nat : ((a * b) * c) * e = b * ((c * e) * a)
      OBVIOUS
    <3>2. q * D = ((d * n) * N) * D
      BY <1>3
    <3> HIDE DEF n, q, N
    <3> QED BY <1>1, <1>3, <1>10, <3>1, <3>2
  <2>3. n * (Second * Second) = n * ((N * D) * d)
    BY <1>10, <2>1, <2>2
  <2>4. Second * Second \in Int /\ (N * D) * d \in Int
    BY <1>1, <1>2, <1>3, <1>10
  <2> DEFINE x == Second * Second
             y == (N * D) * d
  <2> HIDE DEF x, y, n
  <2>5. x = y
    BY <1>1, <2>3, <2>4, Cancel DEF x, y
  <2> QED BY <2>5 DEF x, y
<1>14. ASSUME NEW i \in 1 .. N PROVE Round((i - 1) * Second * Second, N * D) = (i - 1) * d
  <2> DEFINE m == N * D
             c == (i - 1) * d
  <2>1. (i - 1) * Second * Second = m * c
    <3>1. i - 1 \in Int
      BY <1>1
    <3>2. (i - 1) * Second * Second = (i - 1) * (Second * Second)
      BY <1>2, <3>1
    <3>3. (i - 1) * ((N * D) * d) = (N * D) * ((i - 1) * d)
      BY <1>1, <1>3, <1>10, <3>1
    <3> QED BY <1>13, <3>2, <3>3
  <2>2. m \in Nat /\ m # 0 /\ c \in Int
    <3>1. m >= N
      <4>1. N \in Nat /\ D \in Int /\ D >= 1
        BY <1>1, <1>10
      <4> HIDE DEF N
      <4> QED BY <4>1, Product
    <3>2. m \in Int /\ c \in Int
      BY <1>1, <1>3, <1>10
    <3> QED BY <1>1, <3>1, <3>2
  <2> HIDE DEF m, c
  <2>3. Round(m * c, m) = c
    BY <2>2, RoundExact
  <2>4. Round((i - 1) * Second * Second, m) = c
    BY <2>1, <2>3
  <2> QED BY <2>4 DEF m, c
<1>15. \A i \in 1 .. N : cur.ts[1] + Round((i - 1) * Second * Second, N * D) = cur.ts[i]
  BY <1>3, <1>14
<1>16. RevertFFT(r).ts = cur.ts
  <2>1. cur.ts = [i \in 1 .. N |-> cur.ts[i]]
    BY <1>1
  <2> QED BY <1>12, <1>15, <2>1
<1> QED BY <1>16 DEF r

-----------------------------------------------------------------------------
(* The buffer of revertFFT, and all of the algorithms                       *)

LEMMA BufferIsEnough ==
  ASSUME IInv
  PROVE  RevertStaysInBuffer
<1> SUFFICES ASSUME IsSpectrum(cur) PROVE InBuffer(Count(cur))
  BY CurIs DEF RevertStaysInBuffer
<1>1. PICK k \in Nat : Count(cur) = pow2[k] + 1
  BY DEF IsSpectrum
<1> DEFINE N == RevertLength(Count(cur))
<1>2. N = pow2[k + 1] /\ N \in Nat /\ k + 1 \in Nat
  BY <1>1, PowersAre DEF RevertLength
<1> HIDE DEF N
<1>3. ASSUME NEW len \in {pow2[e] : e \in 1 .. N} \cap 2 .. N,
             NEW i \in {j \in 0 .. N - 1 : j % len = 0}, NEW m \in 0 .. (len \div 2) - 1
      PROVE  i + m + len \div 2 < N
  <2>1. PICK e \in 1 .. N : len = pow2[e]
    OBVIOUS
  <2>2. len \in Nat /\ len <= N /\ len # 0 /\ e \in Nat /\ e - 1 \in Nat /\ (e - 1) + 1 = e
    BY <1>2
  <2>3. PICK c \in Nat : N = len * c
    <3>1. pow2[e] <= pow2[k + 1]
      BY <1>2, <2>1, <2>2
    <3> QED BY <1>2, <2>1, <2>2, <3>1, PowersDivide
  <2> DEFINE h == len \div 2
  <2>4. len = 2 * h /\ h \in Nat
    <3>1. len = 2 * pow2[e - 1] /\ pow2[e - 1] \in Nat
      BY <2>1, <2>2, PowersAre
    <3>2. (2 * pow2[e - 1]) \div 2 = pow2[e - 1]
      BY <3>1, QuotientExact
    <3> QED BY <3>1, <3>2
  <2> DEFINE b == i \div len
  <2>5. b \in Nat /\ i = len * b /\ i \in Nat
    <3>1. i \in Nat /\ i % len = 0
      BY <1>2
    <3>2. b \in Nat /\ i = len * b + (i % len)
      BY <2>2, <3>1, QuotientOf
    <3> HIDE DEF b
    <3>3. len * b \in Int
      BY <2>2, <3>2
    <3> QED BY <3>1, <3>2, <3>3
  <2>6. i < N /\ m \in Nat /\ m < h
    BY <1>2, <2>4
  <2> HIDE DEF b, h
  <2>7. len * b + len <= len * c
    <3>1. c - b >= 1
      <4>1. CASE c <= b
        <5>1. len * (b - c) \in Nat
          <6>1. b - c \in Nat
            BY <2>5, <4>1
          <6> QED BY <2>2, <6>1
        <5>2. len * (b - c) = len * b - len * c /\ len * b \in Int /\ len * c \in Int
          BY <2>2, <2>3, <2>5
        <5> QED BY <2>3, <2>5, <2>6, <5>1, <5>2
      <4> QED BY <2>3, <2>5, <4>1
    <3>2. len * (c - b) >= len
      BY <2>2, <2>3, <2>5, <3>1, Product
    <3>3. len * (c - b) = len * c - len * b /\ len * b \in Int /\ len * c \in Int
      BY <2>2, <2>3, <2>5
    <3> QED BY <2>2, <3>2, <3>3
  <2>8. i + m + h < N
    BY <1>2, <2>3, <2>4, <2>5, <2>6, <2>7
  <2> QED BY <2>8 DEF h
<1>4. \A j \in ButterflyIndices(N) : j < N
  BY <1>3 DEF ButterflyIndices
<1> QED BY <1>4 DEF N, InBuffer

\* On every signal that a formula can produce: the rolling window holds exactly
\* the samples at most a window old, both interpolations use the neighbours of
\* the query time, a gate finds the maximal runs that last long enough,
\* reversing twice changes nothing, a round trip through a spectrum restores an
\* evenly spaced grid, and revertFFT's butterflies stay in its buffer.
THEOREM AlgorithmsAreCorrect == Spec => []AlgorithmsMatchDefinitions
<1>1. IInv => AlgorithmsMatchDefinitions
  <2> SUFFICES ASSUME IInv PROVE AlgorithmsMatchDefinitions
    OBVIOUS
  <2>1. IsSignal(cur)
    BY CurIs
  <2> QED BY <2>1, WindowsAreExact, InterpolationIsExact, GateRunsAreMaximal,
          ReversalUndoesItself, RoundTripIs, BufferIsEnough DEF AlgorithmsMatchDefinitions
<1> QED BY <1>1, FunctionsInvariant, PTL
=============================================================================
