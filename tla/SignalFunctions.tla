-------------------------- MODULE SignalFunctions --------------------------
(***************************************************************************)
(* The functions and operators of a formula: FunctionRegistry.cpp, and the  *)
(* arithmetic of the evaluator in FormulaEngine.cpp.  A behaviour is a      *)
(* nested formula, built from the inside out: each step applies one more   *)
(* function to the signal made so far.                                     *)
(*                                                                         *)
(* A signal keeps what decides where its samples are and are shown: the    *)
(* timestamps, the domain, the time origin, whether its sourceSymbol is     *)
(* set.  The value of a sample is abstracted to the times of the source    *)
(* samples that it is computed from (dep), which is what tells a right     *)
(* index, window or neighbour from a wrong one; the floating-point          *)
(* arithmetic itself is left out.  A call that the code refuses (it         *)
(* returns nullptr) is a step that is not enabled.                         *)
(***************************************************************************)
EXTENDS Integers, Sequences, SequencesExt, FiniteSets, FiniteSetsExt, Functions

CONSTANTS
  Sources,   \* recorded signals, as sequences of timestamps
  Second,    \* ticks per second: 10^9 in the code
  Scalars,   \* literals used for times, windows and counts
  Rates,     \* literals used for frequencies
  Events,    \* sets of times at which a gate is in range, or a value matches
  kNoSourceStart, \* no known origin: the least timestamp there is (INT64_MIN)
  kMaxOut,   \* Repeat: most samples of a result (50 000 000 in the code)
  MaxGrid,   \* bound: samples of a signal resampled to a rate
  MaxCalls   \* bound: functions nested in the formula

ASSUME FunctionsAssumption ==
  /\ Second \in Nat \ {0} /\ kMaxOut \in Nat \ {0} /\ MaxCalls \in Nat
  /\ Scalars \subseteq Int /\ Rates \subseteq Int /\ MaxGrid \in Nat
  /\ kNoSourceStart \in Int
  /\ \A s \in Sources : /\ s \in Seq(Int)
                        /\ \A i \in 1..Len(s) : kNoSourceStart < s[i]
                        /\ \A i \in 1..Len(s) - 1 : s[i] < s[i + 1]

VARIABLES
  src,    \* the signal the formula starts from
  cur,    \* the result so far
  win,    \* history: the windows of the slices so far
  lost,   \* history: guarantees that a function used so far does not give
  calls   \* functions applied so far

vars == <<src, cur, win, lost, calls>>

Guarantees == {"axis", "origin", "causal", "grid", "bins"}

Recorded(ts) ==
  [ts |-> ts, dep |-> [i \in DOMAIN ts |-> {ts[i]}], domain |-> "Time",
   start |-> kNoSourceStart, sym |-> TRUE]

Init ==
  /\ \E ts \in Sources : src = Recorded(ts)
  /\ cur = src /\ win = {} /\ lost = {} /\ calls = 0

-----------------------------------------------------------------------------
(* Signals.                                                                *)

Count(s) == Len(s.ts)
Span(s) == Last(s.ts) - s.ts[1]
EveryDep(s) == UNION Range(s.dep)
Round(p, q) == (2 * p + q) \div (2 * q)     \* llround(p / q), p not negative
pow2[k \in Nat] == IF k = 0 THEN 1 ELSE 2 * pow2[k - 1]
PowerOfTwoFrom(n) == pow2[Min({k \in 0..n : pow2[k] >= n})]
Smaller(a, b) == IF a < b THEN a ELSE b
Larger(a, b) == IF a > b THEN a ELSE b

makeDoubleSignal(ts, dep, domain, start) ==
  [ts |-> ts, dep |-> dep, domain |-> domain, start |-> start, sym |-> TRUE]

displayOriginNs(s) ==
  IF s.start # kNoSourceStart THEN s.start
  ELSE IF s.ts = <<>> THEN 0 ELSE s.ts[1]

\* What Slice, Gate and the band masks pass on: where a time signal is shown.
CarriedOrigin(s) == IF s.domain = "Time" THEN displayOriginNs(s) ELSE s.start

\* A function that keeps the grid: same timestamps, domain and origin.
Shaped(s, dep) == makeDoubleSignal(s.ts, dep, s.domain, s.start)

\* One pass over 1..n that pushes back the indices in idx.
InOrder(n, idx) ==
  LET pushed[i \in 0..n] ==
        IF i = 0 THEN <<>>
        ELSE IF i \in idx THEN Append(pushed[i - 1], i) ELSE pushed[i - 1]
  IN  pushed[n]

Picked(q, idx) ==   \* the elements of q at the indices idx, in order
  LET at == InOrder(Len(q), idx) IN [j \in DOMAIN at |-> q[at[j]]]

Kept(s, idx) == [ts |-> Picked(s.ts, idx), dep |-> Picked(s.dep, idx)]

-----------------------------------------------------------------------------
(* Filters, running sums and windows.                                      *)

\* y[i] from x[i] and y[i - 1]: Filter, PT of band 0, the IIR cascade.
LowPass(s) ==
  LET y[i \in 0..Count(s)] == IF i = 0 THEN {} ELSE s.dep[i] \cup y[i - 1]
  IN  Shaped(s, [i \in DOMAIN s.ts |-> y[i]])

\* x[i] - y[i], and 0 for the first sample: FilterHP, PT of band 1, Integral.
FromRest(s) ==
  LET y == LowPass(s) IN Shaped(s, [i \in DOMAIN s.ts |-> IF i = 1 THEN {} ELSE y.dep[i]])

PTAccepts(band, tau) == tau > 0 /\ band \in {0, 1}
PT(s, band) == IF band = 0 THEN LowPass(s) ELSE FromRest(s)

\* Families 0 Butterworth, 1 and 2 Chebyshev, 3 elliptic; bands 0 to 3.
IIRAccepts(s, family, band, f1, f2, rp, rs) ==
  /\ band \in 0..3
  /\ family = 3 => rp > 0 /\ rs > rp
  /\ Count(s) >= 2 =>
       /\ Span(s) > 0 /\ f1 > 0
       /\ band \in {2, 3} => f2 > f1
       /\ 2 * Span(s) * (IF band \in {2, 3} THEN f2 ELSE f1) < (Count(s) - 1) * Second
       /\ family = 1 => rp > 0
       /\ family = 2 => rs > 0

IIRCalls(s) ==
  {c \in (0..3) \X (0..3) \X Rates \X Rates \X (0..1) \X (0..2) :
     IIRAccepts(s, c[1], c[2], c[3], c[4], c[5], c[6])}

ReverseSignal(s) ==
  IF s.ts = <<>> THEN makeDoubleSignal(<<>>, <<>>, s.domain, kNoSourceStart)
  ELSE makeDoubleSignal([i \in DOMAIN s.ts |-> s.ts[1] + (Last(s.ts) - Reverse(s.ts)[i])],
                        Reverse(s.dep), s.domain, s.start)

Derivative(s) ==
  LET n == Count(s) IN
  Shaped(s, [i \in DOMAIN s.ts |->
    IF n < 2 THEN {} ELSE s.dep[Larger(i - 1, 1)] \cup s.dep[Smaller(i + 1, n)]])

\* The window ends at sample i; its lower end lo only moves forward.
Rolling(s, window) ==
  IF s.ts = <<>> THEN makeDoubleSignal(<<>>, <<>>, "Time", kNoSourceStart)
  ELSE LET lo[i \in 0..Count(s)] ==
             IF i = 0 THEN 1
             ELSE Min({k \in lo[i - 1]..i : s.ts[i] - s.ts[k] <= window})
       IN  Shaped(s, [i \in DOMAIN s.ts |-> UNION {s.dep[k] : k \in lo[i]..i}])

\* filtfilt(F, x): forward, reverse, forward, reverse.
filtfilt(F(_), s) == ReverseSignal(F(ReverseSignal(F(s))))

\* Samples in bad match the fill marker and repeat the last good one.
ForwardFill(s, bad) ==
  LET good[i \in 0..Count(s)] ==
        IF i = 0 THEN 0 ELSE IF i \in bad THEN good[i - 1] ELSE i
  IN  Shaped(s, [i \in DOMAIN s.ts |-> IF good[i] = 0 THEN s.dep[i] ELSE s.dep[good[i]]])

-----------------------------------------------------------------------------
(* Selecting samples by time.                                              *)

\* Mutant: times are measured from the first sample left.
MutantSelection(s, a, b) ==
  {i \in DOMAIN s.ts : Smaller(a, b) <= s.ts[i] - s.ts[1] /\ s.ts[i] - s.ts[1] <= Larger(a, b)}

Selection(s, a, b) ==
  LET base == IF s.domain = "Time" THEN displayOriginNs(s) ELSE 0 IN
  {i \in DOMAIN s.ts : Smaller(a, b) <= s.ts[i] - base /\ s.ts[i] - base <= Larger(a, b)}

Slice(s, a, b) ==
  LET k == Kept(s, Selection(s, a, b)) IN
  makeDoubleSignal(k.ts, k.dep, s.domain, CarriedOrigin(s))

\* BandZero (keep FALSE) and BandKeep: a masked sample is the constant 0.
BandMask(s, lo, hi, keep) ==
  makeDoubleSignal(s.ts,
    [i \in DOMAIN s.ts |-> IF (i \in Selection(s, lo, hi)) = keep THEN s.dep[i] ELSE {}],
    s.domain, CarriedOrigin(s))

RepeatAccepts(s, n) ==
  /\ n >= 1 /\ s.domain # "Frequency"
  /\ n > 1 => Count(s) >= 2
  /\ Count(s) > 0 => n <= kMaxOut \div Count(s)

MutantRepeatStride(s) == IF Count(s) >= 2 THEN Span(s) ELSE 0   \* mutant: no step at the seam

RepeatStride(s) ==
  IF Count(s) >= 2 THEN Span(s) + Round(Span(s), Count(s) - 1) ELSE 0

Repeat(s, n) ==
  LET c == Count(s)
      at(j) == ((j - 1) % c) + 1
  IN  makeDoubleSignal([j \in 1..n * c |-> s.ts[at(j)] + ((j - 1) \div c) * RepeatStride(s)],
                       [j \in 1..n * c |-> s.dep[at(j)]], s.domain, s.start)

\* findGateWindows: runs of samples in range, as pairs start, one past the end.
GateRuns(s, here, minLen) ==
  LET scan[i \in 0..Count(s)] ==
        IF i = 0 THEN [in |-> FALSE, start |-> 0, runs |-> <<>>]
        ELSE LET p == scan[i - 1] IN
             IF i \in here /\ ~p.in THEN [p EXCEPT !.in = TRUE, !.start = i]
             ELSE IF i \notin here /\ p.in
                  THEN [p EXCEPT !.in = FALSE, !.runs = Append(@, <<p.start, i>>)]
                  ELSE p
      end == scan[Count(s)]
      all == IF end.in THEN Append(end.runs, <<end.start, Count(s) + 1>>) ELSE end.runs
  IN  IF minLen > 0
      THEN Picked(all, {k \in DOMAIN all : s.ts[all[k][2] - 1] - s.ts[all[k][1]] >= minLen})
      ELSE all

InRuns(runs) == UNION {r[1]..r[2] - 1 : r \in ToSet(runs)}
Starts(runs) == {r[1] : r \in ToSet(runs)}

Spacings(s) == [i \in 1..Count(s) - 1 |-> s.ts[i + 1] - s.ts[i]]

\* nth_element: the median of the spacings, the upper one of two, is the least
\* that more than half of them do not exceed.
NominalDt(s) ==
  LET d == Spacings(s) IN
  IF d = <<>> THEN 1
  ELSE Min({v \in ToSet(d) : Cardinality({i \in DOMAIN d : d[i] <= v}) > Len(d) \div 2})

\* Mode 1 keeps the timestamps, mode 0 ("smash") closes the gaps between runs.
Gate(s, runs, mode) ==
  LET at == InOrder(Count(s), InRuns(runs))
      out[j \in 0..Len(at)] ==
        IF j = 0 THEN 0
        ELSE IF j = 1 \/ mode = 1 THEN s.ts[at[j]]
        ELSE out[j - 1] + (IF at[j] \in Starts(runs) THEN NominalDt(s)
                           ELSE s.ts[at[j]] - s.ts[at[j] - 1])
  IN  makeDoubleSignal([j \in DOMAIN at |-> out[j]], [j \in DOMAIN at |-> s.dep[at[j]]],
                       s.domain, CarriedOrigin(s))

-----------------------------------------------------------------------------
(* Two grids.                                                              *)

\* interpAt: linear between the samples lo and lo + 1, exact on either of them.
Between(s, lo, t) ==
  IF t = s.ts[lo] THEN s.dep[lo]
  ELSE IF t = s.ts[lo + 1] THEN s.dep[lo + 1] ELSE s.dep[lo] \cup s.dep[lo + 1]

Interpolated(s, t, lo) ==
  IF t <= s.ts[1] THEN s.dep[1]
  ELSE IF t >= Last(s.ts) THEN Last(s.dep) ELSE Between(s, lo, t)

\* Mutant: the cursor moves on by one sample at most.
MutantCursorWalk(s, times) ==
  LET cursor[j \in 0..Len(times)] ==
        IF j = 0 THEN 1
        ELSE IF cursor[j - 1] < Count(s) - 1 /\ s.ts[cursor[j - 1] + 1] < times[j]
             THEN cursor[j - 1] + 1 ELSE cursor[j - 1]
  IN  [j \in DOMAIN times |-> Interpolated(s, times[j], cursor[j])]

\* The cursor moves forward over ascending query times.
CursorWalk(s, times) ==
  LET cursor[j \in 0..Len(times)] ==
        IF j = 0 THEN 1
        ELSE IF times[j] <= s.ts[1] \/ times[j] >= Last(s.ts) THEN cursor[j - 1]
        ELSE Min({c \in cursor[j - 1]..Count(s) - 1 : s.ts[c + 1] >= times[j]})
  IN  [j \in DOMAIN times |-> Interpolated(s, times[j], cursor[j])]

\* The binary search of the registry's elementwiseBinary; bounds from 0 as there.
SearchEach(s, times) ==
  LET n == Count(s)
      search(t) ==
        LET narrow[p \in (0..n) \X (0..n)] ==
              IF p[1] + 1 >= p[2] THEN p[1]
              ELSE LET mid == (p[1] + p[2]) \div 2 IN
                   IF s.ts[mid + 1] <= t THEN narrow[<<mid, p[2]>>] ELSE narrow[<<p[1], mid>>]
        IN  narrow[<<0, n - 1>>] + 1
  IN  [j \in DOMAIN times |-> Interpolated(s, times[j], search(times[j]))]

OneSampleAtZero(s) == Count(s) = 1 /\ s.ts[1] = 0
isConstant(s) == OneSampleAtZero(s) /\ ~s.sym

Overlap(a, b) == [lo |-> Larger(a.ts[1], b.ts[1]), hi |-> Smaller(Last(a.ts), Last(b.ts))]

BinaryAccepts(a, b, aConst, bConst) ==
  \/ aConst \/ bConst
  \/ a.ts # <<>> /\ b.ts # <<>> /\ Overlap(a, b).lo <= Overlap(a, b).hi

\* Constant broadcast, same grid, or the denser grid on the overlap.
elementwiseBinary(a, b, aConst, bConst, Interp(_, _)) ==
  LET domain == IF aConst THEN b.domain ELSE IF bConst THEN a.domain
                ELSE IF "Frequency" \in {a.domain, b.domain} THEN "Frequency" ELSE "Time"
      start == IF aConst THEN b.start ELSE IF bConst THEN a.start
               ELSE IF a.start # kNoSourceStart THEN a.start ELSE b.start
      made(ts, dep) == [makeDoubleSignal(ts, dep, domain, start) EXCEPT !.sym = FALSE]
      inRange(s) == {i \in DOMAIN s.ts : Overlap(a, b).lo <= s.ts[i] /\ s.ts[i] <= Overlap(a, b).hi}
      useA == Cardinality(inRange(a)) >= Cardinality(inRange(b))
      grid == IF useA THEN a ELSE b
      here == Kept(grid, inRange(grid))
      there == Interp(IF useA THEN b ELSE a, here.ts)
  IN  IF aConst THEN made(b.ts, [i \in DOMAIN b.ts |-> b.dep[i] \cup a.dep[1]])
      ELSE IF bConst THEN made(a.ts, [i \in DOMAIN a.ts |-> a.dep[i] \cup b.dep[1]])
      ELSE IF a.ts = b.ts THEN made(a.ts, [i \in DOMAIN a.ts |-> a.dep[i] \cup b.dep[i]])
      ELSE made(here.ts, [i \in DOMAIN here.ts |-> here.dep[i] \cup there[i]])

\* a + b and the other operators of a formula ...
OperatorResult(a, b) == elementwiseBinary(a, b, isConstant(a), isConstant(b), CursorWalk)
\* ... and Min, Max, Power, Mod, Atan2, Replace.
PairResult(a, b) ==
  elementwiseBinary(a, b, OneSampleAtZero(a), OneSampleAtZero(b), SearchEach)

ResampledTo(s, times) ==
  IF s.ts = <<>> THEN makeDoubleSignal(<<>>, <<>>, "Time", kNoSourceStart)
  ELSE makeDoubleSignal(times, CursorWalk(s, times), s.domain, s.start)

RateGrid(s, rate) ==
  IF s.ts = <<>> THEN <<>>
  ELSE [i \in 1..(Span(s) \div (Second \div rate)) + 1 |-> s.ts[1] + (i - 1) * (Second \div rate)]

ReferenceGrid(s, target) ==
  IF s.ts = <<>> THEN <<>>
  ELSE Picked(target.ts,
              {i \in DOMAIN target.ts : s.ts[1] <= target.ts[i] /\ target.ts[i] <= Last(s.ts)})

-----------------------------------------------------------------------------
(* Spectra.                                                                *)

TransformAccepts(s) == Count(s) >= 2 /\ Span(s) > 0

\* Bound: the results of transforms are at least a tick apart.  In the code a
\* tick is 1 ns or 1 nHz, and only a signal of 30 years or of more than 10^9
\* samples a second would be finer.
TicksApart(s) == \A i \in 1..Count(s) - 1 : s.ts[i] < s.ts[i + 1]

\* N / 2 + 1 bins, df = fs / N apart, for n samples over the given span.
SpectrumOf(s, n, span, N, dep) ==
  makeDoubleSignal([k \in 1..(N \div 2) + 1 |-> Round((k - 1) * n * Second * Second, span * N)],
                   [k \in 1..(N \div 2) + 1 |-> dep], "Frequency", s.ts[1])

\* FFT, RFFTmag and RFFTphase.
Spectrum(s) ==
  SpectrumOf(s, Count(s) - 1, Span(s), PowerOfTwoFrom(Count(s)), EveryDep(s))

RevertLength(bins) == 2 * (bins - 1)

\* revertFFT: the grid comes from the bin spacing, the first time from start.
RevertFFT(s) ==
  LET N == RevertLength(Count(s))
      df == IF s.ts[2] > s.ts[1] THEN s.ts[2] - s.ts[1] ELSE Second
      t0 == IF s.start # kNoSourceStart THEN s.start ELSE 0
  IN  makeDoubleSignal([i \in 1..N |-> t0 + Round((i - 1) * Second * Second, N * df)],
                       [i \in 1..N |-> EveryDep(s)], "Time", kNoSourceStart)

\* fftRadix2: the indices (from 0) that the butterflies of a buffer of N touch.
ButterflyIndices(N) ==
  UNION {{i + k + len \div 2 : i \in {j \in 0..N - 1 : j % len = 0}, k \in 0..(len \div 2) - 1}
           : len \in {pow2[e] : e \in 1..N} \cap 2..N}

LongRuns(runs) == Picked(runs, {k \in DOMAIN runs : runs[k][2] - runs[k][1] >= 2})

\* FFTWelch: the runs are transformed one by one, in buffers of one length.
Welch(s, runs) ==
  LET long == LongRuns(runs)
      N == PowerOfTwoFrom(Max({r[2] - r[1] : r \in ToSet(runs)}))
      first == long[1][1]
  IN  SpectrumOf(s, 1, s.ts[first + 1] - s.ts[first], N,
                 UNION {s.dep[i] : i \in InRuns(long)})

-----------------------------------------------------------------------------
(* Formulas.  Each action is one more call around the formula so far.      *)

Applied(result, gives) ==
  /\ calls < MaxCalls /\ calls' = calls + 1
  /\ cur' = result
  /\ lost' = lost \cup gives
  /\ UNCHANGED src

Call(result, gives) == Applied(result, gives) /\ UNCHANGED win

\* Abs, Sqrt, Round, Sign, Limit and the like: sample by sample.
Elementwise == Call(Shaped(cur, cur.dep), {})

ApplyFilter ==
  \/ \E tau \in Scalars : tau > 0 /\ Call(LowPass(cur), {})
  \/ \E band, tau \in Scalars : PTAccepts(band, tau) /\ Call(PT(cur, band), {})
  \/ IIRCalls(cur) # {} /\ Call(LowPass(cur), {})

Integrate == Call(FromRest(cur), {})
Differentiate == Call(Derivative(cur), {"causal"})
RollingWindow == \E w \in Scalars : w > 0 /\ Call(Rolling(cur, w), {})

ZeroPhase ==
  \/ Call(filtfilt(LowPass, cur), {"causal"})
  \/ \E w \in Scalars : w > 0 /\ Call(filtfilt(LAMBDA s : Rolling(s, w), cur), {"causal"})

ReverseInTime == Call(ReverseSignal(cur), {"axis", "causal"})
At(E) == {i \in DOMAIN cur.ts : cur.ts[i] \in E}
FillForward == \E E \in Events : Call(ForwardFill(cur, At(E)), {})

Shift == \E off \in Scalars :
  Call(makeDoubleSignal([i \in DOMAIN cur.ts |-> cur.ts[i] + off], cur.dep, cur.domain, cur.start),
       {"axis"})

SliceWindow == \E a, b \in Scalars :
  /\ Applied(Slice(cur, a, b), IF cur.domain = "Time" THEN {} ELSE {"bins"})
  /\ win' = win \cup {<<Smaller(a, b), Larger(a, b)>>}

MaskBand == \E lo, hi \in Scalars : \E keep \in BOOLEAN :
  lo <= hi /\ Call(BandMask(cur, lo, hi, keep), {})

RepeatSignal == \E n \in Scalars :
  RepeatAccepts(cur, n) /\ Call(Repeat(cur, n), {"axis", "causal"})

GateSignal == \E E \in Events : \E minLen \in Scalars : \E mode \in {0, 1} :
  Call(Gate(cur, GateRuns(cur, At(E), minLen), mode),
       {"grid", "bins"} \cup (IF mode = 0 THEN {"axis", "causal"} ELSE {}))

\* Off a shared grid the result starts at the overlap, wherever src started.  A
\* single sample at time 0 may even be taken for a constant, and the result
\* then has the origin of the other operand.
OffGrid(other) ==
  IF cur.ts = other.ts
  THEN IF OneSampleAtZero(cur) /\ cur.start # kNoSourceStart THEN {"origin"} ELSE {}
  ELSE IF OneSampleAtZero(cur) THEN Guarantees
  ELSE {"grid", "bins", "causal"} \cup (IF cur.start = kNoSourceStart THEN {"origin"} ELSE {})

BinaryOperator == \E ts \in Sources : \E swap \in BOOLEAN :
  LET o == Recorded(ts)
      a == IF swap THEN o ELSE cur
      b == IF swap THEN cur ELSE o
  IN  \/ /\ BinaryAccepts(a, b, isConstant(a), isConstant(b))
         /\ Call(OperatorResult(a, b), OffGrid(o))
      \/ /\ BinaryAccepts(a, b, OneSampleAtZero(a), OneSampleAtZero(b))
         /\ Call(PairResult(a, b), OffGrid(o))

ResampleRate == \E rate \in Rates :
  /\ rate > 0 /\ Second \div rate > 0
  /\ cur.ts # <<>> => Span(cur) \div (Second \div rate) < MaxGrid
  /\ Call(ResampledTo(cur, RateGrid(cur, rate)), {"grid", "bins", "causal"})

ResampleReference == \E ts \in Sources :
  /\ ~isConstant(Recorded(ts))
  /\ Call(ResampledTo(cur, ReferenceGrid(cur, Recorded(ts))), OffGrid(Recorded(ts)))

Transform ==
  /\ TransformAccepts(cur) /\ TicksApart(Spectrum(cur))
  /\ Call(Spectrum(cur), {"axis", "causal"})

TransformEvents == \E E \in Events : \E minLen \in Scalars :
  LET runs == GateRuns(cur, At(E), minLen) IN
  /\ LongRuns(runs) # <<>> /\ TicksApart(Welch(cur, runs))
  /\ Call(Welch(cur, runs), {"axis", "causal"})

\* FFTCut and FFTKeep: back on the same timestamps, without the origin.
EditBand == \E lo, hi \in Scalars :
  /\ 0 <= lo /\ lo < hi /\ TransformAccepts(cur)
  /\ Call(makeDoubleSignal(cur.ts, [i \in DOMAIN cur.ts |-> EveryDep(cur)], "Time", kNoSourceStart),
          {"origin", "causal"} \cup (IF cur.domain = "Time" THEN {} ELSE {"axis"}))

\* revertFFT(M, P), both of the shape of cur.
Revert ==
  /\ Count(cur) >= 2 /\ TicksApart(RevertFFT(cur))
  /\ Call(RevertFFT(cur), {"axis", "origin", "causal", "grid"})

PeakHz ==
  /\ TransformAccepts(cur)
  /\ Call(makeDoubleSignal(<<0>>, <<EveryDep(cur)>>, "Time", kNoSourceStart), Guarantees)

Next ==
  \/ Elementwise \/ ApplyFilter \/ Integrate \/ Differentiate \/ RollingWindow
  \/ ZeroPhase \/ ReverseInTime \/ FillForward \/ Shift \/ SliceWindow \/ MaskBand
  \/ RepeatSignal \/ GateSignal \/ BinaryOperator \/ ResampleRate \/ ResampleReference
  \/ Transform \/ TransformEvents \/ EditBand \/ Revert \/ PeakHz

Spec == Init /\ [][Next]_vars

-----------------------------------------------------------------------------
(* Properties.                                                             *)

\* Whatever functions are nested, timestamps ascend: every search for a
\* neighbour, every sample rate and the plot rest on it (the seam of Repeat,
\* the joins of a smashed Gate, the bins of a spectrum of a spectrum).  And
\* filters, integrals, rolling windows and fills look back only: no sample
\* depends on a later one ("causal"), in any nesting of them.
TimeRespected ==
  /\ \A i \in 1..Count(cur) - 1 : cur.ts[i] < cur.ts[i + 1]
  /\ lost \cap {"axis", "causal"} = {} =>
       \A i \in 1..Count(cur) : \A t \in cur.dep[i] : t <= cur.ts[i]

\* "Slicing what you see": slices of slices, with any functions between them
\* that keep the axis, select exactly the intersection of their windows, all
\* measured from the origin of the source, although each call only sees its
\* own argument.  So a derived signal is shown from the origin of its source,
\* however many leading samples were dropped on the way.  (Its timestamps ascend,
\* so their set is all there is to say of them.)
SliceSelectsWhatIsShown ==
  /\ (lost \cap {"axis", "origin"} = {} /\ cur.ts # <<>>) => displayOriginNs(cur) = src.ts[1]
  /\ lost \cap {"axis", "origin", "grid"} = {} =>
    ToSet(cur.ts) =
      {t \in ToSet(src.ts) : \A w \in win : w[1] <= t - src.ts[1] /\ t - src.ts[1] <= w[2]}

-----------------------------------------------------------------------------
(* The algorithms against their definitions.                               *)

\* "Reversing twice restores the original signal exactly", for any signal a
\* formula can produce; filtfilt rests on it.
ReverseTwiceIsIdentity ==
  cur.ts # <<>> => ReverseSignal(ReverseSignal(cur)) = [cur EXCEPT !.sym = TRUE]

\* The cursor of the rolling functions selects the samples at most a window
\* older than the current one.
WindowIsExact ==
  \A w \in {v \in Scalars : v > 0} : \A i \in 1..Count(cur) :
    Rolling(cur, w).dep[i] =
      UNION {cur.dep[k] : k \in {j \in 1..i : cur.ts[i] - cur.ts[j] <= w}}

\* Both interpolation routines use the two samples around the query time, or
\* the one at it, for ascending query times that share one cursor.
NeighboursAt(s, t) ==
  LET before == {i \in DOMAIN s.ts : s.ts[i] <= t}
      after == {i \in DOMAIN s.ts : s.ts[i] >= t}
  IN  (IF before = {} THEN {} ELSE s.dep[Max(before)])
        \cup (IF after = {} THEN {} ELSE s.dep[Min(after)])

InterpolatesBetweenNeighbours ==
  cur.ts # <<>> => \A times \in Sources :
    LET expected == [j \in DOMAIN times |-> NeighboursAt(cur, times[j])] IN
    CursorWalk(cur, times) = expected /\ SearchEach(cur, times) = expected

\* The windows of Gate and FFTWelch are the maximal stretches in range that
\* last long enough; a scan that closes the last one at the end of the signal.
GateFindsMaximalRuns ==
  \A E \in Events : \A minLen \in Scalars :
    ToSet(GateRuns(cur, At(E), minLen)) =
      {<<r[1], r[2] + 1>> : r \in
         {p \in (1..Count(cur)) \X (1..Count(cur)) :
            /\ p[1] <= p[2] /\ p[1]..p[2] \subseteq At(E)
            /\ p[1] - 1 \notin At(E) /\ p[2] + 1 \notin At(E)
            /\ minLen > 0 => cur.ts[p[2]] - cur.ts[p[1]] >= minLen}}

\* revertFFT(RFFTmag(x), RFFTphase(x)) is on the grid of x again, at the time
\* of x, when x is evenly spaced, its length a power of two and the bins a
\* whole number of ticks apart (and x does not start at the very timestamp that
\* stands for "no origin").
RoundTripRestoresGrid ==
  ( /\ Count(cur) >= 2 /\ Count(cur) = PowerOfTwoFrom(Count(cur)) /\ cur.domain = "Time"
    /\ cur.ts[1] # kNoSourceStart
    /\ \A i \in 1..Count(cur) - 1 : (cur.ts[i + 1] - cur.ts[i]) * (Count(cur) - 1) = Span(cur)
    /\ ((Count(cur) - 1) * Second * Second) % (Span(cur) * Count(cur)) = 0
  ) => RevertFFT(Spectrum(cur)).ts = cur.ts

InBuffer(bins) ==
  \A j \in ButterflyIndices(RevertLength(bins)) : j < RevertLength(bins)

\* revertFFT transforms a buffer of 2 (bins - 1) samples in place; after any
\* edits that keep the bins the butterflies stay inside it.
RevertStaysInBuffer ==
  (cur.domain = "Frequency" /\ "bins" \notin lost /\ Count(cur) >= 2) => InBuffer(Count(cur))

\* On every signal a formula can produce, the scans of the registry (one cursor
\* that only moves forward, one pass that opens and closes runs, in-place
\* transforms of a padded buffer) compute what their definitions say.
AlgorithmsMatchDefinitions ==
  /\ WindowIsExact /\ InterpolatesBetweenNeighbours /\ GateFindsMaximalRuns
  /\ ReverseTwiceIsIdentity /\ RoundTripRestoresGrid /\ RevertStaysInBuffer
=============================================================================
