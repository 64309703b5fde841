------------------------ MODULE FormulaEngineProofs ------------------------
(***************************************************************************)
(* The Analyser's formulas, for any channel names, expressions and number  *)
(* of edits, and whatever the formulas compute: recomputeAll() leaves no     *)
(* formula out and brings those in dependency order up to date, an undo      *)
(* restores the samples, and definitions are never lost in a recompute.     *)
(***************************************************************************)
EXTENDS FormulaEngine, FiniteSetTheorems, SequenceTheorems, TLAPS

-----------------------------------------------------------------------------
(* QStringList::removeAll                                                   *)

\* The rank of a member of a finite set of numbers: the ranks are 1 .. |K|, in
\* the order of the members.
LEMMA RankMonotone ==
  ASSUME NEW K, IsFiniteSet(K), K \subseteq Nat, NEW i \in K, NEW k \in K, i < k
  PROVE  RankIn(K, i) < RankIn(K, k)
<1> DEFINE A == {j \in K : j <= i}
           B == {j \in K : j <= k}
<1>0. i \in Nat /\ k \in Nat /\ \A j \in K : j \in Nat
  OBVIOUS
<1>1. A \subseteq B /\ k \in B /\ k \notin A
  <2>1. ASSUME NEW j \in K, j <= i PROVE j <= k
    BY <1>0, <2>1
  <2>2. k <= k /\ ~(k <= i)
    BY <1>0
  <2> QED BY <2>1, <2>2
<1>2. IsFiniteSet(A) /\ IsFiniteSet(B)
  BY FS_Subset
<1> HIDE DEF A, B
<1>3. Cardinality(A) \in Nat /\ Cardinality(B) \in Nat
  BY <1>2, FS_CardinalityType
<1>4. Cardinality(A) <= Cardinality(B) /\ (Cardinality(B) = Cardinality(A) => B = A)
  BY <1>1, <1>2, FS_Subset
<1>5. Cardinality(A) < Cardinality(B)
  BY <1>1, <1>3, <1>4
<1> QED BY <1>5 DEF RankIn, A, B

LEMMA RankBounds ==
  ASSUME NEW K, IsFiniteSet(K), K \subseteq Nat, NEW i \in K
  PROVE  RankIn(K, i) \in 1..Cardinality(K)
<1> DEFINE A == {j \in K : j <= i}
<1>1. A \subseteq K /\ i \in A
  OBVIOUS
<1> HIDE DEF A
<1>2. IsFiniteSet(A) /\ Cardinality(A) <= Cardinality(K)
  BY <1>1, FS_Subset
<1>3. Cardinality(A) \in Nat /\ Cardinality(K) \in Nat /\ Cardinality(A) # 0
  BY <1>1, <1>2, FS_CardinalityType, FS_EmptySet
<1> QED BY <1>2, <1>3 DEF RankIn, A

LEMMA RankOnto ==
  ASSUME NEW K, IsFiniteSet(K), K \subseteq Nat, NEW k \in 1..Cardinality(K)
  PROVE  \E i \in K : RankIn(K, i) = k
<1> DEFINE r == [i \in K |-> RankIn(K, i)]
           C == Cardinality(K)
<1>1. r \in [K -> 1..C]
  BY RankBounds
<1>2. \A i, j \in K : r[i] = r[j] => i = j
  <2> SUFFICES ASSUME NEW i \in K, NEW j \in K, i < j PROVE RankIn(K, i) # RankIn(K, j)
    OBVIOUS
  <2>1. RankIn(K, i) \in 1..C /\ RankIn(K, j) \in 1..C
    BY RankBounds
  <2>2. RankIn(K, i) < RankIn(K, j)
    BY RankMonotone
  <2>3. C \in Nat
    BY FS_CardinalityType
  <2> QED BY <2>1, <2>2, <2>3
<1>3. C \in Nat /\ IsFiniteSet(1..C) /\ Cardinality(1..C) = C
  BY FS_CardinalityType, FS_Interval
<1>4. r \in Injection(K, 1..C)
  BY <1>1, <1>2 DEF Injection, IsInjective
<1> HIDE DEF r
<1>5. r \in Surjection(K, 1..C)
  BY <1>3, <1>4, FS_Injection
<1> QED BY <1>1, <1>5 DEF Surjection, r

\* removeAll() keeps what differs from n, in the order it was in: the place g[k]
\* is where the k-th entry of the result comes from.
Keeps(q, n, p, g) ==
  /\ g \in [1..Len(p) -> 1..Len(q)]
  /\ \A k \in 1..Len(p) : p[k] = q[g[k]] /\ q[g[k]] # n
  /\ \A k, l \in 1..Len(p) : k < l => g[k] < g[l]
  /\ \A i \in 1..Len(q) : q[i] # n => \E k \in 1..Len(p) : g[k] = i

LEMMA RemoveAllIs ==
  ASSUME NEW S, NEW q \in Seq(S), NEW n
  PROVE  RemoveAll(q, n) \in Seq(S) /\ \E g : Keeps(q, n, RemoveAll(q, n), g)
<1> DEFINE K == KeptAt(q, n)
           C == Cardinality(K)
           p == RemoveAll(q, n)
           g == [k \in 1..C |-> CHOOSE i \in K : RankIn(K, i) = k]
<1>1. K \subseteq 1..Len(q) /\ K \subseteq Nat /\ Len(q) \in Nat
  BY DEF KeptAt
<1>2. IsFiniteSet(K) /\ C \in Nat
  <2>1. IsFiniteSet(1..Len(q))
    BY <1>1, FS_Interval
  <2>2. IsFiniteSet(K)
    BY <1>1, <2>1, FS_Subset
  <2> QED BY <2>2, FS_CardinalityType
<1>3. \A i \in K : q[i] # n /\ q[i] \in S
  BY DEF KeptAt
<1>4. \A i \in 1..Len(q) : q[i] # n => i \in K
  BY DEF KeptAt
<1> HIDE DEF K
<1>5. \A k \in 1..C : g[k] \in K /\ RankIn(K, g[k]) = k
  BY <1>1, <1>2, RankOnto
<1>6. p = [k \in 1..C |-> q[g[k]]]
  BY DEF RemoveAll, K
<1> HIDE DEF g, C
<1>7. p \in Seq(S) /\ Len(p) = C
  BY <1>2, <1>3, <1>5, <1>6
<1>8. g \in [1..Len(p) -> 1..Len(q)]
  BY <1>1, <1>5, <1>7 DEF g
<1>9. \A k \in 1..Len(p) : p[k] = q[g[k]] /\ q[g[k]] # n
  BY <1>3, <1>5, <1>6, <1>7
<1>10. ASSUME NEW k \in 1..Len(p), NEW l \in 1..Len(p), k < l PROVE g[k] < g[l]
  <2>1. g[k] \in K /\ g[l] \in K /\ RankIn(K, g[k]) = k /\ RankIn(K, g[l]) = l
    BY <1>5, <1>7
  <2>2. g[l] < g[k] => l < k
    BY <1>1, <1>2, <2>1, RankMonotone
  <2>3. g[l] # g[k]
    BY <1>10, <2>1
  <2>4. g[k] \in Nat /\ g[l] \in Nat /\ k \in Nat /\ l \in Nat
    <3>1. k \in 1..C /\ l \in 1..C
      BY <1>7
    <3>2. k \in Nat /\ l \in Nat
      BY <1>2, <3>1
    <3>3. g[k] \in Nat /\ g[l] \in Nat
      BY <1>1, <2>1
    <3> QED BY <3>2, <3>3
  <2> QED BY <1>10, <2>2, <2>3, <2>4
<1>11. ASSUME NEW i \in 1..Len(q), q[i] # n PROVE \E k \in 1..Len(p) : g[k] = i
  <2>1. i \in K
    BY <1>4, <1>11
  <2>2. RankIn(K, i) \in 1..Len(p)
    BY <1>1, <1>2, <1>7, <2>1, RankBounds DEF C
  <2>3. g[RankIn(K, i)] \in K /\ RankIn(K, g[RankIn(K, i)]) = RankIn(K, i)
    BY <1>5, <1>7, <2>2
  <2>4. g[RankIn(K, i)] = i
    <3> DEFINE m == g[RankIn(K, i)]
    <3>1. m \in K /\ RankIn(K, m) = RankIn(K, i) /\ m \in Nat /\ i \in Nat
      BY <1>1, <2>1, <2>3
    <3> HIDE DEF m
    <3>2. ~(m < i) /\ ~(i < m)
      <4>1. RankIn(K, m) \in Nat /\ RankIn(K, i) \in Nat
        BY <1>7, <2>2, <3>1
      <4>2. ASSUME m < i PROVE RankIn(K, m) < RankIn(K, i)
        BY <1>1, <1>2, <2>1, <3>1, <4>2, RankMonotone
      <4>3. ASSUME i < m PROVE RankIn(K, i) < RankIn(K, m)
        BY <1>1, <1>2, <2>1, <3>1, <4>3, RankMonotone
      <4> QED BY <3>1, <4>1, <4>2, <4>3
    <3>3. m = i
      BY <3>1, <3>2
    <3> QED BY <3>3 DEF m
  <2> QED BY <2>2, <2>4
<1>12. Keeps(q, n, p, g)
  BY <1>8, <1>9, <1>10, <1>11 DEF Keeps
<1> QED BY <1>7, <1>12

LEMMA RemoveAllSet ==
  ASSUME NEW S, NEW q \in Seq(S), NEW n
  PROVE  /\ RemoveAll(q, n) \in Seq(S)
         /\ ToSet(RemoveAll(q, n)) = ToSet(q) \ {n}
<1> DEFINE p == RemoveAll(q, n)
<1>1. p \in Seq(S) /\ DOMAIN p = 1..Len(p) /\ DOMAIN q = 1..Len(q)
  BY RemoveAllIs, LenProperties
<1>2a. PICK g : Keeps(q, n, p, g)
  BY RemoveAllIs
<1>2. /\ g \in [1..Len(p) -> 1..Len(q)]
      /\ \A k \in 1..Len(p) : p[k] = q[g[k]] /\ q[g[k]] # n
      /\ \A i \in 1..Len(q) : q[i] # n => \E k \in 1..Len(p) : g[k] = i
  BY <1>2a DEF Keeps
<1> HIDE DEF p
<1>3. ToSet(p) \subseteq ToSet(q) \ {n}
  BY <1>1, <1>2 DEF ToSet
<1>4. ASSUME NEW x \in ToSet(q), x # n PROVE x \in ToSet(p)
  <2>1. PICK i \in 1..Len(q) : x = q[i]
    BY <1>1 DEF ToSet
  <2>2. PICK k \in 1..Len(p) : g[k] = i
    BY <1>2, <1>4, <2>1
  <2> QED BY <1>1, <1>2, <2>1, <2>2 DEF ToSet
<1>5. ToSet(p) = ToSet(q) \ {n}
  BY <1>3, <1>4
<1> QED BY <1>1, <1>5 DEF p

\* Whatever came after an entry still does.
LEMMA RemoveAllLater ==
  ASSUME NEW S, NEW q \in Seq(S), NEW n, NEW k \in DOMAIN RemoveAll(q, n)
  PROVE  \E i \in DOMAIN q :
           /\ RemoveAll(q, n)[k] = q[i] /\ q[i] # n
           /\ \A j \in DOMAIN q : i <= j /\ q[j] # n =>
                \E l \in DOMAIN RemoveAll(q, n) : k <= l /\ RemoveAll(q, n)[l] = q[j]
<1> DEFINE p == RemoveAll(q, n)
<1>1. p \in Seq(S) /\ DOMAIN p = 1..Len(p) /\ DOMAIN q = 1..Len(q)
  BY RemoveAllIs, LenProperties
<1>2a. PICK g : Keeps(q, n, p, g)
  BY RemoveAllIs
<1>2. /\ g \in [1..Len(p) -> 1..Len(q)]
      /\ \A a \in 1..Len(p) : p[a] = q[g[a]] /\ q[g[a]] # n
      /\ \A a, b \in 1..Len(p) : a < b => g[a] < g[b]
      /\ \A i \in 1..Len(q) : q[i] # n => \E a \in 1..Len(p) : g[a] = i
  BY <1>2a DEF Keeps
<1>3. k \in 1..Len(p) /\ Len(p) \in Nat /\ Len(q) \in Nat
  BY <1>1, LenProperties
<1> HIDE DEF p
<1>4. g[k] \in DOMAIN q /\ p[k] = q[g[k]] /\ q[g[k]] # n
  BY <1>1, <1>2, <1>3
<1>5. ASSUME NEW j \in DOMAIN q, g[k] <= j, q[j] # n
      PROVE  \E l \in DOMAIN p : k <= l /\ p[l] = q[j]
  <2>1. PICK l \in 1..Len(p) : g[l] = j
    BY <1>1, <1>2, <1>5
  <2>2. ~(l < k)
    <3>1. g[l] \in Nat /\ g[k] \in Nat
      BY <1>2, <1>3
    <3>2. l < k => g[l] < g[k]
      BY <1>2, <1>3
    <3> QED BY <1>5, <2>1, <3>1, <3>2
  <2>3. k <= l
    BY <1>3, <2>2
  <2> QED BY <1>1, <1>2, <2>1, <2>3
<1>6. \E i \in DOMAIN q :
        /\ p[k] = q[i] /\ q[i] # n
        /\ \A j \in DOMAIN q : i <= j /\ q[j] # n => \E l \in DOMAIN p : k <= l /\ p[l] = q[j]
  BY <1>4, <1>5
<1> QED BY <1>6 DEF p

\* Impl::setFormula moves an entry to the end.
MoveLast(q, n) == Append(RemoveAll(q, n), n)

LEMMA AppendSet ==
  ASSUME NEW S, NEW q \in Seq(S), NEW n \in S
  PROVE  /\ Append(q, n) \in Seq(S) /\ ToSet(Append(q, n)) = ToSet(q) \cup {n}
         /\ DOMAIN Append(q, n) = 1..(Len(q) + 1)
         /\ \A i \in 1..Len(q) : Append(q, n)[i] = q[i]
         /\ Append(q, n)[Len(q) + 1] = n
<1> DEFINE p == Append(q, n)
<1>1. /\ p \in Seq(S) /\ DOMAIN p = 1..(Len(q) + 1) /\ DOMAIN q = 1..Len(q)
      /\ Len(q) \in Nat
      /\ \A i \in 1..Len(q) : p[i] = q[i]
      /\ p[Len(q) + 1] = n
  OBVIOUS
<1> HIDE DEF p
<1>2. 1..(Len(q) + 1) = 1..Len(q) \cup {Len(q) + 1}
  BY <1>1
<1>3. ToSet(p) = ToSet(q) \cup {n}
  <2>1. ToSet(p) \subseteq ToSet(q) \cup {n}
    BY <1>1, <1>2 DEF ToSet
  <2>2. ToSet(q) \subseteq ToSet(p)
    BY <1>1, <1>2 DEF ToSet
  <2>3. n \in ToSet(p)
    BY <1>1, <1>2 DEF ToSet
  <2> QED BY <2>1, <2>2, <2>3
<1> QED BY <1>1, <1>3 DEF p

LEMMA MoveLastSet ==
  ASSUME NEW S, NEW q \in Seq(S), NEW n \in S
  PROVE  MoveLast(q, n) \in Seq(S) /\ ToSet(MoveLast(q, n)) = ToSet(q) \cup {n}
<1>1. RemoveAll(q, n) \in Seq(S) /\ ToSet(RemoveAll(q, n)) = ToSet(q) \ {n}
  BY RemoveAllSet
<1>2. /\ MoveLast(q, n) \in Seq(S)
      /\ ToSet(MoveLast(q, n)) = ToSet(RemoveAll(q, n)) \cup {n}
  BY <1>1, AppendSet DEF MoveLast
<1> QED BY <1>1, <1>2

LEMMA MoveLastLater ==
  ASSUME NEW S, NEW q \in Seq(S), NEW n \in S
  PROVE  \A k \in DOMAIN MoveLast(q, n) :
           \/ MoveLast(q, n)[k] = n
           \/ \E i \in DOMAIN q :
                /\ MoveLast(q, n)[k] = q[i] /\ q[i] # n
                /\ \A j \in DOMAIN q : i <= j /\ q[j] # n =>
                     \E l \in DOMAIN MoveLast(q, n) : k <= l /\ MoveLast(q, n)[l] = q[j]
                /\ \E l \in DOMAIN MoveLast(q, n) : k <= l /\ MoveLast(q, n)[l] = n
<1> DEFINE p == RemoveAll(q, n)
           r == MoveLast(q, n)
<1>1. p \in Seq(S) /\ ToSet(p) = ToSet(q) \ {n}
  BY RemoveAllSet
<1>2. /\ r \in Seq(S) /\ ToSet(r) = ToSet(p) \cup {n}
      /\ DOMAIN r = 1..(Len(p) + 1) /\ DOMAIN p = 1..Len(p) /\ Len(p) \in Nat
      /\ \A i \in 1..Len(p) : r[i] = p[i]
      /\ r[Len(p) + 1] = n
  BY <1>1, AppendSet, LenProperties DEF MoveLast
<1>3. ASSUME NEW k \in DOMAIN r, r[k] # n
      PROVE  \E i \in DOMAIN q :
                /\ r[k] = q[i] /\ q[i] # n
                /\ \A j \in DOMAIN q : i <= j /\ q[j] # n => \E l \in DOMAIN r : k <= l /\ r[l] = q[j]
                /\ \E l \in DOMAIN r : k <= l /\ r[l] = n
  <2>1. k \in DOMAIN p /\ r[k] = p[k]
    BY <1>2, <1>3
  <2>2. PICK i \in DOMAIN q :
          /\ p[k] = q[i] /\ q[i] # n
          /\ \A j \in DOMAIN q : i <= j /\ q[j] # n => \E l \in DOMAIN p : k <= l /\ p[l] = q[j]
    BY <2>1, RemoveAllLater
  <2> HIDE DEF p, r
  <2>3. DOMAIN p \subseteq DOMAIN r /\ \A l \in DOMAIN p : r[l] = p[l]
    BY <1>2
  <2>4. \A j \in DOMAIN q : i <= j /\ q[j] # n => \E l \in DOMAIN r : k <= l /\ r[l] = q[j]
    BY <2>2, <2>3
  <2>5. Len(p) + 1 \in DOMAIN r /\ k <= Len(p) + 1
    BY <1>2, <2>1
  <2>6. \E l \in DOMAIN r : k <= l /\ r[l] = n
    BY <1>2, <2>5
  <2> QED BY <2>1, <2>2, <2>4, <2>6
<1> HIDE DEF p, r
<1>5. \A k \in DOMAIN r :
        \/ r[k] = n
        \/ \E i \in DOMAIN q :
             /\ r[k] = q[i] /\ q[i] # n
             /\ \A j \in DOMAIN q : i <= j /\ q[j] # n =>
                  \E l \in DOMAIN r : k <= l /\ r[l] = q[j]
             /\ \E l \in DOMAIN r : k <= l /\ r[l] = n
  BY <1>3
<1> QED BY <1>5 DEF r

-----------------------------------------------------------------------------
(* Types                                                                    *)

\* The order that an undo registers the formulas in: any listing of the set.
LEMMA ListingIs ==
  ASSUME NEW S, IsFiniteSet(S), NEW q \in SetToSeqs(S)
  PROVE  q \in Seq(S) /\ ToSet(q) = S
<1> DEFINE D == 1..Cardinality(S)
<1>1. q \in [D -> S] /\ \A i, j \in D : i # j => q[i] # q[j]
  BY DEF SetToSeqs
<1>2. Cardinality(S) \in Nat
  BY FS_CardinalityType
<1>3. IsFiniteSet(D) /\ Cardinality(D) = Cardinality(S)
  BY <1>2, FS_Interval
<1>4. q \in Injection(D, S)
  BY <1>1 DEF Injection, IsInjective
<1>5. q \in Surjection(D, S)
  BY <1>3, <1>4, FS_Injection
<1>6. q \in Seq(S)
  BY <1>1, <1>2
<1>7. ToSet(q) = S
  BY <1>1, <1>5 DEF ToSet, Surjection
<1> QED BY <1>6, <1>7

LEMMA WithIs ==
  ASSUME NEW f, NEW n, NEW v
  PROVE  /\ DOMAIN With(f, n, v) = DOMAIN f \cup {n}
         /\ With(f, n, v)[n] = v
         /\ \A m \in DOMAIN f : m # n => With(f, n, v)[m] = f[m]
  BY DEF With

LEMMA WithoutIs ==
  ASSUME NEW f, NEW S
  PROVE  /\ DOMAIN Without(f, S) = DOMAIN f \ S
         /\ \A m \in DOMAIN f \ S : Without(f, S)[m] = f[m]
  BY DEF Without, Restrict

LEMMA StoreWith ==
  ASSUME NEW s, IsStore(s), NEW n \in Names, NEW v
  PROVE  IsStore(With(s, n, v))
  BY DEF IsStore, With

LEMMA StoreWithout ==
  ASSUME NEW s, IsStore(s), NEW S
  PROVE  IsStore(Without(s, S))
  BY DEF IsStore, Without, Restrict

LEMMA RegistryWith ==
  ASSUME NEW f, IsRegistry(f), NEW n \in Names, NEW e \in Exprs
  PROVE  IsRegistry(With(f, n, e))
<1>1. IsFiniteSet(DOMAIN f \cup {n})
  BY FS_AddElement DEF IsRegistry
<1>2. With(f, n, e) \in [DOMAIN f \cup {n} -> Exprs]
  BY DEF IsRegistry, With
<1>3. DOMAIN f \cup {n} \in SUBSET Names
  BY DEF IsRegistry
<1>4. DOMAIN With(f, n, e) = DOMAIN f \cup {n}
  BY WithIs
<1> QED BY <1>1, <1>2, <1>3, <1>4 DEF IsRegistry

LEMMA RegistryRestrict ==
  ASSUME NEW f, IsRegistry(f), NEW S, S \subseteq DOMAIN f
  PROVE  IsRegistry(Restrict(f, S)) /\ DOMAIN Restrict(f, S) = S
<1>1. IsFiniteSet(S)
  BY FS_Subset DEF IsRegistry
<1>2. Restrict(f, S) \in [S -> Exprs] /\ DOMAIN Restrict(f, S) = S
  BY DEF IsRegistry, Restrict
<1>3. S \in SUBSET Names
  BY DEF IsRegistry
<1> QED BY <1>1, <1>2, <1>3 DEF IsRegistry

LEMMA RegistryWithout ==
  ASSUME NEW f, IsRegistry(f), NEW S
  PROVE  IsRegistry(Without(f, S))
  BY RegistryRestrict DEF Without

\* A rename in an expression keeps the number of references or lowers it.
LEMMA RewrittenIs ==
  ASSUME NEW e \in Exprs, NEW from, NEW to \in Names
  PROVE  Rewritten(e, from, to) \in Exprs
<1>1. IsFiniteSet(e) /\ Cardinality(e) <= MaxRefs /\ e \in SUBSET Names
  BY DEF Exprs
<1>2. CASE from \in e
  <2> DEFINE d == e \ {from}
  <2>1. IsFiniteSet(d) /\ Cardinality(d) = Cardinality(e) - 1
    BY <1>1, <1>2, FS_RemoveElement
  <2> HIDE DEF d
  <2>2. IsFiniteSet(d \cup {to}) /\ Cardinality(d \cup {to}) <= Cardinality(d) + 1
    <3>1. Cardinality(d) \in Nat
      BY <2>1, FS_CardinalityType
    <3>2. IsFiniteSet(d \cup {to})
      BY <2>1, FS_AddElement
    <3>3. Cardinality(d \cup {to}) = IF to \in d THEN Cardinality(d) ELSE Cardinality(d) + 1
      BY <2>1, FS_AddElement
    <3> QED BY <3>1, <3>2, <3>3
  <2>3. Cardinality(e) \in Nat /\ Cardinality(d \cup {to}) \in Nat
    BY <1>1, <2>2, FS_CardinalityType
  <2>4. Cardinality(d \cup {to}) <= MaxRefs
    BY <1>1, <2>1, <2>2, <2>3, BoundsAssumption
  <2>5. d \cup {to} \in SUBSET Names
    BY <1>1 DEF d
  <2> QED BY <1>2, <2>2, <2>4, <2>5 DEF Rewritten, Exprs, d
<1>3. CASE from \notin e
  BY <1>3 DEF Rewritten
<1> QED BY <1>2, <1>3

LEMMA TypeInit == Init => TypeOK
<1> SUFFICES ASSUME Init PROVE TypeOK
  OBVIOUS
<1>1. IsFiniteSet({}) /\ DOMAIN <<>> = {}
  BY FS_EmptySet
<1>2. IsStore(<<>>)
  BY <1>1 DEF IsStore
<1>3. IsRegistry(<<>>)
  BY <1>1 DEF IsRegistry
<1>4. ToSet(<<>>) = {}
  BY <1>1 DEF ToSet
<1>5. <<>> \in Seq(Names)
  BY EmptySeq
<1> QED BY <1>1, <1>2, <1>3, <1>4, <1>5 DEF Init, TypeOK, NoSnap

\* The registry and the order after setFormula and forget.
LEMMA SetFormulaOK ==
  ASSUME TypeOK, NEW n \in Names, NEW e \in Exprs
  PROVE  /\ IsRegistry(With(formulas, n, e))
         /\ MoveLast(order, n) \in Seq(Names)
         /\ ToSet(MoveLast(order, n)) = DOMAIN With(formulas, n, e)
<1>1. IsRegistry(With(formulas, n, e))
  BY RegistryWith DEF TypeOK
<1>2. MoveLast(order, n) \in Seq(Names) /\ ToSet(MoveLast(order, n)) = ToSet(order) \cup {n}
  BY MoveLastSet DEF TypeOK
<1>3. DOMAIN With(formulas, n, e) = DOMAIN formulas \cup {n}
  BY WithIs
<1> QED BY <1>1, <1>2, <1>3 DEF TypeOK

LEMMA ForgetOK ==
  ASSUME TypeOK, NEW n
  PROVE  /\ IsRegistry(Without(formulas, {n}))
         /\ RemoveAll(order, n) \in Seq(Names)
         /\ ToSet(RemoveAll(order, n)) = DOMAIN Without(formulas, {n})
<1>1. IsRegistry(Without(formulas, {n}))
  BY RegistryWithout DEF TypeOK
<1>2. RemoveAll(order, n) \in Seq(Names) /\ ToSet(RemoveAll(order, n)) = ToSet(order) \ {n}
  BY RemoveAllSet DEF TypeOK
<1>3. DOMAIN Without(formulas, {n}) = DOMAIN formulas \ {n}
  BY WithoutIs
<1> QED BY <1>1, <1>2, <1>3 DEF TypeOK

LEMMA RenamedOK ==
  ASSUME TypeOK, NEW from \in Names, NEW to \in Names
  PROVE  /\ IsRegistry(RenamedFormulas(from, to))
         /\ RenamedOrder(from, to) \in Seq(Names)
         /\ ToSet(RenamedOrder(from, to)) = DOMAIN RenamedFormulas(from, to)
<1> DEFINE f == [m \in DOMAIN formulas |-> Rewritten(formulas[m], from, to)]
<1>1. IsRegistry(formulas) /\ order \in Seq(Names) /\ ToSet(order) = DOMAIN formulas
  BY DEF TypeOK
<1>2. DOMAIN f = DOMAIN formulas
  OBVIOUS
<1>3. IsRegistry(f)
  <2>1. f \in [DOMAIN formulas -> Exprs]
    BY <1>1, RewrittenIs DEF IsRegistry
  <2> HIDE DEF f
  <2> QED BY <1>1, <1>2, <2>1 DEF IsRegistry
<1>4. /\ RenamedFormulas(from, to)
           = IF from \in DOMAIN formulas THEN With(Without(f, {from}), to, f[from]) ELSE f
  BY DEF RenamedFormulas
<1> HIDE DEF f
<1>5. CASE from \in DOMAIN formulas
  <2> DEFINE g == With(Without(f, {from}), to, f[from])
             p == ReplaceAll(order, from, to)
  <2>1. f[from] \in Exprs /\ IsRegistry(Without(f, {from}))
    BY <1>2, <1>3, <1>5, RegistryWithout DEF IsRegistry
  <2>2. IsRegistry(g)
    BY <2>1, RegistryWith
  <2>3. DOMAIN g = (DOMAIN formulas \ {from}) \cup {to}
    <3>1. DOMAIN Without(f, {from}) = DOMAIN formulas \ {from}
      BY <1>2, WithoutIs
    <3>2. DOMAIN g = DOMAIN Without(f, {from}) \cup {to}
      BY WithIs
    <3> QED BY <3>1, <3>2
  <2>4. p = [i \in 1..Len(order) |-> IF order[i] = from THEN to ELSE order[i]]
    BY DEF ReplaceAll
  <2>5. p \in Seq(Names) /\ DOMAIN p = 1..Len(order) /\ DOMAIN order = 1..Len(order)
    BY <1>1, <2>4
  <2> HIDE DEF p, g
  <2>6. ToSet(p) = (ToSet(order) \ {from}) \cup {to}
    <3>1. ToSet(p) \subseteq (ToSet(order) \ {from}) \cup {to}
      BY <2>4, <2>5 DEF ToSet
    <3>2. ToSet(order) \ {from} \subseteq ToSet(p)
      BY <2>4, <2>5 DEF ToSet
    <3>3. to \in ToSet(p)
      <4>1. PICK i \in 1..Len(order) : order[i] = from
        BY <1>1, <1>5, <2>5 DEF ToSet
      <4>2. p[i] = to
        BY <2>4, <4>1
      <4> QED BY <2>5, <4>2 DEF ToSet
    <3> QED BY <3>1, <3>2, <3>3
  <2>7. RenamedFormulas(from, to) = g /\ RenamedOrder(from, to) = p
    BY <1>4, <1>5 DEF RenamedOrder, g, p
  <2> QED BY <1>1, <2>2, <2>3, <2>5, <2>6, <2>7
<1>6. CASE from \notin DOMAIN formulas
  BY <1>1, <1>2, <1>3, <1>4, <1>6 DEF RenamedOrder
<1> QED BY <1>5, <1>6

\* Evaluating a formula again changes no definition.
LEMMA RecordAgainKeeps ==
  ASSUME TypeOK, NEW n \in DOMAIN formulas, RecordAgain(n)
  PROVE  formulas' = formulas /\ order' = MoveLast(order, n)
<1>1. formulas = [m \in DOMAIN formulas |-> formulas[m]]
  BY DEF TypeOK, IsRegistry
<1>2. DOMAIN formulas \cup {n} = DOMAIN formulas
  OBVIOUS
<1>3. With(formulas, n, formulas[n]) = [m \in DOMAIN formulas |-> formulas[m]]
  BY <1>2 DEF With
<1> QED BY <1>1, <1>3 DEF RecordAgain, SetFormula, MoveLast

LEMMA TypeStep == TypeOK /\ [Next]_vars => TypeOK'
<1> SUFFICES ASSUME TypeOK, [Next]_vars PROVE TypeOK'
  OBVIOUS
<1>t. /\ edits \in Nat /\ IsStore(store) /\ IsRegistry(formulas)
      /\ order \in Seq(Names) /\ ToSet(order) = DOMAIN formulas
      /\ pending \in Seq(Names) /\ failed \in Seq(Names)
      /\ recomputing \in BOOLEAN /\ progress \in BOOLEAN /\ due \in BOOLEAN
      /\ IsStore(snap.store) /\ IsRegistry(snap.formulas)
      /\ DOMAIN snap.formulas \subseteq DOMAIN snap.store
      /\ snap.taken \in BOOLEAN /\ undone \in BOOLEAN
      /\ <<>> \in Seq(Names)
  BY EmptySeq DEF TypeOK
<1>u. ASSUME UserOp PROVE edits' \in Nat /\ undone' \in BOOLEAN
  <2>1. undone' \in BOOLEAN
    BY <1>u, ZenonT(20) DEF UserOp
  <2> QED BY <1>t, <1>u, <2>1 DEF UserOp, Edit
<1>b. ASSUME NEW q \in Seq(Names), BeginRecompute(q)
      PROVE  recomputing' \in BOOLEAN /\ pending' \in Seq(Names) /\ failed' \in Seq(Names)
             /\ progress' \in BOOLEAN
  BY <1>t, <1>b DEF BeginRecompute
<1>1. ASSUME NEW n \in Names, AddSource(n) PROVE TypeOK'
  <2>1. IsStore(store')
    BY <1>t, <1>1, StoreWith DEF AddSource
  <2>2. IsRegistry(formulas') /\ order' \in Seq(Names) /\ ToSet(order') = DOMAIN formulas'
    BY <1>t, <1>1, ForgetOK DEF AddSource, Forget
  <2> QED BY <1>t, <1>u, <1>1, <2>1, <2>2 DEF AddSource, ScheduleRecompute, loopVars, TypeOK
<1>2. ASSUME NEW n \in Names, RemoveChannel(n) PROVE TypeOK'
  <2>1. IsStore(store')
    BY <1>t, <1>2, StoreWithout DEF RemoveChannel
  <2>2. IsRegistry(formulas') /\ order' \in Seq(Names) /\ ToSet(order') = DOMAIN formulas'
    BY <1>2, ForgetOK DEF RemoveChannel, Forget
  <2> QED BY <1>t, <1>u, <1>2, <2>1, <2>2 DEF RemoveChannel, loopVars, TypeOK
<1>3. ASSUME NEW n \in Names, LoadDataOnly(n) PROVE TypeOK'
  <2>1. IsRegistry(formulas') /\ order' \in Seq(Names) /\ ToSet(order') = DOMAIN formulas'
    BY <1>3, ForgetOK DEF LoadDataOnly, Forget
  <2>2. recomputing' \in BOOLEAN /\ pending' \in Seq(Names) /\ failed' \in Seq(Names)
        /\ progress' \in BOOLEAN
    BY <1>b, <1>3, ForgetOK DEF LoadDataOnly
  <2> QED BY <1>t, <1>u, <1>3, <2>1, <2>2 DEF LoadDataOnly, TypeOK
<1>4. ASSUME NEW n \in Names, NEW e \in Exprs, Define(n, e) PROVE TypeOK'
  <2>1. IsStore(store')
    BY <1>t, <1>4, StoreWith DEF Define
  <2>2. IsRegistry(formulas') /\ order' \in Seq(Names) /\ ToSet(order') = DOMAIN formulas'
    BY <1>4, SetFormulaOK DEF Define, SetFormula, MoveLast
  <2> QED BY <1>t, <1>u, <1>4, <2>1, <2>2 DEF Define, ScheduleRecompute, loopVars, TypeOK
<1>5. ASSUME NEW n \in Names, NEW e \in Exprs, LoadFormula(n, e) PROVE TypeOK'
  <2>1. IsRegistry(formulas') /\ order' \in Seq(Names) /\ ToSet(order') = DOMAIN formulas'
    BY <1>5, SetFormulaOK DEF LoadFormula, SetFormula, MoveLast
  <2>2. recomputing' \in BOOLEAN /\ pending' \in Seq(Names) /\ failed' \in Seq(Names)
        /\ progress' \in BOOLEAN
    BY <1>b, <1>5, SetFormulaOK DEF LoadFormula, MoveLast
  <2> QED BY <1>t, <1>u, <1>5, <2>1, <2>2 DEF LoadFormula, TypeOK
<1>6. ASSUME NEW old \in Names, NEW n \in Names, NEW e \in Exprs, Redefine(old, n, e)
      PROVE  TypeOK'
  <2>1. IsStore(store')
    <3>1. IsStore(With(store, n, Value(e)))
      BY <1>t, StoreWith
    <3> QED BY <1>6, <3>1, StoreWithout DEF Redefine
  <2> DEFINE f == With(formulas, n, e)
             q == MoveLast(order, n)
  <2>2. IsRegistry(f) /\ q \in Seq(Names) /\ ToSet(q) = DOMAIN f
    BY SetFormulaOK
  <2>3. formulas' = Without(f, {old}) /\ order' = RemoveAll(q, old)
    BY <1>6 DEF Redefine, MoveLast
  <2> HIDE DEF f, q
  <2>4. IsRegistry(formulas') /\ DOMAIN formulas' = DOMAIN f \ {old}
    BY <2>2, <2>3, RegistryWithout, WithoutIs
  <2>5. order' \in Seq(Names) /\ ToSet(order') = DOMAIN formulas'
    <3>1. RemoveAll(q, old) \in Seq(Names) /\ ToSet(RemoveAll(q, old)) = ToSet(q) \ {old}
      BY <2>2, RemoveAllSet
    <3> QED BY <2>2, <2>3, <2>4, <3>1
  <2> QED BY <1>t, <1>u, <1>6, <2>1, <2>4, <2>5 DEF Redefine, ScheduleRecompute, loopVars, TypeOK
<1>7. ASSUME NEW from \in Names, NEW to \in Names, Rename(from, to) PROVE TypeOK'
  <2>1. IsStore(store')
    <3>1. IsStore(Without(store, {from}))
      BY <1>t, StoreWithout
    <3> QED BY <1>7, <3>1, StoreWith DEF Rename
  <2>2. IsRegistry(formulas') /\ order' \in Seq(Names) /\ ToSet(order') = DOMAIN formulas'
    BY <1>7, RenamedOK DEF Rename
  <2>3. recomputing' \in BOOLEAN /\ pending' \in Seq(Names) /\ failed' \in Seq(Names)
        /\ progress' \in BOOLEAN
    BY <1>b, <1>7, RenamedOK DEF Rename
  <2> QED BY <1>t, <1>u, <1>7, <2>1, <2>2, <2>3 DEF Rename, TypeOK
<1>8. ASSUME Redraw PROVE TypeOK'
  <2>1. recomputing' \in BOOLEAN /\ pending' \in Seq(Names) /\ failed' \in Seq(Names)
        /\ progress' \in BOOLEAN
    BY <1>t, <1>b, <1>8 DEF Redraw
  <2> QED BY <1>t, <1>u, <1>8, <2>1 DEF Redraw, TypeOK
<1>9. ASSUME TimerFires PROVE TypeOK'
  <2>1. recomputing' \in BOOLEAN /\ pending' \in Seq(Names) /\ failed' \in Seq(Names)
        /\ progress' \in BOOLEAN
    BY <1>t, <1>b, <1>9 DEF TimerFires
  <2> QED BY <1>t, <1>9, <2>1 DEF TimerFires, TypeOK
<1>10. ASSUME Capture PROVE TypeOK'
  <2> DEFINE S == DOMAIN formulas \cap DOMAIN store
  <2>1. IsRegistry(Restrict(formulas, S)) /\ DOMAIN Restrict(formulas, S) = S
    BY <1>t, RegistryRestrict
  <2>2. snap' = [taken |-> TRUE, store |-> store, formulas |-> Restrict(formulas, S)]
    BY <1>10 DEF Capture
  <2> HIDE DEF S
  <2>3. snap'.store = store /\ snap'.formulas = Restrict(formulas, S) /\ snap'.taken \in BOOLEAN
    BY <2>2
  <2>4. DOMAIN snap'.formulas \subseteq DOMAIN snap'.store
    BY <2>1, <2>3 DEF S
  <2> QED BY <1>t, <1>10, <2>1, <2>3, <2>4 DEF Capture, loopVars, TypeOK
<1>11. ASSUME Restore PROVE TypeOK'
  <2>1. PICK q \in SetToSeqs(DOMAIN snap.formulas) : order' = q /\ BeginRecompute(q)
    BY <1>11 DEF Restore, RestoredFormulas
  <2>2. q \in Seq(DOMAIN snap.formulas) /\ ToSet(q) = DOMAIN snap.formulas
    BY <1>t, <2>1, ListingIs DEF IsRegistry
  <2>3. q \in Seq(Names)
    BY <1>t, <2>2, SeqMonotonic DEF IsRegistry
  <2>4. recomputing' \in BOOLEAN /\ pending' \in Seq(Names) /\ failed' \in Seq(Names)
        /\ progress' \in BOOLEAN
    BY <1>b, <2>1, <2>3
  <2>5. edits' \in Nat /\ undone' \in BOOLEAN /\ due' \in BOOLEAN
    BY <1>t, <1>11 DEF Restore, Edit
  <2> QED BY <1>t, <1>11, <2>1, <2>2, <2>3, <2>4, <2>5 DEF Restore, RestoredFormulas, TypeOK
<1>12. ASSUME EvaluateNext PROVE TypeOK'
  <2> DEFINE n == Head(pending)
  <2>1. pending # <<>> /\ n \in Names /\ pending' \in Seq(Names)
    BY <1>t, <1>12, HeadTailProperties DEF EvaluateNext
  <2>2. Append(failed, n) \in Seq(Names)
    BY <1>t, <2>1, AppendSet
  <2> HIDE DEF n
  <2>3. CASE n \notin DOMAIN formulas
    BY <1>t, <1>12, <2>1, <2>3 DEF EvaluateNext, TypeOK, n
  <2>4. CASE n \in DOMAIN formulas /\ ~Evaluates(formulas[n])
    BY <1>t, <1>12, <2>1, <2>2, <2>4 DEF EvaluateNext, TypeOK, n
  <2>5. CASE n \in DOMAIN formulas /\ Evaluates(formulas[n])
    <3>1. store' = With(store, n, Value(formulas[n])) /\ RecordAgain(n) /\ failed' = failed
          /\ progress' = TRUE /\ due' = due
      BY <1>12, <2>5 DEF EvaluateNext, n, DueAfterRecompute
    <3>2. IsStore(store')
      BY <1>t, <2>1, <3>1, StoreWith
    <3>3. formulas' = formulas /\ order' = MoveLast(order, n)
      BY <2>5, <3>1, RecordAgainKeeps
    <3>4. order' \in Seq(Names) /\ ToSet(order') = ToSet(order) \cup {n}
      <4>0. order \in Seq(Names) /\ n \in Names
        BY <1>t, <2>1
      <4>1. MoveLast(order, n) \in Seq(Names) /\ ToSet(MoveLast(order, n)) = ToSet(order) \cup {n}
        BY <4>0, MoveLastSet
      <4> QED BY <3>3, <4>1
    <3>5. ToSet(order') = DOMAIN formulas'
      BY <1>t, <2>5, <3>3, <3>4
    <3>6. UNCHANGED <<edits, recomputing, snap, undone>>
      BY <1>12 DEF EvaluateNext
    <3> QED BY <1>t, <2>1, <3>1, <3>2, <3>3, <3>4, <3>5, <3>6 DEF TypeOK
  <2> QED BY <2>3, <2>4, <2>5
<1>13. ASSUME EndPass PROVE TypeOK'
  <2>1. recomputing' \in BOOLEAN
    BY <1>13, ZenonT(20) DEF EndPass, Again
  <2>2. pending' \in Seq(Names) /\ failed' \in Seq(Names) /\ progress' \in BOOLEAN
    BY <1>t, <1>13 DEF EndPass
  <2> QED BY <1>t, <1>13, <2>1, <2>2 DEF EndPass, TypeOK
<1>14. ASSUME UNCHANGED vars PROVE TypeOK'
  BY <1>t, <1>14 DEF vars, loopVars, TypeOK
<1> QED
  BY <1>1, <1>2, <1>3, <1>4, <1>5, <1>6, <1>7, <1>8, <1>9, <1>10, <1>11, <1>12, <1>13, <1>14
  DEF Next, Recompute

\* Type correctness: the order always lists exactly the registered formulas,
\* without which recomputeAll() would skip some, and an undo snapshot has formulas
\* only for channels it has.
THEOREM TypeCorrect == Spec => []TypeOK
<1>1. Init => TypeOK
  BY TypeInit
<1>2. TypeOK /\ [Next]_vars => TypeOK'
  BY TypeStep
<1> QED BY <1>1, <1>2, PTL DEF Spec

-----------------------------------------------------------------------------
(* The recompute loop                                                       *)

\* Shows and Value of an order o, a registry f and a store s.
ValueIn(s, e) == Compute([m \in e |-> s[m]])
ShowsIn(o, f, s, i) ==
  /\ f[o[i]] \subseteq DOMAIN s /\ o[i] \in DOMAIN s
  /\ s[o[i]] = ValueIn(s, f[o[i]]) \/ \E j \in DOMAIN o : i <= j /\ o[j] \in f[o[i]]

LEMMA ShowsIs ==
  /\ \A i : Shows(i) <=> ShowsIn(order, formulas, store, i)
  /\ \A i : Shows(i)' <=> ShowsIn(order', formulas', store', i)
  BY DEF Shows, ShowsIn, Value, ValueIn, Evaluates

\* What an expression evaluates to depends on its channels only.
LEMMA ValueKept ==
  ASSUME NEW s, NEW t, NEW e, \A m \in e : t[m] = s[m]
  PROVE  ValueIn(t, e) = ValueIn(s, e)
<1>1. [m \in e |-> t[m]] = [m \in e |-> s[m]]
  OBVIOUS
<1> QED BY <1>1 DEF ValueIn

\* A formula that showed its operands still does at its new place k, when they are
\* as they were or one of them now follows, and those that followed still do.
LEMMA ShowsMoved ==
  ASSUME NEW o, NEW f, NEW s, NEW p, NEW g, NEW t, NEW i, NEW k,
         ShowsIn(o, f, s, i),
         p[k] = o[i], g[o[i]] = f[o[i]],
         f[o[i]] \subseteq DOMAIN t, o[i] \in DOMAIN t, t[o[i]] = s[o[i]],
         \/ \A m \in f[o[i]] : t[m] = s[m]
         \/ \E j \in DOMAIN p : k <= j /\ p[j] \in f[o[i]],
         \A j \in DOMAIN o : i <= j /\ o[j] \in f[o[i]] =>
           \E l \in DOMAIN p : k <= l /\ p[l] \in f[o[i]]
  PROVE  ShowsIn(p, g, t, k)
<1> DEFINE n == o[i]
           e == f[n]
<1>1. s[n] = ValueIn(s, e) \/ \E j \in DOMAIN p : k <= j /\ p[j] \in e
  BY DEF ShowsIn
<1>2. t[n] = ValueIn(t, e) \/ \E j \in DOMAIN p : k <= j /\ p[j] \in e
  BY <1>1, ValueKept
<1> QED BY <1>2 DEF ShowsIn

LEMMA SettledStep == TypeOK /\ SettledInv /\ LoopInv /\ [Next]_vars => SettledInv'
<1> SUFFICES ASSUME TypeOK, SettledInv, LoopInv, [Next]_vars, Idle' PROVE SettledInv'
  BY DEF SettledInv
<1>t. order \in Seq(Names) /\ ToSet(order) = DOMAIN formulas
  BY DEF TypeOK
<1>0. ~recomputing' /\ ~due'
  BY DEF Idle
<1>b. \A q : ~BeginRecompute(q)
  BY <1>0 DEF BeginRecompute
<1>1. ASSUME NEW n \in Names, RemoveChannel(n) PROVE SettledInv'
  <2>1. /\ Idle /\ order' = RemoveAll(order, n)
        /\ formulas' = Without(formulas, {n}) /\ store' = Without(store, {n})
    BY <1>0, <1>1 DEF RemoveChannel, Forget, Idle
  <2>2. DOMAIN store' = DOMAIN store \ {n} /\ \A m \in DOMAIN store \ {n} : store'[m] = store[m]
    BY <2>1, WithoutIs
  <2>3. \A m \in DOMAIN formulas \ {n} : formulas'[m] = formulas[m]
    BY <2>1, WithoutIs
  <2>4. ASSUME NEW k \in DOMAIN order', formulas'[order'[k]] \subseteq DOMAIN store'
        PROVE  Shows(k)'
    <3>1. PICK i \in DOMAIN order :
            /\ order'[k] = order[i] /\ order[i] # n
            /\ \A j \in DOMAIN order : i <= j /\ order[j] # n =>
                 \E l \in DOMAIN order' : k <= l /\ order'[l] = order[j]
      BY <1>t, <2>1, RemoveAllLater
    <3>2. order[i] \in DOMAIN formulas \ {n}
      BY <1>t, <3>1 DEF ToSet
    <3>3. formulas'[order[i]] = formulas[order[i]] /\ formulas[order[i]] \subseteq DOMAIN store \ {n}
      BY <2>2, <2>3, <2>4, <3>1, <3>2
    <3>4. ShowsIn(order, formulas, store, i)
      BY <2>1, <3>3, ShowsIs DEF SettledInv, Evaluates
    <3>5. order[i] \in DOMAIN store \ {n}
      BY <3>1, <3>4 DEF ShowsIn
    <3>6. \A j \in DOMAIN order : i <= j /\ order[j] \in formulas[order[i]] =>
            \E l \in DOMAIN order' : k <= l /\ order'[l] \in formulas[order[i]]
      BY <3>1, <3>3
    <3>7. \A m \in formulas[order[i]] : store'[m] = store[m]
      BY <2>2, <3>3
    <3>8. formulas[order[i]] \subseteq DOMAIN store' /\ order[i] \in DOMAIN store'
          /\ store'[order[i]] = store[order[i]]
      BY <2>2, <3>3, <3>5
    <3>9. ShowsIn(order', formulas', store', k)
      BY <3>1, <3>3, <3>4, <3>6, <3>7, <3>8, ShowsMoved
    <3> QED BY <3>9, ShowsIs
  <2> QED BY <2>4 DEF SettledInv, Evaluates
<1>2. ASSUME EndPass PROVE SettledInv'
  <2>1. recomputing /\ pending = <<>> /\ ~Again /\ UNCHANGED <<store, formulas, order>>
    BY <1>0, <1>2 DEF EndPass
  <2>2. ToSet(pending) = {}
    BY <2>1 DEF ToSet
  <2>3. ASSUME NEW i \in DOMAIN order, Evaluates(formulas[order[i]]) PROVE Shows(i)
    <3>1. CASE order[i] \in ToSet(failed) /\ progress
      <4>1. failed # <<>>
        BY <3>1 DEF ToSet
      <4> QED BY <2>1, <3>1, <4>1 DEF Again
    <3> QED BY <2>1, <2>2, <2>3, <3>1 DEF LoopInv
  <2>4. ASSUME NEW i \in DOMAIN order', Evaluates(formulas[order[i]])' PROVE Shows(i)'
    BY <2>1, <2>3, <2>4 DEF Shows, Evaluates, Value
  <2> QED BY <2>4 DEF SettledInv
<1>3. ASSUME UNCHANGED <<store, formulas, order, recomputing, due>> PROVE SettledInv'
  BY <1>3, <1>0 DEF SettledInv, Shows, Evaluates, Value, Idle
<1>4. ASSUME NEW n \in Names PROVE ~AddSource(n) /\ ~LoadDataOnly(n)
  BY <1>0, <1>b DEF AddSource, ScheduleRecompute, LoadDataOnly
<1>5. ASSUME NEW n \in Names, NEW e \in Exprs PROVE ~Define(n, e) /\ ~LoadFormula(n, e)
  BY <1>0, <1>b DEF Define, ScheduleRecompute, LoadFormula
<1>6. ASSUME NEW old \in Names, NEW n \in Names, NEW e \in Exprs PROVE ~Redefine(old, n, e)
  BY <1>0 DEF Redefine, ScheduleRecompute
<1>7. ASSUME NEW from \in Names, NEW to \in Names PROVE ~Rename(from, to)
  BY <1>b DEF Rename
<1>8. ~Redraw /\ ~Restore /\ ~TimerFires /\ ~EvaluateNext
  BY <1>0, <1>b DEF Redraw, Restore, TimerFires, EvaluateNext
<1>9. Capture \/ UNCHANGED vars => UNCHANGED <<store, formulas, order, recomputing, due>>
  BY DEF Capture, vars
<1> QED BY <1>1, <1>2, <1>3, <1>4, <1>5, <1>6, <1>7, <1>8, <1>9 DEF Next, Recompute

\* A pass starts with every formula to be tried.
LEMMA BeginLoop ==
  ASSUME BeginRecompute(order')
  PROVE  LoopInv'
<1>1. pending' = order'
  BY DEF BeginRecompute
<1>2. \A i \in DOMAIN order' : order'[i] \in ToSet(pending')
  BY <1>1 DEF ToSet
<1> QED BY <1>2 DEF LoopInv

LEMMA TailSet ==
  ASSUME NEW S, NEW q \in Seq(S), q # <<>>
  PROVE  ToSet(q) \subseteq ToSet(Tail(q)) \cup {Head(q)}
<1>1. /\ DOMAIN q = 1..Len(q) /\ DOMAIN Tail(q) = 1..Len(Tail(q)) /\ Len(q) \in Nat
      /\ Len(Tail(q)) = Len(q) - 1 /\ Head(q) = q[1]
      /\ \A i \in 1..Len(Tail(q)) : Tail(q)[i] = q[i + 1]
  BY HeadTailProperties, LenProperties
<1>2. ASSUME NEW i \in DOMAIN q, i # 1 PROVE q[i] \in ToSet(Tail(q))
  <2>1. i - 1 \in 1..Len(Tail(q)) /\ (i - 1) + 1 = i
    BY <1>1, <1>2
  <2>2. Tail(q)[i - 1] = q[i]
    BY <1>1, <2>1
  <2> QED BY <1>1, <2>1, <2>2 DEF ToSet
<1> QED BY <1>1, <1>2 DEF ToSet

LEMMA LoopStep == TypeOK /\ LoopInv /\ [Next]_vars => LoopInv'
<1> SUFFICES ASSUME TypeOK, LoopInv, [Next]_vars, recomputing' PROVE LoopInv'
  BY DEF LoopInv
<1>t. /\ order \in Seq(Names) /\ ToSet(order) = DOMAIN formulas
      /\ pending \in Seq(Names) /\ failed \in Seq(Names)
  BY DEF TypeOK
<1>1. ASSUME EvaluateNext PROVE LoopInv'
  <2> DEFINE n == Head(pending)
  <2>1. recomputing /\ pending # <<>> /\ pending' = Tail(pending) /\ n \in Names
    BY <1>t, <1>1, HeadTailProperties DEF EvaluateNext
  <2>2. ToSet(pending) \subseteq ToSet(pending') \cup {n}
    BY <1>t, <2>1, TailSet
  <2> HIDE DEF n
  <2>3. CASE n \notin DOMAIN formulas
    <3>1. UNCHANGED <<store, formulas, order, failed, progress>>
      BY <1>1, <2>3 DEF EvaluateNext, n
    <3>2. \A i \in DOMAIN order : order[i] # n
      BY <1>t, <2>3 DEF ToSet
    <3>3. \A i : Shows(i)' <=> Shows(i)
      BY <3>1, ShowsIs
    <3> QED BY <2>1, <2>2, <3>1, <3>2, <3>3 DEF LoopInv, Evaluates
  <2>4. CASE n \in DOMAIN formulas /\ ~Evaluates(formulas[n])
    <3>1. UNCHANGED <<store, formulas, order, progress>> /\ failed' = Append(failed, n)
      BY <1>1, <2>4 DEF EvaluateNext, n
    <3>2. ToSet(failed') = ToSet(failed) \cup {n}
      BY <1>t, <2>1, <3>1, AppendSet
    <3>3. \A i : Shows(i)' <=> Shows(i)
      BY <3>1, ShowsIs
    <3> QED BY <2>1, <2>2, <2>4, <3>1, <3>2, <3>3 DEF LoopInv, Evaluates
  <2>5. CASE n \in DOMAIN formulas /\ Evaluates(formulas[n])
    <3>1. store' = With(store, n, Value(formulas[n])) /\ RecordAgain(n)
          /\ failed' = failed /\ progress'
      BY <1>1, <2>5 DEF EvaluateNext, n
    <3>2. formulas' = formulas /\ order' = MoveLast(order, n)
      BY <2>5, <3>1, RecordAgainKeeps
    <3>3. /\ DOMAIN store' = DOMAIN store \cup {n} /\ store'[n] = Value(formulas[n])
          /\ \A m \in DOMAIN store : m # n => store'[m] = store[m]
      BY <3>1 DEF With
    <3>4. ASSUME NEW k \in DOMAIN order', order'[k] = n PROVE Shows(k)'
      <4>1. CASE n \in formulas[n]
        <5>1. k <= k
          BY <1>t, <2>1, <3>2, <3>4, MoveLastSet, LenProperties
        <5> QED BY <2>5, <3>2, <3>3, <3>4, <4>1, <5>1, ShowsIs DEF ShowsIn, Evaluates
      <4>2. CASE n \notin formulas[n]
        <5>1. \A m \in formulas[n] : store'[m] = store[m]
          BY <2>5, <3>3, <4>2 DEF Evaluates
        <5>2. store'[n] = ValueIn(store', formulas[n])
          BY <3>3, <5>1, ValueKept DEF Value, ValueIn
        <5> QED BY <2>5, <3>2, <3>3, <3>4, <5>2, ShowsIs DEF ShowsIn, Evaluates
      <4> QED BY <4>1, <4>2
    <3>5. ASSUME NEW k \in DOMAIN order', order'[k] # n
          PROVE  \/ order'[k] \in ToSet(pending')
                 \/ order'[k] \in ToSet(failed')
                 \/ Shows(k)'
      <4>0. order \in Seq(Names) /\ n \in Names
        BY <1>t, <2>1
      <4>1. PICK i \in DOMAIN order :
              /\ order'[k] = order[i] /\ order[i] # n
              /\ \A j \in DOMAIN order : i <= j /\ order[j] # n =>
                   \E l \in DOMAIN order' : k <= l /\ order'[l] = order[j]
              /\ \E l \in DOMAIN order' : k <= l /\ order'[l] = n
        BY <3>2, <3>5, <4>0, MoveLastLater
      <4>2. \A j \in DOMAIN order : i <= j /\ order[j] \in formulas[order[i]] =>
              \E l \in DOMAIN order' : k <= l /\ order'[l] \in formulas[order[i]]
        BY <4>1
      <4>3. CASE Shows(i)
        <5>1. ShowsIn(order, formulas, store, i)
          BY <4>3, ShowsIs
        <5>2. formulas[order[i]] \subseteq DOMAIN store' /\ order[i] \in DOMAIN store'
              /\ store'[order[i]] = store[order[i]]
          BY <3>3, <4>1, <5>1 DEF ShowsIn
        <5>3. \/ \A m \in formulas[order[i]] : store'[m] = store[m]
              \/ \E j \in DOMAIN order' : k <= j /\ order'[j] \in formulas[order[i]]
          BY <3>3, <4>1, <5>1 DEF ShowsIn
        <5>4. ShowsIn(order', formulas', store', k)
          BY <3>2, <4>1, <4>2, <5>1, <5>2, <5>3, ShowsMoved
        <5> QED BY <5>4, ShowsIs
      <4>4. CASE order[i] \in ToSet(pending) \/ order[i] \in ToSet(failed)
        BY <2>2, <3>1, <4>1, <4>4
      <4> QED BY <2>1, <4>3, <4>4 DEF LoopInv
    <3> QED BY <3>1, <3>4, <3>5 DEF LoopInv
  <2> QED BY <2>3, <2>4, <2>5
<1>2. ASSUME EndPass PROVE LoopInv'
  <2>1. recomputing /\ pending = <<>> /\ pending' = failed /\ UNCHANGED <<store, formulas, order>>
    BY <1>2 DEF EndPass
  <2>2. ToSet(pending) = {}
    BY <2>1 DEF ToSet
  <2>3. \A i : Shows(i)' <=> Shows(i)
    BY <2>1, ShowsIs
  <2> QED BY <2>1, <2>2, <2>3 DEF LoopInv
<1>3. ASSUME UNCHANGED vars PROVE LoopInv'
  <2>1. \A i : Shows(i)' <=> Shows(i)
    BY <1>3, ShowsIs DEF vars
  <2> QED BY <1>3, <2>1 DEF LoopInv, Evaluates, vars, loopVars
<1>4. ASSUME NEW n \in Names PROVE ~AddSource(n) /\ ~RemoveChannel(n)
  BY DEF AddSource, RemoveChannel, UserOp, Edit
<1>5. ASSUME NEW n \in Names, LoadDataOnly(n) PROVE LoopInv'
  BY <1>5, BeginLoop DEF LoadDataOnly, Forget
<1>6. ASSUME NEW n \in Names, NEW e \in Exprs PROVE ~Define(n, e)
  BY DEF Define, UserOp, Edit
<1>7. ASSUME NEW n \in Names, NEW e \in Exprs, LoadFormula(n, e) PROVE LoopInv'
  BY <1>7, BeginLoop DEF LoadFormula, SetFormula
<1>8. ASSUME NEW old \in Names, NEW n \in Names, NEW e \in Exprs PROVE ~Redefine(old, n, e)
  BY DEF Redefine, UserOp, Edit
<1>9. ASSUME NEW from \in Names, NEW to \in Names, Rename(from, to) PROVE LoopInv'
  BY <1>9, BeginLoop DEF Rename
<1>10. ASSUME Redraw \/ TimerFires PROVE LoopInv'
  BY <1>10, BeginLoop DEF Redraw, TimerFires
<1>11. ASSUME Restore PROVE LoopInv'
  BY <1>11, BeginLoop DEF Restore
<1>12. ~Capture
  BY DEF Capture
<1> QED
  BY <1>1, <1>2, <1>3, <1>4, <1>5, <1>6, <1>7, <1>8, <1>9, <1>10, <1>11, <1>12 DEF Next, Recompute

-----------------------------------------------------------------------------
(* Undo                                                                     *)

\* A snapshot's formula at rest shows what it computes, so that recomputing it
\* leaves the store as it is.
LEMMA UndoStep == TypeOK /\ SettledInv /\ UndoInv /\ [Next]_vars => UndoInv'
<1> SUFFICES ASSUME TypeOK, SettledInv, UndoInv, [Next]_vars, undone', SnapFresh'
             PROVE  UndoInv'
  BY DEF UndoInv
<1>t. /\ order \in Seq(Names) /\ ToSet(order) = DOMAIN formulas /\ IsStore(store)
      /\ DOMAIN snap.formulas \subseteq DOMAIN snap.store
  BY DEF TypeOK
<1>1. ASSUME EvaluateNext PROVE UndoInv'
  <2> DEFINE n == Head(pending)
  <2>0. UNCHANGED <<snap, undone>>
    BY <1>1 DEF EvaluateNext
  <2>1. /\ store = snap.store
        /\ \A m \in DOMAIN formulas :
             \/ m \in DOMAIN snap.formulas /\ formulas[m] = snap.formulas[m]
             \/ ~Evaluates(formulas[m])
    BY <2>0 DEF UndoInv, SnapFresh
  <2> HIDE DEF n
  <2>2. CASE n \in DOMAIN formulas /\ Evaluates(formulas[n])
    <3>1. store' = With(store, n, Value(formulas[n])) /\ RecordAgain(n)
      BY <1>1, <2>2 DEF EvaluateNext, n
    <3>2. formulas' = formulas
      BY <2>2, <3>1, RecordAgainKeeps
    <3>3. n \in DOMAIN snap.formulas /\ formulas[n] = snap.formulas[n] /\ n \in DOMAIN store
      BY <1>t, <2>1, <2>2
    <3>4. store[n] = Value(formulas[n])
      BY <2>0, <2>1, <2>2, <3>3 DEF SnapFresh, Value, Restrict, Evaluates
    <3>5. store' = store
      <4>1. DOMAIN store \cup {n} = DOMAIN store /\ store = [m \in DOMAIN store |-> store[m]]
        BY <1>t, <3>3 DEF IsStore
      <4>2. With(store, n, store[n]) = [m \in DOMAIN store |-> store[m]]
        BY <4>1 DEF With
      <4> QED BY <3>1, <3>4, <4>1, <4>2
    <3> QED BY <2>0, <2>1, <3>2, <3>5 DEF UndoInv, Evaluates
  <2>3. CASE ~(n \in DOMAIN formulas /\ Evaluates(formulas[n]))
    <3>1. UNCHANGED <<store, formulas>>
      BY <1>1, <2>3 DEF EvaluateNext, n
    <3> QED BY <2>0, <2>1, <3>1 DEF UndoInv, Evaluates
  <2> QED BY <2>2, <2>3
<1>2. ASSUME Restore PROVE UndoInv'
  BY <1>2 DEF Restore, RestoredFormulas, UndoInv
<1>3. ASSUME Capture PROVE UndoInv'
  <2>1. /\ Idle /\ snap'.store = store /\ UNCHANGED <<store, formulas>>
        /\ snap'.formulas = Restrict(formulas, DOMAIN formulas \cap DOMAIN store)
    BY <1>3 DEF Capture, Idle
  <2>2. ASSUME NEW n \in DOMAIN formulas, Evaluates(formulas[n])
        PROVE  n \in DOMAIN snap'.formulas /\ formulas[n] = snap'.formulas[n]
    <3>1. PICK i \in DOMAIN order : order[i] = n
      BY <1>t DEF ToSet
    <3>2. n \in DOMAIN store
      BY <2>1, <2>2, <3>1 DEF SettledInv, Shows
    <3> QED BY <2>1, <3>2 DEF Restrict
  <2> QED BY <2>1, <2>2 DEF UndoInv, Evaluates
<1>4. ASSUME UNCHANGED <<store, formulas, snap, undone>> PROVE UndoInv'
  BY <1>4 DEF UndoInv, SnapFresh, Evaluates
<1>5. EndPass \/ TimerFires \/ UNCHANGED vars => UNCHANGED <<store, formulas, snap, undone>>
  BY DEF EndPass, TimerFires, vars
<1>6. ~UserOp
  BY DEF UserOp
<1>7. ASSUME NEW n \in Names PROVE ~AddSource(n) /\ ~RemoveChannel(n) /\ ~LoadDataOnly(n)
  BY <1>6 DEF AddSource, RemoveChannel, LoadDataOnly
<1>8. ASSUME NEW n \in Names, NEW e \in Exprs PROVE ~Define(n, e) /\ ~LoadFormula(n, e)
  BY <1>6 DEF Define, LoadFormula
<1>9. ASSUME NEW old \in Names, NEW n \in Names, NEW e \in Exprs PROVE ~Redefine(old, n, e)
  BY <1>6 DEF Redefine
<1>10. ASSUME NEW from \in Names, NEW to \in Names PROVE ~Rename(from, to)
  BY <1>6 DEF Rename
<1>11. ~Redraw
  BY <1>6 DEF Redraw
<1> QED BY <1>1, <1>2, <1>3, <1>4, <1>5, <1>7, <1>8, <1>9, <1>10, <1>11 DEF Next, Recompute

-----------------------------------------------------------------------------
(* The theorems                                                             *)

LEMMA RecomputeCorrect == Spec => [](TypeOK /\ RecomputeInv)
<1>1. Init => TypeOK /\ RecomputeInv
  <2>1. Init => RecomputeInv
    BY DEF Init, RecomputeInv, SettledInv, LoopInv, UndoInv
  <2> QED BY <2>1, TypeInit
<1>2. TypeOK /\ RecomputeInv /\ [Next]_vars => (TypeOK /\ RecomputeInv)'
  BY TypeStep, SettledStep, LoopStep, UndoStep DEF RecomputeInv
<1> QED BY <1>1, <1>2, PTL DEF Spec

\* Once the recompute timer and recomputeAll() are through, no formula whose
\* operands exist is without its channel, for any number of formulas however they
\* refer to each other.
THEOREM NothingLeftOut == Spec => []NoFormulaLeftOut
<1>1. TypeOK /\ RecomputeInv => NoFormulaLeftOut
  <2> SUFFICES ASSUME TypeOK, SettledInv, Idle, NEW n \in DOMAIN formulas, Evaluates(formulas[n])
               PROVE  n \in DOMAIN store
    BY DEF RecomputeInv, NoFormulaLeftOut
  <2>1. PICK i \in DOMAIN order : order[i] = n
    BY DEF TypeOK, ToSet
  <2> QED BY <2>1 DEF SettledInv, Shows
<1> QED BY <1>1, RecomputeCorrect, PTL

\* When the registry is in dependency order, every formula then shows the current
\* samples of its operands: one ordered walk of recomputeAll() is enough, whatever
\* was added, removed, renamed, loaded or undone before it.
THEOREM OrderedFormulasFresh == Spec => []OrderedIsFresh
<1>1. TypeOK /\ RecomputeInv => OrderedIsFresh
  <2> SUFFICES ASSUME TypeOK, SettledInv, Idle, InOrder,
                      NEW n \in DOMAIN formulas, Evaluates(formulas[n])
               PROVE  n \in DOMAIN store /\ store[n] = Value(formulas[n])
    BY DEF RecomputeInv, OrderedIsFresh, Fresh
  <2>1. PICK i \in DOMAIN order : order[i] = n
    BY DEF TypeOK, ToSet
  <2>2. n \in DOMAIN store
        /\ (store[n] = Value(formulas[n]) \/ \E j \in DOMAIN order : i <= j /\ order[j] \in formulas[n])
    BY <2>1 DEF SettledInv, Shows
  <2>3. DOMAIN order = 1..Len(order) /\ Len(order) \in Nat
    BY LenProperties DEF TypeOK
  <2>4. ASSUME NEW j \in DOMAIN order, i <= j PROVE order[j] \notin formulas[n]
    BY <2>1, <2>3, <2>4 DEF InOrder
  <2> QED BY <2>2, <2>4
<1> QED BY <1>1, RecomputeCorrect, PTL

\* After an undo to a consistent snapshot the store is the snapshot's, during and
\* after every recompute that the undo sets off.
THEOREM UndoRestores == Spec => []UndoRestoresValues
<1>1. RecomputeInv => UndoRestoresValues
  BY DEF RecomputeInv, UndoInv, UndoRestoresValues
<1> QED BY <1>1, RecomputeCorrect, PTL

LEMMA RenameKeepsOrder ==
  ASSUME TypeOK, NEW from \in Names, NEW to \in Names, Rename(from, to), InOrder, Unused(to)
  PROVE  InOrder'
<1> DEFINE f == [m \in DOMAIN formulas |-> Rewritten(formulas[m], from, to)]
<1>1. /\ order \in Seq(Names) /\ ToSet(order) = DOMAIN formulas
      /\ DOMAIN order = 1..Len(order) /\ from # to
      /\ to \notin DOMAIN formulas /\ \A m \in DOMAIN formulas : to \notin formulas[m]
  BY LenProperties DEF TypeOK, Rename, Unused
<1>2. \A i \in DOMAIN order : order[i] \in DOMAIN formulas
  BY <1>1 DEF ToSet
<1>3. \A i, j \in DOMAIN order : order[j] \in formulas[order[i]] => j < i
  BY DEF InOrder
<1>4. \A m \in DOMAIN formulas : f[m] = Rewritten(formulas[m], from, to)
  OBVIOUS
<1>5. formulas' = (IF from \in DOMAIN formulas THEN With(Without(f, {from}), to, f[from]) ELSE f)
  BY DEF Rename, RenamedFormulas
<1>6. DOMAIN f = DOMAIN formulas
  OBVIOUS
<1> HIDE DEF f
<1>7. CASE from \in DOMAIN formulas
  <2>1. order' = [i \in 1..Len(order) |-> IF order[i] = from THEN to ELSE order[i]]
    BY <1>7 DEF Rename, RenamedOrder, ReplaceAll
  <2>2. DOMAIN order' = DOMAIN order
        /\ \A i \in DOMAIN order : order'[i] = IF order[i] = from THEN to ELSE order[i]
    BY <1>1, <2>1
  <2>3. \A i \in DOMAIN order : formulas'[order'[i]] = f[order[i]]
    <3> SUFFICES ASSUME NEW i \in DOMAIN order PROVE formulas'[order'[i]] = f[order[i]]
      OBVIOUS
    <3>1. formulas' = With(Without(f, {from}), to, f[from])
      BY <1>5, <1>7
    <3>2. CASE order[i] = from
      BY <2>2, <3>1, <3>2 DEF With
    <3>3. CASE order[i] # from
      <4>1. order'[i] = order[i] /\ order[i] \in DOMAIN f \ {from} /\ order[i] # to
        BY <1>1, <1>2, <1>6, <2>2, <3>3
      <4>2. order[i] \in DOMAIN Without(f, {from}) /\ Without(f, {from})[order[i]] = f[order[i]]
        BY <4>1, WithoutIs
      <4> QED BY <3>1, <4>1, <4>2 DEF With
    <3> QED BY <3>2, <3>3
  <2>4. ASSUME NEW i \in DOMAIN order, NEW j \in DOMAIN order, order'[j] \in f[order[i]]
        PROVE  order[j] \in formulas[order[i]]
    <3>1. order'[j] \in Rewritten(formulas[order[i]], from, to)
      BY <1>2, <1>4, <2>4
    <3>2. order[j] # to /\ to \notin formulas[order[i]]
      BY <1>1, <1>2
    <3> QED BY <1>1, <2>2, <3>1, <3>2 DEF Rewritten
  <2> QED BY <1>3, <2>2, <2>3, <2>4 DEF InOrder
<1>8. CASE from \notin DOMAIN formulas
  <2>1. order' = order /\ formulas' = f
    BY <1>5, <1>8 DEF Rename, RenamedOrder
  <2>2. ASSUME NEW i \in DOMAIN order, NEW j \in DOMAIN order, order[j] \in f[order[i]]
        PROVE  order[j] \in formulas[order[i]]
    <3>1. order[j] \in Rewritten(formulas[order[i]], from, to)
      BY <1>2, <1>4, <2>2
    <3>2. order[j] # to
      BY <1>1, <1>2
    <3> QED BY <3>1, <3>2 DEF Rewritten
  <2> QED BY <1>3, <2>1, <2>2 DEF InOrder
<1> QED BY <1>7, <1>8

\* While it recomputes, no step loses or changes a definition, although the store
\* reports each replaced channel as removed; and a rename to a name that no
\* formula has or refers to keeps a dependency order.
THEOREM DefinitionsSurvive == Spec => DefinitionsKept
<1>1. ASSUME TypeOK, [Next]_vars, recomputing PROVE formulas' = formulas
  <2>1. CASE EvaluateNext
    <3>1. CASE Head(pending) \in DOMAIN formulas /\ Evaluates(formulas[Head(pending)])
      <4>1. RecordAgain(Head(pending))
        BY <2>1, <3>1 DEF EvaluateNext
      <4> QED BY <1>1, <3>1, <4>1, RecordAgainKeeps
    <3> QED BY <2>1, <3>1 DEF EvaluateNext
  <2>2. CASE EndPass \/ UNCHANGED vars
    BY <2>2 DEF EndPass, vars
  <2>3. ~UserOp /\ ~Capture /\ ~Restore /\ ~TimerFires
    BY <1>1 DEF UserOp, Edit, Capture, Restore, TimerFires
  <2>4. ASSUME NEW n \in Names PROVE ~AddSource(n) /\ ~RemoveChannel(n) /\ ~LoadDataOnly(n)
    BY <2>3 DEF AddSource, RemoveChannel, LoadDataOnly
  <2>5. ASSUME NEW n \in Names, NEW e \in Exprs PROVE ~Define(n, e) /\ ~LoadFormula(n, e)
    BY <2>3 DEF Define, LoadFormula
  <2>6. ASSUME NEW old \in Names, NEW n \in Names, NEW e \in Exprs PROVE ~Redefine(old, n, e)
    BY <2>3 DEF Redefine
  <2>7. ASSUME NEW from \in Names, NEW to \in Names PROVE ~Rename(from, to)
    BY <2>3 DEF Rename
  <2>8. ~Redraw
    BY <2>3 DEF Redraw
  <2> QED BY <1>1, <2>1, <2>2, <2>3, <2>4, <2>5, <2>6, <2>7, <2>8 DEF Next, Recompute
<1> DEFINE Kept == /\ recomputing => formulas' = formulas
                   /\ \A from, to \in Names :
                        Rename(from, to) /\ InOrder /\ Unused(to) => InOrder'
<1>2. TypeOK /\ [Next]_vars => Kept
  BY <1>1, RenameKeepsOrder
<1>3. TypeOK /\ [Next]_vars => [Kept]_vars
  BY <1>2
<1> QED BY <1>3, TypeCorrect, PTL DEF Spec, DefinitionsKept
=============================================================================
