------------------------- MODULE CoverageGateProofs ------------------------
(* Theorems about the planning of a review, the verdict on its coverage and  *)
(* the debt that it leaves, for any packs, reviewers, limits, configurations  *)
(* and failing calls.                                                        *)
EXTENDS CoverageGate, FiniteSetTheorems, SequenceTheorems, TLAPS

-----------------------------------------------------------------------------
(* What the folds of the community modules compute, by an induction of its own: the
   place of an element counts up, and an affordable pack is taken or left. *)

LEMMA Induction ==
    ASSUME NEW T, T \subseteq Nat, 0 \in T, \A n \in T : n + 1 \in T
    PROVE  T = Nat
<1> DEFINE less == OpToRel(<, Nat)
           Rest == Nat \ T
<1>1. \A m, n \in Nat : m < n => <<m, n>> \in less
  BY DEF OpToRel
<1>2. IsWellFoundedOn(less, Nat)
  BY NatLessThanWellFounded
<1> HIDE DEF less
<1> SUFFICES ASSUME Rest # {} PROVE FALSE
  OBVIOUS
<1>3. PICK x \in Rest : \A y \in Rest : <<y, x>> \notin less
  BY <1>2, WFMin
<1>4. x - 1 \in Nat /\ x - 1 \notin T
  <2>1. x # 0 /\ x \in Nat
    OBVIOUS
  <2> QED
    BY <2>1
<1>5. x - 1 \in Rest /\ <<x - 1, x>> \in less
  <2>1. x \in Nat /\ x - 1 < x
    OBVIOUS
  <2> QED
    BY <1>1, <1>4, <2>1
<1> QED
  BY <1>3, <1>5, Zenon

\* ch picks an element of every set that has one.
Picks(ch, S) == \A s \in SUBSET S : s # {} => ch[s] \in s

\* f[s] is what the elements of s make of base, the one that ch picks last.
Folds(f, S, base, ch, step) ==
  \A s \in SUBSET S : f[s] = IF s = {} THEN base ELSE step[ch[s]][f[s \ {ch[s]}]]

LEMMA FoldExists ==
    ASSUME NEW S, IsFiniteSet(S), NEW A, NEW base \in A,
           NEW ch, Picks(ch, S),
           NEW step \in [S -> [A -> A]]
    PROVE  \E f \in [SUBSET S -> A] : Folds(f, S, base, ch, step)
<1> DEFINE Sz(n) == {s \in SUBSET S : Cardinality(s) <= n}
           Value(g, s) == IF s = {} THEN base ELSE step[ch[s]][g[s \ {ch[s]}]]
           T == {n \in Nat : \E g \in [Sz(n) -> A] : \A s \in Sz(n) : g[s] = Value(g, s)}
<1>1. \A s \in SUBSET S : IsFiniteSet(s) /\ Cardinality(s) \in Nat
  BY FS_Subset, FS_CardinalityType
<1>2. \A s \in SUBSET S : s # {} => s \ {ch[s]} \in SUBSET S /\ Cardinality(s \ {ch[s]}) = Cardinality(s) - 1
  BY <1>1, FS_RemoveElement DEF Picks
<1>3. 0 \in T
  <2> DEFINE g == [s \in Sz(0) |-> base]
  <2>1. \A s \in Sz(0) : s = {}
    BY <1>1, FS_EmptySet
  <2>2. g \in [Sz(0) -> A] /\ \A s \in Sz(0) : g[s] = Value(g, s)
    BY <2>1
  <2> QED
    BY <2>2
<1>4. ASSUME NEW n \in T PROVE n + 1 \in T
  <2>1. PICK g \in [Sz(n) -> A] : \A s \in Sz(n) : g[s] = Value(g, s)
    OBVIOUS
  <2> DEFINE h == [s \in Sz(n + 1) |-> IF s \in Sz(n) THEN g[s] ELSE Value(g, s)]
  <2>2. Sz(n) \subseteq Sz(n + 1)
    BY <1>1
  <2>3. \A s \in Sz(n + 1) : s # {} => s \ {ch[s]} \in Sz(n)
    BY <1>1, <1>2
  <2>4. {} \in Sz(n)
    BY FS_EmptySet
  <2>5. ASSUME NEW s \in Sz(n + 1) PROVE h[s] \in A /\ h[s] = Value(h, s)
    <3>1. CASE s = {}
      BY <2>1, <2>4, <3>1
    <3>2. CASE s # {}
      <4>1. s \ {ch[s]} \in Sz(n) /\ ch[s] \in S
        BY <2>3, <3>2 DEF Picks
      <4>2. h[s \ {ch[s]}] = g[s \ {ch[s]}] /\ g[s \ {ch[s]}] \in A
        BY <4>1, <2>2
      <4>3. h[s] = Value(g, s)
        BY <2>1
      <4>4. step[ch[s]][g[s \ {ch[s]}]] \in A
        <5>1. step[ch[s]] \in [A -> A]
          BY <4>1
        <5> QED
          BY <4>2, <5>1
      <4> QED
        BY <3>2, <4>2, <4>3, <4>4
    <3> QED
      BY <3>1, <3>2
  <2>6. h \in [Sz(n + 1) -> A]
    BY <2>5
  <2>7. n + 1 \in Nat
    OBVIOUS
  <2> HIDE DEF h
  <2> QED
    BY <2>5, <2>6, <2>7
<1>5. T = Nat
  <2> HIDE DEF T
  <2>1. T \subseteq Nat
    BY DEF T
  <2> QED
    BY <1>3, <1>4, <2>1, Induction
<1>6. Cardinality(S) \in T
  BY <1>1, <1>5
<1>7. Sz(Cardinality(S)) = SUBSET S
  BY <1>1, FS_Subset
<1>8. PICK f \in [Sz(Cardinality(S)) -> A] : \A s \in Sz(Cardinality(S)) : f[s] = Value(f, s)
  BY <1>6
<1>9. \A s \in SUBSET S : f[s] = Value(f, s)
  BY <1>7, <1>8, Zenon
<1>10. f \in [SUBSET S -> A]
  BY <1>7, <1>8, Zenon
<1> QED
  <2>1. Folds(f, S, base, ch, step)
    BY <1>9, Zenon DEF Folds
  <2> QED
    BY <1>10, <2>1

\* Functions that agree on the rest of a set agree on the set.
Agree(f, g, S, ch) ==
  /\ f[{}] = g[{}]
  /\ \A s \in SUBSET S : s # {} /\ f[s \ {ch[s]}] = g[s \ {ch[s]}] => f[s] = g[s]

LEMMA FoldIsUnique ==
    ASSUME NEW S, IsFiniteSet(S), NEW ch, Picks(ch, S), NEW f, NEW g, Agree(f, g, S, ch)
    PROVE  \A s \in SUBSET S : f[s] = g[s]
<1> DEFINE T == {n \in Nat : \A s \in SUBSET S : Cardinality(s) = n => f[s] = g[s]}
<1>1. \A s \in SUBSET S : IsFiniteSet(s) /\ Cardinality(s) \in Nat
  BY FS_Subset, FS_CardinalityType
<1>2. \A s \in SUBSET S : s # {} => s \ {ch[s]} \in SUBSET S /\ Cardinality(s \ {ch[s]}) = Cardinality(s) - 1
  BY <1>1, FS_RemoveElement DEF Picks
<1>3. 0 \in T
  BY <1>1, FS_EmptySet DEF Agree
<1>4. ASSUME NEW n \in T PROVE n + 1 \in T
  <2>1. ASSUME NEW s \in SUBSET S, Cardinality(s) = n + 1 PROVE f[s] = g[s]
    <3>1. s # {}
      <4>1. n + 1 # 0
        OBVIOUS
      <4> QED
        BY <2>1, <4>1, FS_EmptySet
    <3>2. Cardinality(s \ {ch[s]}) = n
      BY <1>2, <2>1, <3>1
    <3> QED
      BY <1>2, <3>1, <3>2 DEF Agree
  <2> QED
    BY <2>1
<1>5. T = Nat
  <2> HIDE DEF T
  <2>1. T \subseteq Nat
    BY DEF T
  <2> QED
    BY <1>3, <1>4, <2>1, Induction
<1> QED
  BY <1>1, <1>5
LEMMA MaxPicks == ASSUME NEW n \in Nat PROVE \A s \in SUBSET (1..n) : s # {} => Max(s) \in s /\ \A i \in s : i <= Max(s)
<1> DEFINE T == {k \in Nat : \A s \in SUBSET (1..k) : s # {} => \E m \in s : \A i \in s : m >= i}
<1>1. 0 \in T
  <2>1. 1..0 = {}
    OBVIOUS
  <2> QED
    BY <2>1
<1>2. ASSUME NEW k \in T PROVE k + 1 \in T
  <2>1. ASSUME NEW s \in SUBSET (1..k + 1), s # {} PROVE \E m \in s : \A i \in s : m >= i
    <3>1. CASE k + 1 \in s
      BY <3>1
    <3>2. CASE k + 1 \notin s
      <4>1. s \in SUBSET (1..k)
        BY <3>2
      <4> QED
        BY <2>1, <4>1
    <3> QED
      BY <3>1, <3>2
  <2> QED
    BY <2>1
<1>3. T = Nat
  <2> HIDE DEF T
  <2>1. T \subseteq Nat
    BY DEF T
  <2> QED
    BY <1>1, <1>2, <2>1, Induction
<1>4. ASSUME NEW s \in SUBSET (1..n), s # {} PROVE Max(s) \in s /\ \A i \in s : i <= Max(s)
  <2>1. n \in T
    BY <1>3
  <2>2. \E m \in s : \A i \in s : m >= i
    BY <1>4, <2>1
  <2>3. Max(s) \in s /\ \A i \in s : Max(s) >= i
    BY <2>2, Zenon DEF Max
  <2> QED
    BY <2>3
<1> QED
  BY <1>4

\* Max picks the last index of a set of indexes.
LastIn(n) == [s \in SUBSET (1..n) |-> Max(s)]

LEMMA LastPicks == ASSUME NEW n \in Nat PROVE Picks(LastIn(n), 1..n) /\ IsFiniteSet(1..n)
<1>1. IsFiniteSet(1..n)
  BY FS_Interval
<1>2. Picks(LastIn(n), 1..n)
  BY MaxPicks DEF Picks, LastIn
<1> QED
  BY <1>1, <1>2

\* t[i] is what the first i steps make of base.
Traces(t, n, base, step) == t[0] = base /\ \A i \in 1..n : t[i] = step[i][t[i - 1]]

\* A fold over 1..n and its trace.
FoldAndTrace(f, t, n, base, step) ==
  Folds(f, 1..n, base, LastIn(n), step) /\ Traces(t, n, base, step) /\ t[n] = f[1..n]

LEMMA FoldTrace ==
    ASSUME NEW A, NEW base \in A, NEW n \in Nat, NEW step \in [1..n -> [A -> A]]
    PROVE  \E f \in [SUBSET (1..n) -> A], t \in [0..n -> A] :
             FoldAndTrace(f, t, n, base, step)
<1>1. PICK S : S = 1..n
  OBVIOUS
<1>2. PICK ch : ch = LastIn(n)
  OBVIOUS
<1>3. PICK f \in [SUBSET S -> A] : Folds(f, S, base, ch, step)
  <2>1. IsFiniteSet(S) /\ step \in [S -> [A -> A]]
    BY <1>1, FS_Interval
  <2>2. Picks(ch, S)
    BY <1>1, <1>2, LastPicks
  <2> QED
    BY <2>1, <2>2, FoldExists
<1>4. \A s \in SUBSET (1..n) : f[s] = IF s = {} THEN base ELSE step[Max(s)][f[s \ {Max(s)}]]
  BY <1>1, <1>2, <1>3 DEF Folds, LastIn
<1> DEFINE t == [i \in 0..n |-> f[1..i]]
<1>5. t \in [0..n -> A]
  <2>1. \A i \in 0..n : 1..i \in SUBSET (1..n)
    OBVIOUS
  <2> QED
    BY <1>1, <2>1
<1>6. ASSUME NEW i \in 1..n PROVE t[i] = step[i][t[i - 1]]
  <2>1. 1..i \in SUBSET (1..n) /\ i \in 1..i
    OBVIOUS
  <2>2. Max(1..i) = i
    <3>1. Max(1..i) \in 1..i /\ i <= Max(1..i)
      <4> DEFINE w == 1..i
      <4>1. w \in SUBSET (1..n) /\ w # {} /\ i \in w
        BY <2>1
      <4> HIDE DEF w
      <4>2. Max(w) \in w /\ i <= Max(w)
        BY <4>1, MaxPicks
      <4> QED
        BY <4>2 DEF w
    <3> QED
      BY <3>1
  <2>3. (1..i) \ {i} = 1..(i - 1) /\ i - 1 \in 0..n /\ i \in 0..n
    OBVIOUS
  <2>4. f[1..i] = step[i][f[1..(i - 1)]]
    BY <1>4, <2>1, <2>2, <2>3
  <2> QED
    BY <2>3, <2>4
<1>7. t[0] = base
  <2>1. 1..0 = {} /\ {} \in SUBSET (1..n) /\ 0 \in 0..n
    OBVIOUS
  <2> QED
    BY <1>4, <2>1
<1>8. t[n] = f[1..n]
  OBVIOUS
<1>9. Traces(t, n, base, step)
  BY <1>6, <1>7 DEF Traces
<1> HIDE DEF t
<1>10. FoldAndTrace(f, t, n, base, step)
  BY <1>1, <1>2, <1>3, <1>8, <1>9 DEF FoldAndTrace
<1> QED
  BY <1>1, <1>5, <1>10

\* t[i] is what is taken of the first i packs of seq.
Takes(t, seq, n, depth, budget) ==
  /\ t[0] = {}
  /\ \A i \in 1..n : t[i] = IF Tokens(t[i - 1] \cup {seq[i]}, depth) <= budget THEN t[i - 1] \cup {seq[i]} ELSE t[i - 1]

\* ... and t[n] is what Affordable takes.
AffordableIn(t, packs, n, depth, budget) ==
  Takes(t, Ordered(packs, {}), n, depth, budget) /\ Affordable(packs, depth, budget) = t[n]

LEMMA AffordableTrace ==
    ASSUME NEW packs, NEW depth, NEW budget, NEW n \in Nat, Ordered(packs, {}) \in [1..n -> packs]
    PROVE  \E t \in [0..n -> SUBSET packs] : AffordableIn(t, packs, n, depth, budget)
<1> DEFINE seq == Ordered(packs, {})
           Op(taken, p) == IF Tokens(taken \cup {p}, depth) <= budget THEN taken \cup {p} ELSE taken
           D == SUBSET DOMAIN seq
           it == CHOOSE it : it = [s \in D |-> IF s = {} THEN {} ELSE Op(it[s \ {Max(s)}], seq[Max(s)])]
<1>a. PICK A : A = SUBSET packs
  OBVIOUS
<1>b. PICK none : none = {}
  OBVIOUS
<1>c. PICK step : step = [i \in 1..n |-> [a \in A |-> Op(a, seq[i])]]
  OBVIOUS
<1>1. Affordable(packs, depth, budget) = it[DOMAIN seq]
  BY DEF Affordable, FoldLeft, MapThenFoldSet
<1>2. DOMAIN seq = 1..n /\ \A i \in 1..n : seq[i] \in packs
  OBVIOUS
<1>3. step \in [1..n -> [A -> A]] /\ none \in A
  BY <1>a, <1>b, <1>c, <1>2
<1>4. PICK f \in [SUBSET (1..n) -> A], t \in [0..n -> A] :
        FoldAndTrace(f, t, n, none, step)
  BY <1>3, FoldTrace, Zenon
<1>5. \A s \in D : s # {} => Max(s) \in 1..n /\ s \ {Max(s)} \in D
  BY <1>2, MaxPicks
<1>6. f = [s \in D |-> IF s = {} THEN {} ELSE Op(f[s \ {Max(s)}], seq[Max(s)])]
  <2>1. \A s \in D : f[s] = IF s = {} THEN {} ELSE Op(f[s \ {Max(s)}], seq[Max(s)])
    BY <1>a, <1>b, <1>c, <1>2, <1>4, <1>5 DEF FoldAndTrace, Folds, LastIn
  <2> HIDE DEF Op
  <2> QED
    BY <1>a, <1>2, <1>4, <2>1
<1>7. it = [s \in D |-> IF s = {} THEN {} ELSE Op(it[s \ {Max(s)}], seq[Max(s)])]
  <2> HIDE DEF Op, D, seq
  <2> QED
    BY <1>6, Zenon
<1> HIDE DEF it
<1>8. Agree(it, f, 1..n, LastIn(n))
  <2> HIDE DEF Op
  <2>1. D = SUBSET (1..n) /\ {} \in D
    BY <1>2
  <2>2. it[{}] = {} /\ f[{}] = {}
    BY <1>6, <1>7, <2>1
  <2>3. ASSUME NEW s \in D, s # {}, f[s \ {Max(s)}] = it[s \ {Max(s)}]
        PROVE  f[s] = it[s]
    <3> HIDE DEF D, seq
    <3>1. f[s] = Op(f[s \ {Max(s)}], seq[Max(s)])
      BY <1>6, <2>3
    <3>2. it[s] = Op(it[s \ {Max(s)}], seq[Max(s)])
      BY <1>7, <2>3
    <3> QED
      BY <2>3, <3>1, <3>2
  <2> QED
    BY <2>1, <2>2, <2>3 DEF Agree, LastIn
<1>9. it[1..n] = f[1..n]
  BY <1>8, LastPicks, FoldIsUnique
<1>10. \A i \in 1..n : t[i] = Op(t[i - 1], seq[i])
  <2>1. \A i \in 1..n : t[i] = step[i][t[i - 1]] /\ t[i - 1] \in A
    <3>1. \A i \in 1..n : i - 1 \in 0..n
      OBVIOUS
    <3> QED
      BY <1>4, <3>1 DEF FoldAndTrace, Traces
  <2> QED
    BY <1>c, <2>1
<1>11. t[0] = {} /\ t[n] = f[1..n]
  BY <1>b, <1>4 DEF FoldAndTrace, Traces
<1>12. Takes(t, seq, n, depth, budget)
  BY <1>10, <1>11 DEF Takes
<1>13. Affordable(packs, depth, budget) = t[n]
  BY <1>1, <1>2, <1>9, <1>11
<1>14. t \in [0..n -> SUBSET packs]
  BY <1>a, <1>4
<1> HIDE DEF seq
<1> QED
  BY <1>12, <1>13, <1>14 DEF seq, AffordableIn

-----------------------------------------------------------------------------
(* The rank of an element of a strict order, the number of those before it. *)

\* R orders S strictly, and its elements are comparable.
Orders(R, S) ==
  /\ \A x \in S : <<x, x>> \notin R
  /\ \A x, y \in S : x # y => <<x, y>> \in R \/ <<y, x>> \in R
  /\ \A x, y, z \in S : <<x, y>> \in R /\ <<y, z>> \in R => <<x, z>> \in R

\* How many elements of S are before x.
RankIn(R, S, x) == Cardinality({y \in S : <<y, x>> \in R})

LEMMA RankRange ==
    ASSUME NEW S, IsFiniteSet(S), NEW R, Orders(R, S), NEW x \in S
    PROVE  RankIn(R, S, x) \in 0..(Cardinality(S) - 1) /\ Cardinality(S) \in Nat
<1> DEFINE T == {y \in S : <<y, x>> \in R}
<1>1. T \in SUBSET (S \ {x})
  BY DEF Orders
<1>2. IsFiniteSet(S \ {x}) /\ Cardinality(S \ {x}) = Cardinality(S) - 1
  BY FS_RemoveElement
<1>3. IsFiniteSet(T) /\ Cardinality(T) <= Cardinality(S \ {x})
  BY <1>1, <1>2, FS_Subset
<1>4. Cardinality(T) \in Nat /\ Cardinality(S) \in Nat
  BY <1>3, FS_CardinalityType
<1> HIDE DEF T
<1>5. Cardinality(T) \in 0..(Cardinality(S) - 1)
  BY <1>2, <1>3, <1>4
<1> QED
  BY <1>4, <1>5 DEF T, RankIn

LEMMA RankGrows ==
    ASSUME NEW S, IsFiniteSet(S), NEW R, Orders(R, S), NEW x \in S, NEW y \in S, <<x, y>> \in R
    PROVE  RankIn(R, S, x) < RankIn(R, S, y)
<1> DEFINE T == {z \in S : <<z, x>> \in R}
           U == {z \in S : <<z, y>> \in R}
<1>1. T \in SUBSET U /\ x \in U /\ x \notin T
  BY DEF Orders
<1>2. IsFiniteSet(U) /\ Cardinality(U) \in Nat
  <2>1. U \in SUBSET S
    OBVIOUS
  <2> QED
    BY <2>1, FS_Subset, FS_CardinalityType
<1>3. IsFiniteSet(T) /\ Cardinality(T) <= Cardinality(U) /\ Cardinality(T) # Cardinality(U)
  BY <1>1, <1>2, FS_Subset
<1>4. Cardinality(T) \in Nat
  BY <1>3, FS_CardinalityType
<1> HIDE DEF T, U
<1>5. Cardinality(T) < Cardinality(U)
  BY <1>2, <1>3, <1>4
<1> QED
  BY <1>5 DEF RankIn, T, U

LEMMA RankDiffers ==
    ASSUME NEW S, IsFiniteSet(S), NEW R, Orders(R, S), NEW x \in S, NEW y \in S, x # y
    PROVE  RankIn(R, S, x) # RankIn(R, S, y)
<1>1. RankIn(R, S, x) \in Int /\ RankIn(R, S, y) \in Int
  BY RankRange
<1>2. <<x, y>> \in R \/ <<y, x>> \in R
  BY DEF Orders
<1> QED
  BY <1>1, <1>2, RankGrows

LEMMA RankReached ==
    ASSUME NEW S, IsFiniteSet(S), NEW R, Orders(R, S), NEW k \in 0..(Cardinality(S) - 1)
    PROVE  \E x \in S : RankIn(R, S, x) = k
<1>1. PICK f : f = [x \in S |-> RankIn(R, S, x)]
  OBVIOUS
<1>2. PICK T : T = 0..(Cardinality(S) - 1)
  OBVIOUS
<1>3. Cardinality(S) \in Nat
  BY FS_CardinalityType
<1>4. IsFiniteSet(T) /\ Cardinality(T) = Cardinality(S)
  <2>1. 0 \in Int /\ Cardinality(S) - 1 \in Int
    BY <1>3
  <2>2. IsFiniteSet(T) /\ Cardinality(T) = IF 0 > Cardinality(S) - 1 THEN 0 ELSE (Cardinality(S) - 1) - 0 + 1
    BY <1>2, <2>1, FS_Interval
  <2> QED
    BY <1>3, <2>2
<1>5. f \in [S -> T]
  BY <1>1, <1>2, RankRange
<1>6. f \in Injection(S, T)
  <2>1. \A x, y \in S : f[x] = f[y] => x = y
    BY <1>1, RankDiffers
  <2> QED
    BY <1>5, <2>1 DEF Injection, IsInjective
<1>7. f \in Surjection(S, T)
  BY <1>4, <1>6, FS_Injection
<1>8. \E x \in S : f[x] = k
  BY <1>2, <1>7 DEF Surjection
<1> QED
  BY <1>1, <1>8

\* Of c places the first elements take all that they need.
LEMMA FirstCount ==
    ASSUME NEW S, IsFiniteSet(S), NEW R, Orders(R, S), NEW c \in Nat, c <= Cardinality(S)
    PROVE  /\ IsFiniteSet({x \in S : RankIn(R, S, x) < c})
           /\ Cardinality({x \in S : RankIn(R, S, x) < c}) = c
<1>1. PICK T : T = {x \in S : RankIn(R, S, x) < c}
  OBVIOUS
<1>2. PICK U : U = 0..(c - 1)
  OBVIOUS
<1>3. PICK f : f = [x \in T |-> RankIn(R, S, x)]
  OBVIOUS
<1>4. IsFiniteSet(U) /\ Cardinality(U) = c
  <2>1. 0 \in Int /\ c - 1 \in Int
    OBVIOUS
  <2>2. IsFiniteSet(U) /\ Cardinality(U) = IF 0 > c - 1 THEN 0 ELSE (c - 1) - 0 + 1
    BY <1>2, <2>1, FS_Interval
  <2> QED
    BY <2>2
<1>5. f \in [T -> U]
  <2>1. ASSUME NEW x \in T PROVE RankIn(R, S, x) \in U
    <3>1. RankIn(R, S, x) \in 0..(Cardinality(S) - 1) /\ RankIn(R, S, x) < c
      BY <1>1, RankRange
    <3> QED
      BY <1>2, <3>1
  <2> QED
    BY <1>3, <2>1
<1>6. f \in Injection(T, U)
  <2>1. \A x, y \in T : f[x] = f[y] => x = y
    BY <1>1, <1>3, RankDiffers
  <2> QED
    BY <1>5, <2>1 DEF Injection, IsInjective
<1>7. f \in Surjection(T, U)
  <2>1. ASSUME NEW k \in U PROVE \E x \in T : f[x] = k
    <3>1. k \in 0..(Cardinality(S) - 1) /\ k < c
      <4>1. Cardinality(S) \in Nat
        BY FS_CardinalityType
      <4> QED
        BY <1>2, <4>1
    <3>2. PICK x \in S : RankIn(R, S, x) = k
      BY <3>1, RankReached
    <3> QED
      BY <1>1, <1>3, <3>1, <3>2
  <2> QED
    BY <1>5, <2>1 DEF Surjection
<1>8. IsFiniteSet(T) /\ Cardinality(T) = Cardinality(U)
  BY <1>4, <1>6, <1>7, FS_Injection
<1> QED
  BY <1>1, <1>4, <1>8

-----------------------------------------------------------------------------
(* Sums. *)

\* f[s] is the sum of g over s, element by element.
Sums(f, S, g) ==
  \A s \in SUBSET S : f[s] = IF s = {} THEN 0 ELSE g[CHOOSE x \in s : TRUE] + f[s \ {CHOOSE x \in s : TRUE}]

\* The element of a set that a sum takes next.
AnyOf(S) == [s \in SUBSET S |-> CHOOSE x \in s : TRUE]

LEMMA AnyPicks == ASSUME NEW S PROVE Picks(AnyOf(S), S)
  BY DEF Picks, AnyOf

LEMMA SumExists ==
    ASSUME NEW S, IsFiniteSet(S), NEW g \in [S -> Int]
    PROVE  \E f \in [SUBSET S -> Int] : Sums(f, S, g)
<1>1. PICK A : A = Int
  OBVIOUS
<1>2. PICK base : base = 0
  OBVIOUS
<1>3. PICK ch : ch = AnyOf(S)
  OBVIOUS
<1>4. PICK step : step = [x \in S |-> [a \in A |-> g[x] + a]]
  OBVIOUS
<1>5. base \in A /\ step \in [S -> [A -> A]]
  BY <1>1, <1>2, <1>4
<1>6. Picks(ch, S)
  BY <1>3, AnyPicks
<1>7. PICK f \in [SUBSET S -> A] : Folds(f, S, base, ch, step)
  BY <1>5, <1>6, FoldExists, Zenon
<1>8. ASSUME NEW s \in SUBSET S
      PROVE  f[s] = IF s = {} THEN 0 ELSE g[CHOOSE x \in s : TRUE] + f[s \ {CHOOSE x \in s : TRUE}]
  <2>1. f[s] = IF s = {} THEN base ELSE step[ch[s]][f[s \ {ch[s]}]]
    BY <1>7 DEF Folds
  <2>2. ASSUME s # {} PROVE step[ch[s]][f[s \ {ch[s]}]] = g[ch[s]] + f[s \ {ch[s]}]
    <3>1. ch[s] \in S /\ f[s \ {ch[s]}] \in A
      <4>1. ch[s] \in s /\ s \ {ch[s]} \in SUBSET S
        BY <1>6, <2>2 DEF Picks
      <4> QED
        BY <1>7, <4>1
    <3> QED
      BY <1>4, <3>1
  <2>3. ch[s] = CHOOSE x \in s : TRUE
    BY <1>3 DEF AnyOf
  <2> QED
    BY <1>2, <2>1, <2>2, <2>3
<1> QED
  BY <1>1, <1>7, <1>8 DEF Sums

LEMMA SumsAgree ==
    ASSUME NEW S, IsFiniteSet(S), NEW g \in [S -> Int], NEW f, Sums(f, S, g)
    PROVE  f[S] \in Int
<1>1. PICK h \in [SUBSET S -> Int] : Sums(h, S, g)
  BY SumExists
<1>2. Agree(f, h, S, AnyOf(S))
  <2>1. f[{}] = h[{}]
    BY <1>1 DEF Sums
  <2>2. ASSUME NEW s \in SUBSET S, s # {}, f[s \ {CHOOSE x \in s : TRUE}] = h[s \ {CHOOSE x \in s : TRUE}]
        PROVE  f[s] = h[s]
    BY <1>1, <2>2 DEF Sums
  <2> QED
    BY <2>1, <2>2 DEF Agree, AnyOf
<1>3. f[S] = h[S]
  BY <1>2, AnyPicks, FoldIsUnique
<1> QED
  BY <1>1, <1>3

\* The sums that the model takes of packs and of signals.
LEMMA TokensAreInt ==
    ASSUME NEW packs \in SUBSET Packs, IsFiniteSet(packs), NEW depth \in Depths
    PROVE  Tokens(packs, depth) \in Int /\ (packs = {} => Tokens(packs, depth) = 0)
<1> DEFINE tokens(p) == Pack[p].tokens[depth]
           it == CHOOSE it : it = [s \in SUBSET packs |->
                   IF s = {} THEN 0 ELSE tokens(CHOOSE x \in s : TRUE) + it[s \ {CHOOSE x \in s : TRUE}]]
<1>1. Tokens(packs, depth) = it[packs]
  BY DEF Tokens, MapThenSumSet, MapThenFoldSet
<1>2. PICK g : g = [p \in packs |-> tokens(p)]
  OBVIOUS
<1>3. g \in [packs -> Int]
  BY <1>2, PacksAssumption
<1>4. PICK f \in [SUBSET packs -> Int] : Sums(f, packs, g)
  BY <1>3, SumExists
<1>5. \A s \in SUBSET packs : s # {} => g[CHOOSE x \in s : TRUE] = tokens(CHOOSE x \in s : TRUE)
  BY <1>2
<1>6. f = [s \in SUBSET packs |->
             IF s = {} THEN 0 ELSE tokens(CHOOSE x \in s : TRUE) + f[s \ {CHOOSE x \in s : TRUE}]]
  BY <1>4, <1>5 DEF Sums
<1>7. it = [s \in SUBSET packs |->
             IF s = {} THEN 0 ELSE tokens(CHOOSE x \in s : TRUE) + it[s \ {CHOOSE x \in s : TRUE}]]
  <2> HIDE DEF tokens
  <2> QED
    BY <1>6, Zenon
<1> HIDE DEF it
<1>8. Sums(it, packs, g)
  BY <1>5, <1>7 DEF Sums
<1>9. it[packs] \in Int
  BY <1>3, <1>8, SumsAgree
<1>10. packs = {} => it[packs] = 0
  BY <1>8 DEF Sums
<1> QED
  BY <1>1, <1>9, <1>10

-----------------------------------------------------------------------------
(* The weights of packs are numbers. *)

LEMMA ScoresAreInt ==
    ASSUME NEW S, IsFiniteSet(S), \A s \in S : s.score \in Nat
    PROVE  Scores(S) \in Int
<1> DEFINE term(s) == s.score
           it == CHOOSE it : it = [s \in SUBSET S |->
                   IF s = {} THEN 0 ELSE term(CHOOSE x \in s : TRUE) + it[s \ {CHOOSE x \in s : TRUE}]]
<1>1. Scores(S) = it[S]
  BY DEF Scores, MapThenSumSet, MapThenFoldSet
<1>2. PICK g : g = [s \in S |-> term(s)]
  OBVIOUS
<1>3. g \in [S -> Int]
  BY <1>2
<1>4. PICK f \in [SUBSET S -> Int] : Sums(f, S, g)
  BY <1>3, SumExists
<1>5. \A s \in SUBSET S : s # {} => g[CHOOSE x \in s : TRUE] = term(CHOOSE x \in s : TRUE)
  BY <1>2
<1>6. f = [s \in SUBSET S |->
             IF s = {} THEN 0 ELSE term(CHOOSE x \in s : TRUE) + f[s \ {CHOOSE x \in s : TRUE}]]
  BY <1>4, <1>5 DEF Sums
<1>7. it = [s \in SUBSET S |->
             IF s = {} THEN 0 ELSE term(CHOOSE x \in s : TRUE) + it[s \ {CHOOSE x \in s : TRUE}]]
  <2> HIDE DEF term
  <2> QED
    BY <1>6, Zenon
<1> HIDE DEF it
<1>8. Sums(it, S, g)
  BY <1>5, <1>7 DEF Sums
<1> QED
  BY <1>1, <1>3, <1>8, SumsAgree

LEMMA BoostsAreInt ==
    ASSUME NEW S, IsFiniteSet(S), \A s \in S : s.score \in Nat
    PROVE  Boosts(S) \in Int
<1> DEFINE term(s) == 1500 + s.score
           it == CHOOSE it : it = [s \in SUBSET S |->
                   IF s = {} THEN 0 ELSE term(CHOOSE x \in s : TRUE) + it[s \ {CHOOSE x \in s : TRUE}]]
<1>1. Boosts(S) = it[S]
  BY DEF Boosts, MapThenSumSet, MapThenFoldSet
<1>2. PICK g : g = [s \in S |-> term(s)]
  OBVIOUS
<1>3. g \in [S -> Int]
  BY <1>2
<1>4. PICK f \in [SUBSET S -> Int] : Sums(f, S, g)
  BY <1>3, SumExists
<1>5. \A s \in SUBSET S : s # {} => g[CHOOSE x \in s : TRUE] = term(CHOOSE x \in s : TRUE)
  BY <1>2
<1>6. f = [s \in SUBSET S |->
             IF s = {} THEN 0 ELSE term(CHOOSE x \in s : TRUE) + f[s \ {CHOOSE x \in s : TRUE}]]
  BY <1>4, <1>5 DEF Sums
<1>7. it = [s \in SUBSET S |->
             IF s = {} THEN 0 ELSE term(CHOOSE x \in s : TRUE) + it[s \ {CHOOSE x \in s : TRUE}]]
  <2> HIDE DEF term
  <2> QED
    BY <1>6, Zenon
<1> HIDE DEF it
<1>8. Sums(it, S, g)
  BY <1>5, <1>7 DEF Sums
<1> QED
  BY <1>1, <1>3, <1>8, SumsAgree

LEMMA MaxOfTwo ==
    ASSUME NEW a \in Int, NEW b \in Int
    PROVE  Max({a, b}) \in Int /\ Max({a, b}) = IF a <= b THEN b ELSE a
<1>1. \E m \in {a, b} : \A y \in {a, b} : m >= y
  OBVIOUS
<1>2. Max({a, b}) \in {a, b} /\ \A y \in {a, b} : Max({a, b}) >= y
  BY <1>1, Zenon DEF Max
<1> QED
  BY <1>2

LEMMA MinOfTwo ==
    ASSUME NEW a \in Int, NEW b \in Int
    PROVE  Min({a, b}) \in Int /\ Min({a, b}) = IF a <= b THEN a ELSE b
<1>1. \E m \in {a, b} : \A y \in {a, b} : m <= y
  OBVIOUS
<1>2. Min({a, b}) \in {a, b} /\ \A y \in {a, b} : Min({a, b}) <= y
  BY <1>1, Zenon DEF Min
<1> QED
  BY <1>2

LEMMA MinOfNats ==
    ASSUME NEW S \in SUBSET Nat, S # {}
    PROVE  Min(S) \in S /\ \A y \in S : Min(S) <= y
<1> DEFINE T == {n \in Nat : \A R \in SUBSET Nat : (\E x \in R : x <= n) => \E m \in R : \A y \in R : m <= y}
<1>1. 0 \in T
  <2>1. ASSUME NEW R \in SUBSET Nat, NEW x \in R, x <= 0 PROVE \A y \in R : x <= y
    BY <2>1
  <2> QED
    BY <2>1
<1>2. ASSUME NEW n \in T PROVE n + 1 \in T
  <2>1. ASSUME NEW R \in SUBSET Nat, NEW x \in R, x <= n + 1 PROVE \E m \in R : \A y \in R : m <= y
    <3>1. CASE \E y \in R : y <= n
      BY <3>1
    <3>2. CASE ~\E y \in R : y <= n
      <4>1. \A y \in R : x <= y
        BY <2>1, <3>2
      <4> QED
        BY <4>1
    <3> QED
      BY <3>1, <3>2
  <2> QED
    BY <2>1
<1>3. T = Nat
  <2> HIDE DEF T
  <2>1. T \subseteq Nat
    BY DEF T
  <2> QED
    BY <1>1, <1>2, <2>1, Induction
<1>4. PICK x : x \in S
  OBVIOUS
<1>5. x \in T /\ x <= x
  BY <1>3, <1>4
<1>6. \E m \in S : \A y \in S : m <= y
  BY <1>4, <1>5
<1> QED
  BY <1>6, Zenon DEF Min

LEMMA FewPacks == ASSUME NEW packs \in SUBSET Packs PROVE IsFiniteSet(packs) /\ Cardinality(packs) \in Nat
<1>1. IsFiniteSet(Packs)
  BY PacksAssumption, FS_Interval
<1> QED
  BY <1>1, FS_Subset, FS_CardinalityType

LEMMA WeightIsInt == ASSUME NEW p \in Packs, NEW i \in 1..8 PROVE Weights[p][i] \in Int
<1> DEFINE of(severity) == {s \in Pack[p].signals : s.severity = severity}
           project == {s \in of("critical") \cup of("high") : s.source = "project"}
           strict == Cardinality({r \in Pack[p].rules : r.mode = "strict"})
           severe == Cardinality({r \in Pack[p].rules : r.severity \in Severe})
           ranked == {SeverityRank[x.severity] : x \in Pack[p].signals \cup Pack[p].rules}
<1>1. /\ IsFiniteSet(Pack[p].signals) /\ IsFiniteSet(Pack[p].rules)
      /\ \A s \in Pack[p].signals : s.severity \in Severities /\ s.score \in Nat
      /\ \A r \in Pack[p].rules : r.severity \in Severities
  BY PacksAssumption
<1>2. \A S \in SUBSET Pack[p].signals : IsFiniteSet(S) /\ Cardinality(S) \in Int /\ Boosts(S) \in Int /\ Scores(S) \in Int
  <2> TAKE S \in SUBSET Pack[p].signals
  <2>1. IsFiniteSet(S) /\ \A s \in S : s.score \in Nat
    BY <1>1, FS_Subset
  <2>2. Boosts(S) \in Int /\ Scores(S) \in Int
    BY <2>1, BoostsAreInt, ScoresAreInt
  <2> QED
    BY <2>1, <2>2, FS_CardinalityType
<1>3. strict \in Int /\ severe \in Int
  <2>1. \A S \in SUBSET Pack[p].rules : Cardinality(S) \in Int
    BY <1>1, FS_Subset, FS_CardinalityType
  <2> QED
    BY <2>1
<1>4. Max(ranked \cup {0}) \in Int
  <2>1. ranked \subseteq {1, 2, 3, 4}
    BY <1>1 DEF SeverityRank, Severities
  <2> HIDE DEF ranked
  <2>2. \E m \in ranked \cup {0} : \A y \in ranked \cup {0} : m >= y
    <3>1. CASE 4 \in ranked
      BY <2>1, <3>1
    <3>2. CASE 4 \notin ranked /\ 3 \in ranked
      BY <2>1, <3>2
    <3>3. CASE 4 \notin ranked /\ 3 \notin ranked /\ 2 \in ranked
      BY <2>1, <3>3
    <3>4. CASE 4 \notin ranked /\ 3 \notin ranked /\ 2 \notin ranked
      BY <2>1, <3>4
    <3> QED
      BY <3>1, <3>2, <3>3, <3>4
  <2>3. Max(ranked \cup {0}) \in ranked \cup {0}
    BY <2>2, Zenon DEF Max
  <2>4. ranked \cup {0} \subseteq Int
    BY <2>1
  <2> QED
    BY <2>3, <2>4, Zenon
<1>5. Min({Pack[p].chars["deep"], 100000}) \in Int
  <2>1. \A d \in Depths : Pack[p].chars[d] \in Nat
    BY PacksAssumption
  <2>2. PICK chars \in Nat : chars = Pack[p].chars["deep"]
    BY <2>1 DEF Depths
  <2>3. Min({chars, 100000}) \in Int
    BY MinOfTwo
  <2> QED
    BY <2>2, <2>3
<1>6. KindScore(Pack[p].kind) \in Int
  BY DEF KindScore
<1>7. Pack[p].related \in Int /\ 0 - p \in Int
  BY PacksAssumption
<1>8. Cardinality(of("critical")) \in Int /\ Cardinality(of("high")) \in Int /\ Cardinality(of("medium")) \in Int
  BY <1>2
<1>9. Boosts(project) \in Int /\ Scores(Pack[p].signals) \in Int
  BY <1>2
<1> DEFINE w1 == Max(ranked \cup {0})
           w2 == 3000 * Cardinality(of("critical")) + 2000 * strict + Boosts(project)
           w3 == IF Pack[p].kind = "test" THEN 1 ELSE 2
           w4 == 2000 * Cardinality(of("critical")) + 1000 * Cardinality(of("high")) + 800 * strict + 500 * severe
                   + 100 * Cardinality(of("medium")) + Scores(Pack[p].signals)
           w6 == Min({Pack[p].chars["deep"], 100000})
<1>10. Weights[p] = Weight(p)
  BY DEF Weights
<1>11. w1 \in Int /\ w2 \in Int /\ w3 \in Int /\ w4 \in Int /\ w6 \in Int
  <2> HIDE DEF strict, severe, of, project, ranked
  <2> QED
    BY <1>3, <1>4, <1>5, <1>8, <1>9
<1>12. Weight(p)[1] = w1
  BY DEF Weight
<1>13. Weight(p)[2] = w2
  BY DEF Weight
<1>14. Weight(p)[3] = w3
  BY DEF Weight
<1>15. Weight(p)[4] = w4
  BY DEF Weight
<1>16. Weight(p)[5] = KindScore(Pack[p].kind)
  BY DEF Weight
<1>17. Weight(p)[6] = w6
  BY DEF Weight
<1>18. Weight(p)[7] = Pack[p].related
  BY DEF Weight
<1>19. Weight(p)[8] = 0 - p
  BY DEF Weight
<1> HIDE DEF w1, w2, w3, w4, w6
<1> QED
  BY <1>6, <1>7, <1>10, <1>11, <1>12, <1>13, <1>14, <1>15, <1>16, <1>17, <1>18, <1>19

LEMMA LastWeight == ASSUME NEW p \in Packs PROVE Weights[p][8] = 0 - p
<1>1. Weights[p] = Weight(p)
  BY DEF Weights
<1> QED
  BY <1>1 DEF Weight

-----------------------------------------------------------------------------
(* The order in which packs are met. *)

LEMMA HeavierDiffers ==
    ASSUME NEW p \in Packs, NEW q \in Packs, p # q
    PROVE  Heavier(p, q) \/ Heavier(q, p)
<1>1. PICK D : D = {i \in 1..8 : Weights[p][i] # Weights[q][i]}
  OBVIOUS
<1>2. 8 \in D
  <2>1. p \in Int /\ q \in Int
    BY PacksAssumption
  <2> QED
    BY <1>1, <2>1, LastWeight
<1>3. PICK m \in D : \A j \in D : m <= j
  <2>1. D \in SUBSET Nat /\ D # {}
    BY <1>1, <1>2
  <2> QED
    BY <2>1, MinOfNats
<1>4. m \in 1..8 /\ \A j \in 1..(m - 1) : Weights[p][j] = Weights[q][j]
  BY <1>1, <1>3
<1>5. Weights[p][m] \in Int /\ Weights[q][m] \in Int /\ Weights[p][m] # Weights[q][m]
  BY <1>1, <1>4, WeightIsInt
<1>6. CASE Weights[p][m] > Weights[q][m]
  BY <1>4, <1>6 DEF Heavier
<1>7. CASE Weights[q][m] > Weights[p][m]
  BY <1>4, <1>7 DEF Heavier
<1> QED
  BY <1>5, <1>6, <1>7

LEMMA HeavierIsStrict == ASSUME NEW p \in Packs PROVE ~Heavier(p, p)
  BY WeightIsInt DEF Heavier

LEMMA HeavierFollows ==
    ASSUME NEW p \in Packs, NEW q \in Packs, NEW r \in Packs, Heavier(p, q), Heavier(q, r)
    PROVE  Heavier(p, r)
<1>1. PICK i \in 1..8 : Weights[p][i] > Weights[q][i] /\ \A k \in 1..(i - 1) : Weights[p][k] = Weights[q][k]
  BY DEF Heavier
<1>2. PICK j \in 1..8 : Weights[q][j] > Weights[r][j] /\ \A k \in 1..(j - 1) : Weights[q][k] = Weights[r][k]
  BY DEF Heavier
<1>3. \A k \in 1..8 : Weights[p][k] \in Int /\ Weights[q][k] \in Int /\ Weights[r][k] \in Int
  BY WeightIsInt
<1>4. CASE i <= j
  <2>1. Weights[p][i] > Weights[r][i]
    <3>1. CASE i = j
      BY <1>1, <1>2, <1>3, <3>1
    <3>2. CASE i < j
      BY <1>1, <1>2, <1>3, <3>2
    <3> QED
      BY <1>4, <3>1, <3>2
  <2>2. \A k \in 1..(i - 1) : Weights[p][k] = Weights[r][k]
    BY <1>1, <1>2, <1>4
  <2> QED
    BY <2>1, <2>2 DEF Heavier
<1>5. CASE j < i
  <2>1. Weights[p][j] > Weights[r][j]
    BY <1>1, <1>2, <1>3, <1>5
  <2>2. \A k \in 1..(j - 1) : Weights[p][k] = Weights[r][k]
    BY <1>1, <1>2, <1>5
  <2> QED
    BY <2>1, <2>2 DEF Heavier
<1> QED
  BY <1>4, <1>5

\* Which of two packs is looked at first.
Lead(packs, preferred) == {x \in packs \X packs : Ahead(x[1], x[2], preferred)}

LEMMA LeadOrders ==
    ASSUME NEW packs \in SUBSET Packs, NEW preferred
    PROVE  Orders(Lead(packs, preferred), packs)
<1> DEFINE R == Lead(packs, preferred)
<1>1. \A p, q \in packs : <<p, q>> \in R <=> Ahead(p, q, preferred)
  BY DEF Lead
<1> HIDE DEF R
<1>2. ASSUME NEW p \in packs PROVE ~Ahead(p, p, preferred)
  BY HeavierIsStrict DEF Ahead
<1>3. ASSUME NEW p \in packs, NEW q \in packs, p # q PROVE Ahead(p, q, preferred) \/ Ahead(q, p, preferred)
  BY <1>3, HeavierDiffers DEF Ahead
<1>4. ASSUME NEW p \in packs, NEW q \in packs, NEW r \in packs, Ahead(p, q, preferred), Ahead(q, r, preferred)
      PROVE  Ahead(p, r, preferred)
  <2>1. CASE (p \in preferred) # (q \in preferred)
    BY <1>4, <2>1 DEF Ahead
  <2>2. CASE (p \in preferred) = (q \in preferred) /\ (q \in preferred) # (r \in preferred)
    BY <1>4, <2>2 DEF Ahead
  <2>3. CASE (p \in preferred) = (q \in preferred) /\ (q \in preferred) = (r \in preferred)
    <3>1. Heavier(p, q) /\ Heavier(q, r)
      BY <1>4, <2>3 DEF Ahead
    <3>2. Heavier(p, r)
      BY <3>1, HeavierFollows
    <3> QED
      BY <2>3, <3>2 DEF Ahead
  <2> QED
    BY <2>1, <2>2, <2>3
<1>5. Orders(R, packs)
  BY <1>1, <1>2, <1>3, <1>4 DEF Orders
<1> QED
  BY <1>5 DEF R

LEMMA PlaceIsRank ==
    ASSUME NEW packs, NEW preferred, NEW p \in packs
    PROVE  Places(packs, preferred)[p] = RankIn(Lead(packs, preferred), packs, p)
<1>1. {q \in packs : Ahead(q, p, preferred)} = {q \in packs : <<q, p>> \in Lead(packs, preferred)}
  BY DEF Lead
<1> QED
  BY <1>1 DEF Places, RankIn

LEMMA OrderedPlaces ==
    ASSUME NEW packs \in SUBSET Packs, NEW preferred
    PROVE  Ordered(packs, preferred) \in [1..Cardinality(packs) -> packs]
<1>1. PICK place : place = Places(packs, preferred)
  OBVIOUS
<1>2. IsFiniteSet(packs) /\ Cardinality(packs) \in Nat
  BY FewPacks
<1>3. Orders(Lead(packs, preferred), packs)
  BY LeadOrders
<1>4. ASSUME NEW i \in 1..Cardinality(packs) PROVE (CHOOSE p \in packs : place[p] = i - 1) \in packs
  <2>1. i - 1 \in 0..(Cardinality(packs) - 1)
    BY <1>2
  <2>2. \E p \in packs : RankIn(Lead(packs, preferred), packs, p) = i - 1
    BY <1>2, <1>3, <2>1, RankReached
  <2>3. \E p \in packs : place[p] = i - 1
    BY <1>1, <2>2, PlaceIsRank
  <2> QED
    BY <2>3
<1>5. Ordered(packs, preferred) = [i \in 1..Cardinality(packs) |-> CHOOSE p \in packs : place[p] = i - 1]
  BY <1>1 DEF Ordered
<1> QED
  BY <1>4, <1>5

LEMMA PlacesDiffer ==
    ASSUME NEW packs \in SUBSET Packs, NEW preferred
    PROVE  /\ Places(packs, preferred) \in [packs -> Nat]
           /\ \A p, q \in packs : p # q => Places(packs, preferred)[p] # Places(packs, preferred)[q]
<1>1. IsFiniteSet(packs) /\ Cardinality(packs) \in Nat
  BY FewPacks
<1>2. Orders(Lead(packs, preferred), packs)
  BY LeadOrders
<1>3. \A p \in packs : Places(packs, preferred)[p] \in Nat
  BY <1>1, <1>2, PlaceIsRank, RankRange
<1>4. \A p, q \in packs : p # q => Places(packs, preferred)[p] # Places(packs, preferred)[q]
  BY <1>1, <1>2, PlaceIsRank, RankDiffers
<1>5. Places(packs, preferred) = [p \in packs |-> Places(packs, preferred)[p]]
  BY DEF Places
<1> QED
  BY <1>3, <1>4, <1>5

LEMMA AffordableFits ==
    ASSUME NEW packs \in SUBSET Packs, NEW depth \in Depths, NEW budget \in Nat
    PROVE  Affordable(packs, depth, budget) \subseteq packs /\ Tokens(Affordable(packs, depth, budget), depth) <= budget
<1>1. PICK n : n = Cardinality(packs)
  OBVIOUS
<1>2. n \in Nat /\ Ordered(packs, {}) \in [1..n -> packs]
  BY <1>1, FewPacks, OrderedPlaces
<1>3. PICK t \in [0..n -> SUBSET packs] : AffordableIn(t, packs, n, depth, budget)
  BY <1>2, AffordableTrace, Zenon
<1> DEFINE Fits(s) == Tokens(s, depth) <= budget
           T == {i \in Nat : i <= n => Fits(t[i])}
<1>4. Fits({})
  <2>1. IsFiniteSet({}) /\ {} \in SUBSET Packs
    BY FS_EmptySet
  <2> QED
    BY <2>1, TokensAreInt
<1>5. t[0] = {} /\ \A i \in 1..n : Fits(t[i]) \/ t[i] = t[i - 1]
  BY <1>3 DEF AffordableIn, Takes
<1> HIDE DEF Fits
<1>6. 0 \in T
  BY <1>4, <1>5
<1>7. ASSUME NEW i \in T PROVE i + 1 \in T
  <2>1. CASE i + 1 <= n
    <3>1. i + 1 \in 1..n /\ (i + 1) - 1 = i /\ i <= n
      BY <1>2, <2>1
    <3>2. Fits(t[i]) /\ (Fits(t[i + 1]) \/ t[i + 1] = t[i])
      BY <1>5, <3>1
    <3> QED
      BY <3>2
  <2> QED
    BY <1>2, <2>1
<1>8. T = Nat
  <2> HIDE DEF T
  <2>1. T \subseteq Nat
    BY DEF T
  <2> QED
    BY <1>6, <1>7, <2>1, Induction
<1>9. n \in T /\ n <= n /\ n \in 0..n
  BY <1>2, <1>8
<1>10. Fits(t[n]) /\ t[n] \subseteq packs
  BY <1>9
<1> QED
  BY <1>3, <1>10 DEF Fits, AffordableIn

-----------------------------------------------------------------------------
(* A cap on the number of packs: the rounds over the files fill it and no more. *)

LEMMA FrontsHold ==
    ASSUME NEW packs, NEW place \in [packs -> Nat], NEW p \in packs
    PROVE  \E x \in OfFile(p, packs) : Fronts(place)[p] = place[x]
<1> DEFINE S == {place[q] : q \in OfFile(p, packs)}
<1>1. DOMAIN place = packs /\ p \in OfFile(p, packs) /\ OfFile(p, packs) \subseteq packs
  BY DEF OfFile
<1>2. Fronts(place)[p] = Min(S)
  BY <1>1 DEF Fronts
<1>3. S \in SUBSET Nat /\ S # {}
  BY <1>1
<1>4. Min(S) \in S
  <2> HIDE DEF S
  <2> QED
    BY <1>3, MinOfNats
<1> QED
  BY <1>2, <1>4

LEMMA RoundHolds ==
    ASSUME NEW p, NEW place, NEW front, NEW cap
    PROVE  /\ Round(p, place, front, cap) \in Nat
           /\ Round(p, place, front, cap) = 2 =>
                LET valued == {q \in OfFile(p, DOMAIN place) : IsHighValue(q)}
                IN p \in valued /\ \A q \in valued : place[p] <= place[q]
<1> DEFINE valued == {q \in OfFile(p, DOMAIN place) : IsHighValue(q)}
           early == IsEarly(p, front, cap)
           best == place[p] = front[p]
           S == {5} \cup {n \in 1..4 :
                  \/ n = 1 /\ early /\ best
                  \/ n = 2 /\ ~early /\ p \in valued /\ \A q \in valued : place[p] <= place[q]
                  \/ n = 3 /\ p \in valued
                  \/ n = 4 /\ ~early /\ best /\ valued = {}}
<1>1. Round(p, place, front, cap) = Min(S)
  BY DEF Round
<1>2. S \in SUBSET Nat /\ S # {}
  OBVIOUS
<1>3. Min(S) \in S
  <2> HIDE DEF S
  <2> QED
    BY <1>2, MinOfNats
<1>4. 2 \in S => p \in valued /\ \A q \in valued : place[p] <= place[q]
  OBVIOUS
<1> HIDE DEF S
<1> QED
  BY <1>1, <1>2, <1>3, <1>4

\* R goes by the rounds, and within a round by the turns.
ByRounds(round, turn, S) ==
  {x \in S \X S : round[x[1]] < round[x[2]] \/ (round[x[1]] = round[x[2]] /\ turn[x[1]] < turn[x[2]])}

LEMMA RoundsOrder ==
    ASSUME NEW S, NEW round \in [S -> Nat], NEW turn \in [S -> Nat],
           \A p, q \in S : p # q /\ round[p] = round[q] => turn[p] # turn[q]
    PROVE  Orders(ByRounds(round, turn, S), S)
<1> DEFINE R == ByRounds(round, turn, S)
<1>1. \A p, q \in S : <<p, q>> \in R <=> round[p] < round[q] \/ (round[p] = round[q] /\ turn[p] < turn[q])
  BY DEF ByRounds
<1>2. \A p \in S : round[p] \in Nat /\ turn[p] \in Nat
  OBVIOUS
<1> HIDE DEF R
<1>3. \A x \in S : <<x, x>> \notin R
  BY <1>1, <1>2
<1>4. ASSUME NEW x \in S, NEW y \in S, x # y PROVE <<x, y>> \in R \/ <<y, x>> \in R
  BY <1>1, <1>2, <1>4
<1>5. ASSUME NEW x \in S, NEW y \in S, NEW z \in S, <<x, y>> \in R, <<y, z>> \in R PROVE <<x, z>> \in R
  BY <1>1, <1>2, <1>5
<1>6. Orders(R, S)
  BY <1>3, <1>4, <1>5 DEF Orders
<1> QED
  BY <1>6 DEF R

LEMMA FirstOfferedCount ==
    ASSUME NEW packs \in SUBSET Packs, NEW place \in [packs -> Nat],
           \A p, q \in packs : p # q => place[p] # place[q],
           NEW cap \in Nat, cap <= Cardinality(packs)
    PROVE  LET first == FirstOffered(place, Fronts(place), cap)
           IN first \subseteq packs /\ Cardinality(first) = cap
<1>1. PICK front : front = Fronts(place)
  OBVIOUS
<1>2. PICK round : round = [p \in packs |-> Round(p, place, front, cap)]
  OBVIOUS
<1>3. PICK turn : turn = [q \in packs |-> IF round[q] = 2 THEN front[q] ELSE place[q]]
  OBVIOUS
<1>4. DOMAIN place = packs
  OBVIOUS
<1>5. round \in [packs -> Nat]
  BY <1>2, RoundHolds
<1>6. ASSUME NEW p \in packs PROVE \E x \in OfFile(p, packs) : x \in packs /\ front[p] = place[x]
  <2>1. PICK x \in OfFile(p, packs) : front[p] = place[x]
    BY <1>1, FrontsHold
  <2> QED
    BY <2>1 DEF OfFile
<1>7. turn \in [packs -> Nat]
  BY <1>3, <1>6
<1>8. ASSUME NEW p \in packs, NEW q \in packs, p # q, round[p] = round[q], turn[p] = turn[q] PROVE FALSE
  <2>1. CASE round[p] # 2
    BY <1>3, <1>8, <2>1
  <2>2. CASE round[p] = 2
    <3>1. front[p] = front[q]
      BY <1>3, <1>8, <2>2
    <3>2. PICK x \in OfFile(p, packs) : x \in packs /\ front[p] = place[x]
      BY <1>6
    <3>3. PICK y \in OfFile(q, packs) : y \in packs /\ front[q] = place[y]
      BY <1>6
    <3>4. x = y
      BY <3>1, <3>2, <3>3
    <3>5. OfFile(p, packs) = OfFile(q, packs)
      BY <3>2, <3>3, <3>4 DEF OfFile
    <3>6. Round(p, place, front, cap) = 2 /\ Round(q, place, front, cap) = 2
      BY <1>2, <1>8, <2>2
    <3> DEFINE valued == {z \in OfFile(p, packs) : IsHighValue(z)}
    <3>7. p \in valued /\ \A z \in valued : place[p] <= place[z]
      BY <1>4, <3>6, RoundHolds
    <3>8. q \in valued /\ \A z \in valued : place[q] <= place[z]
      BY <1>4, <3>5, <3>6, RoundHolds
    <3>9. place[p] = place[q]
      <4>1. place[p] <= place[q] /\ place[q] <= place[p] /\ place[p] \in Nat /\ place[q] \in Nat
        BY <3>7, <3>8
      <4> QED
        BY <4>1
    <3> QED
      BY <1>8, <3>9
  <2> QED
    BY <2>1, <2>2
<1>9. Orders(ByRounds(round, turn, packs), packs)
  BY <1>5, <1>7, <1>8, RoundsOrder
<1>10. ASSUME NEW p \in packs
       PROVE  Cardinality(Before(p, round, place, front)) = RankIn(ByRounds(round, turn, packs), packs, p)
  <2>1. Before(p, round, place, front) =
          {q \in packs : round[q] < round[p] \/ (round[q] = round[p] /\ turn[q] < turn[p])}
    BY <1>3, <1>4 DEF Before
  <2>2. {q \in packs : <<q, p>> \in ByRounds(round, turn, packs)} =
          {q \in packs : round[q] < round[p] \/ (round[q] = round[p] /\ turn[q] < turn[p])}
    BY DEF ByRounds
  <2> QED
    BY <2>1, <2>2 DEF RankIn
<1>11. FirstOffered(place, front, cap) = {p \in packs : RankIn(ByRounds(round, turn, packs), packs, p) < cap}
  <2>1. FirstOffered(place, front, cap) = {p \in packs : Cardinality(Before(p, round, place, front)) < cap}
    BY <1>2, <1>4 DEF FirstOffered
  <2> QED
    BY <1>10, <2>1
<1>12. IsFiniteSet(packs)
  BY FewPacks
<1>13. Cardinality({p \in packs : RankIn(ByRounds(round, turn, packs), packs, p) < cap}) = cap
  BY <1>9, <1>12, FirstCount
<1> QED
  BY <1>1, <1>11, <1>13

\* A cap is used up where more packs ask for it.
LEMMA WithinCap ==
    ASSUME NEW packs \in SUBSET Packs, NEW cap \in Nat, NEW preferred
    PROVE  /\ Within(packs, cap, preferred) \subseteq packs
           /\ Cardinality(Within(packs, cap, preferred)) <= cap
           /\ Cardinality(packs) > cap => Cardinality(Within(packs, cap, preferred)) = cap
           /\ Cardinality(packs) <= cap => Within(packs, cap, preferred) = packs
<1>1. PICK place : place = Places(packs, preferred)
  OBVIOUS
<1>2. place \in [packs -> Nat] /\ \A p, q \in packs : p # q => place[p] # place[q]
  BY <1>1, PlacesDiffer
<1>3. Cardinality(packs) \in Nat
  BY FewPacks
<1>4. CASE Cardinality(packs) <= cap
  BY <1>3, <1>4 DEF Within, Foremost
<1>5. CASE Cardinality(packs) > cap
  <2>1. cap <= Cardinality(packs) /\ ~(Cardinality(packs) <= cap)
    BY <1>3, <1>5
  <2>2. PICK first : first = FirstOffered(place, Fronts(place), cap)
    OBVIOUS
  <2>3. first \subseteq packs /\ Cardinality(first) = cap
    BY <1>2, <2>1, <2>2, FirstOfferedCount
  <2>4. Within(packs, cap, preferred) = first
    BY <1>1, <2>1, <2>2 DEF Within, Foremost
  <2> QED
    BY <2>1, <2>3, <2>4
<1> QED
  BY <1>3, <1>4, <1>5

LEMMA DisjointCount ==
    ASSUME NEW a, NEW b, IsFiniteSet(a), IsFiniteSet(b), a \cap b = {}
    PROVE  IsFiniteSet(a \cup b) /\ Cardinality(a \cup b) = Cardinality(a) + Cardinality(b)
<1>1. Cardinality(a \cap b) = 0
  BY FS_EmptySet
<1>2. IsFiniteSet(a \cup b) /\ Cardinality(a \cup b) = Cardinality(a) + Cardinality(b) - Cardinality(a \cap b)
  BY FS_Union
<1>3. Cardinality(a) \in Int /\ Cardinality(b) \in Int
  BY FS_CardinalityType
<1> QED
  BY <1>1, <1>2, <1>3

LEMMA OfLevels ==
    ASSUME NEW packs \in SUBSET Packs
    PROVE  /\ packs = OfLevel(packs, "p0") \cup OfLevel(packs, "p1") \cup OfLevel(packs, "p2")
           /\ \A a, b \in {"p0", "p1", "p2"} : a # b => OfLevel(packs, a) \cap OfLevel(packs, b) = {}
<1>1. \A p \in packs : Priority(p) \in {"p0", "p1", "p2"}
  BY DEF Priority
<1> QED
  BY <1>1 DEF OfLevel

\* A selection keeps to its cap, and takes a pack of a lower priority only where the
\* cap leaves out none of the first.
LEMMA SelectCap ==
    ASSUME NEW packs \in SUBSET Packs, NEW cap \in Nat, NEW preferred
    PROVE  /\ Select(packs, cap, preferred) \subseteq packs
           /\ Cardinality(Select(packs, cap, preferred)) <= cap
           /\ \A p \in packs \ Select(packs, cap, preferred), q \in Select(packs, cap, preferred) :
                Priority(p) = "p0" => Priority(q) = "p0"
<1>1. PICK p0 : p0 = Within(OfLevel(packs, "p0"), cap, preferred)
  OBVIOUS
<1>2. PICK p1 : p1 = Within(OfLevel(packs, "p1"), cap - Cardinality(p0), preferred)
  OBVIOUS
<1>3. PICK p2 : p2 = Within(OfLevel(packs, "p2"), cap - Cardinality(p0 \cup p1), preferred)
  OBVIOUS
<1>4. Cardinality(packs) \in Nat
  BY FewPacks
<1>5. \A level : OfLevel(packs, level) \in SUBSET Packs
  BY DEF OfLevel
<1>6. p0 \subseteq OfLevel(packs, "p0") /\ Cardinality(p0) <= cap
  BY <1>1, <1>5, WithinCap
<1>7. IsFiniteSet(p0) /\ Cardinality(p0) \in Nat /\ cap - Cardinality(p0) \in Nat
  <2>1. IsFiniteSet(p0) /\ Cardinality(p0) \in Nat
    BY <1>5, <1>6, FewPacks
  <2> QED
    BY <1>6, <2>1
<1>8. p1 \subseteq OfLevel(packs, "p1") /\ Cardinality(p1) <= cap - Cardinality(p0)
  BY <1>2, <1>5, <1>7, WithinCap
<1>9. IsFiniteSet(p1) /\ Cardinality(p1) \in Nat
  BY <1>5, <1>8, FewPacks
<1>10. p0 \cap p1 = {}
  BY <1>6, <1>8, OfLevels
<1>11. Cardinality(p0 \cup p1) = Cardinality(p0) + Cardinality(p1)
  BY <1>7, <1>9, <1>10, DisjointCount
<1>12. Cardinality(p0 \cup p1) \in Nat /\ cap - Cardinality(p0 \cup p1) \in Nat
  BY <1>7, <1>8, <1>9, <1>11
<1>13. p2 \subseteq OfLevel(packs, "p2") /\ Cardinality(p2) <= cap - Cardinality(p0 \cup p1)
  BY <1>3, <1>5, <1>12, WithinCap
<1>14. IsFiniteSet(p2) /\ Cardinality(p2) \in Nat
  BY <1>5, <1>13, FewPacks
<1>15. (p0 \cup p1) \cap p2 = {}
  BY <1>6, <1>8, <1>13, OfLevels
<1>16. Cardinality(p0 \cup p1 \cup p2) = Cardinality(p0 \cup p1) + Cardinality(p2)
  <2>1. IsFiniteSet(p0 \cup p1)
    BY <1>7, <1>9, <1>10, DisjointCount
  <2> QED
    BY <1>14, <1>15, <2>1, DisjointCount
<1>17. CASE Cardinality(packs) <= cap
  <2>1. Select(packs, cap, preferred) = packs
    BY <1>17 DEF Select, WithLevel
  <2> QED
    BY <1>17, <2>1
<1>18. CASE ~(Cardinality(packs) <= cap)
  <2>1. Select(packs, cap, preferred) = p0 \cup p1 \cup p2
    BY <1>1, <1>2, <1>3, <1>18 DEF Select, WithLevel
  <2>2. p0 \cup p1 \cup p2 \subseteq packs
    BY <1>6, <1>8, <1>13 DEF OfLevel
  <2>3. Cardinality(p0 \cup p1 \cup p2) <= cap
    BY <1>12, <1>13, <1>14, <1>16
  <2>4. ASSUME NEW p \in packs, p \notin p0 \cup p1 \cup p2, NEW q \in p0 \cup p1 \cup p2, Priority(p) = "p0"
        PROVE  Priority(q) = "p0"
    <3>1. p \in OfLevel(packs, "p0") \ p0
      BY <2>4 DEF OfLevel
    <3>2. Cardinality(OfLevel(packs, "p0")) \in Nat
      BY <1>5, FewPacks
    <3>3. Cardinality(p0) = cap
      BY <1>1, <1>5, <3>1, <3>2, WithinCap
    <3>4. p1 = {}
      <4>1. Cardinality(p1) = 0
        BY <1>8, <1>9, <3>3
      <4> QED
        BY <1>9, <4>1, FS_EmptySet
    <3>5. p2 = {}
      <4>1. p0 \cup p1 = p0
        BY <3>4
      <4>2. Cardinality(p2) = 0
        BY <1>13, <1>14, <3>3, <4>1
      <4> QED
        BY <1>14, <4>2, FS_EmptySet
    <3> QED
      BY <1>6, <2>4, <3>4, <3>5 DEF OfLevel
  <2> QED
    BY <2>1, <2>2, <2>3, <2>4
<1> QED
  BY <1>17, <1>18

-----------------------------------------------------------------------------
(* What a plan promises of each of its two passes. *)

\* What a plan promises of its selection.
Sound(s, packs, limits) ==
  /\ s.total = packs /\ Selected(s) \subseteq packs
  /\ Cardinality(Selected(s)) <= limits.packs
  /\ Cardinality(s.deep) <= limits.deep
  /\ Tokens(s.deep, "deep") + Tokens(s.shallow, "shallow") <= limits.tokens
  /\ \A p \in s.deep : Reviewable(p, "deep")
  /\ \A p \in s.shallow : Reviewable(p, "shallow")
  /\ \A p \in s.total \ Selected(s), q \in s.deep :
       s.reasons[p] = {"cap"} /\ Reviewable(p, "deep") /\ Priority(p) = "p0" => Priority(q) = "p0"

\* What one pass promises.
Passes(pass, packs, cap, depth, budget) ==
  /\ pass.taken \subseteq pass.wanted /\ pass.wanted \subseteq packs
  /\ Cardinality(pass.taken) <= cap
  /\ Tokens(pass.taken, depth) <= budget
  /\ \A p \in packs \ pass.wanted, q \in pass.wanted : Priority(p) = "p0" => Priority(q) = "p0"

LEMMA PassHolds ==
    ASSUME NEW packs \in SUBSET Packs, NEW cap \in Nat, NEW preferred, NEW depth \in Depths, NEW budget \in Nat
    PROVE  Passes(Pass(packs, cap, preferred, depth, budget), packs, cap, depth, budget)
<1>1. PICK wanted : wanted = Select(packs, cap, preferred)
  OBVIOUS
<1>2. PICK taken : taken = Affordable(wanted, depth, budget)
  OBVIOUS
<1>3. wanted \subseteq packs /\ Cardinality(wanted) <= cap
  BY <1>1, SelectCap
<1>4. \A p \in packs \ wanted, q \in wanted : Priority(p) = "p0" => Priority(q) = "p0"
  BY <1>1, SelectCap
<1>5. wanted \in SUBSET Packs /\ IsFiniteSet(wanted) /\ Cardinality(wanted) \in Nat
  BY <1>3, FewPacks
<1>6. taken \subseteq wanted /\ Tokens(taken, depth) <= budget
  BY <1>2, <1>5, AffordableFits
<1>7. Cardinality(taken) <= cap
  <2>1. Cardinality(taken) <= Cardinality(wanted) /\ Cardinality(taken) \in Nat
    BY <1>5, <1>6, FS_Subset, FS_CardinalityType
  <2> QED
    BY <1>3, <1>5, <2>1
<1>8. Pass(packs, cap, preferred, depth, budget) = [wanted |-> wanted, taken |-> taken]
  BY <1>1, <1>2 DEF Pass, PassOver
<1> QED
  BY <1>3, <1>4, <1>6, <1>7, <1>8 DEF Passes

LEMMA PlanIsSound ==
    ASSUME NEW packs \in SUBSET Packs, NEW limits \in LimitValues, NEW preferred
    PROVE  Sound(Plan(packs, limits, preferred), packs, limits)
<1> DEFINE fast == limits.mode = "fast"
<1>1. limits.packs \in Nat /\ limits.deep \in Nat /\ limits.tokens \in Nat
  BY DEF LimitValues
<1>2. PICK cap : cap = Min({limits.packs, limits.deep})
  OBVIOUS
<1>3. cap \in Nat /\ cap <= limits.packs /\ cap <= limits.deep
  BY <1>1, <1>2, MinOfTwo
<1>4. PICK first : first = Pass(Fitting(packs, "deep"), cap, preferred, "deep", limits.tokens)
  OBVIOUS
<1>5. Fitting(packs, "deep") \in SUBSET Packs /\ Fitting(packs, "shallow") \in SUBSET Packs
  BY DEF Fitting
<1>6. "deep" \in Depths /\ "shallow" \in Depths
  BY DEF Depths
<1>7. /\ first.taken \subseteq first.wanted /\ first.wanted \subseteq Fitting(packs, "deep")
      /\ Cardinality(first.taken) <= cap
      /\ Tokens(first.taken, "deep") <= limits.tokens
      /\ \A p \in Fitting(packs, "deep") \ first.wanted, q \in first.wanted : Priority(p) = "p0" => Priority(q) = "p0"
  <2>1. Passes(first, Fitting(packs, "deep"), cap, "deep", limits.tokens)
    BY <1>1, <1>3, <1>4, <1>5, <1>6, PassHolds
  <2> QED
    BY <2>1 DEF Passes
<1>8. first.taken \in SUBSET Packs /\ IsFiniteSet(first.taken) /\ Cardinality(first.taken) \in Nat
  BY <1>5, <1>7, FewPacks
<1>9. Tokens(first.taken, "deep") \in Int
  BY <1>6, <1>8, TokensAreInt
<1>10. PICK left : left = IF fast THEN {} ELSE Fitting(packs, "shallow") \ first.taken
  OBVIOUS
<1>11. PICK cap2 : cap2 = Max({0, limits.packs - Cardinality(first.taken)})
  OBVIOUS
<1>12. PICK tokens2 : tokens2 = Max({0, limits.tokens - Tokens(first.taken, "deep")})
  OBVIOUS
<1>13. cap2 = limits.packs - Cardinality(first.taken) /\ cap2 \in Nat
  <2>1. Cardinality(first.taken) <= limits.packs
    BY <1>1, <1>3, <1>7, <1>8
  <2>2. limits.packs - Cardinality(first.taken) \in Nat
    BY <1>1, <1>8, <2>1
  <2> QED
    BY <1>11, <2>2, MaxOfTwo
<1>14. tokens2 = limits.tokens - Tokens(first.taken, "deep") /\ tokens2 \in Nat
  <2>1. limits.tokens - Tokens(first.taken, "deep") \in Nat
    BY <1>1, <1>7, <1>9
  <2> QED
    BY <1>12, <2>1, MaxOfTwo
<1>15. PICK second : second = Pass(left, cap2, preferred, "shallow", tokens2)
  OBVIOUS
<1>16. left \in SUBSET Packs
  BY <1>5, <1>10
<1>17. /\ second.taken \subseteq second.wanted /\ second.wanted \subseteq left
       /\ Cardinality(second.taken) <= cap2
       /\ Tokens(second.taken, "shallow") <= tokens2
  <2>1. Passes(second, left, cap2, "shallow", tokens2)
    BY <1>6, <1>13, <1>14, <1>15, <1>16, PassHolds
  <2> QED
    BY <2>1 DEF Passes
<1>18. second.taken \in SUBSET Packs /\ IsFiniteSet(second.taken) /\ Cardinality(second.taken) \in Nat
  BY <1>16, <1>17, FewPacks
<1>19. Tokens(second.taken, "shallow") \in Int
  BY <1>6, <1>18, TokensAreInt
<1>20. PICK s : s = Plan(packs, limits, preferred)
  OBVIOUS
<1>21. s = Planned(packs, fast, first, second)
  <2>1. s = AfterDeep(packs, limits, preferred, first)
    BY <1>2, <1>4, <1>20 DEF Plan
  <2> QED
    BY <1>10, <1>11, <1>12, <1>15, <2>1 DEF AfterDeep
<1> HIDE DEF fast
<1>22. s.total = packs /\ s.deep = first.taken /\ s.shallow = second.taken
  BY <1>21 DEF Planned, Selection
<1>23. first.taken \subseteq packs /\ second.taken \subseteq packs
  BY <1>7, <1>10, <1>17 DEF Fitting
<1>24. Cardinality(Selected(s)) <= limits.packs
  <2>1. first.taken \cap second.taken = {}
    BY <1>10, <1>17
  <2>2. Cardinality(first.taken \cup second.taken) = Cardinality(first.taken) + Cardinality(second.taken)
    BY <1>8, <1>18, <2>1, DisjointCount
  <2> QED
    BY <1>1, <1>8, <1>13, <1>17, <1>18, <1>22, <2>2 DEF Selected
<1>25. Cardinality(s.deep) <= limits.deep
  BY <1>1, <1>3, <1>7, <1>8, <1>22
<1>26. Tokens(s.deep, "deep") + Tokens(s.shallow, "shallow") <= limits.tokens
  BY <1>1, <1>9, <1>14, <1>17, <1>19, <1>22
<1>27. (\A p \in s.deep : Reviewable(p, "deep")) /\ (\A p \in s.shallow : Reviewable(p, "shallow"))
  BY <1>7, <1>10, <1>17, <1>22 DEF Fitting, Reviewable
<1>28. ASSUME NEW p \in s.total \ Selected(s), NEW q \in s.deep,
              s.reasons[p] = {"cap"}, Reviewable(p, "deep"), Priority(p) = "p0"
       PROVE  Priority(q) = "p0"
  <2>1. p \in packs \ (first.taken \cup second.taken)
    BY <1>22, <1>28 DEF Selected
  <2> DEFINE unselected == packs \ (first.taken \cup second.taken)
             over == (packs \ Fitting(packs, "deep")) \ (IF fast THEN {} ELSE Fitting(packs, "shallow"))
             costly == (first.wanted \cup second.wanted) \cap unselected
             why(x) == CASE x \in over -> "context" [] x \in costly \ over -> "tokens" [] OTHER -> "cap"
  <2>2. s.reasons = [x \in unselected |-> {why(x)}]
    BY <1>21 DEF Planned, Selection
  <2>3. why(p) = "cap"
    <3>1. s.reasons[p] = {why(p)}
      BY <2>1, <2>2
    <3> QED
      BY <1>28, <3>1
  <2>4. p \notin costly
    <3>1. p \notin over
      BY <2>3
    <3> QED
      BY <2>3, <3>1
  <2>5. p \in Fitting(packs, "deep") \ first.wanted
    BY <1>28, <2>1, <2>4 DEF Fitting, Reviewable
  <2> QED
    BY <1>7, <1>22, <1>28, <2>5
<1> QED
  BY <1>20, <1>22, <1>23, <1>24, <1>25, <1>26, <1>27, <1>28 DEF Sound, Selected

-----------------------------------------------------------------------------
(* Selections, in every state of the gate. *)

\* The selection of a reviewer is of the packs that it matches, and what passed was judged.
Consistent ==
  /\ setup \in Setups
  /\ \A i \in Ids(Report) : sel[i].total = Matches(Report, i) /\ Selected(sel[i]) \subseteq Matches(Report, i)
  /\ pc = "passed" => ~Blocked(Report)

LEMMA ReportFields ==
    /\ Report.config = setup /\ Report.sel = sel /\ Report.asg = asg
    /\ Ids(Report) = DOMAIN setup.reviewers
    /\ \A i : Matches(Report, i) = setup.reviewers[i].matches
<1>1. Report.config = setup /\ Report.sel = sel /\ Report.asg = asg
  BY DEF Report
<1> QED
  BY <1>1 DEF Ids, Matches

LEMMA SetupFields ==
    ASSUME setup \in Setups, NEW i \in Ids(Report)
    PROVE  /\ Matches(Report, i) \in SUBSET Packs
           /\ setup.reviewers[i].limits \in LimitValues /\ LimitsOf(setup.reviewers[i]) \in LimitValues
<1>1. Matches(Report, i) \in SUBSET Packs /\ setup.reviewers[i].limits \in LimitValues
  BY SetupsAssumption, ReportFields
<1>2. LimitsOf(setup.reviewers[i]) \in LimitValues
  <2>1. PICK limits \in LimitValues : limits = setup.reviewers[i].limits
    BY <1>1
  <2>2. [limits EXCEPT !.mode = "fast"] \in LimitValues
    BY DEF LimitValues
  <2>3. [limits EXCEPT !.mode = "balanced", !.deep = 0] \in LimitValues
    BY DEF LimitValues
  <2> QED
    BY <2>1, <2>2, <2>3 DEF LimitsOf
<1> QED
  BY <1>1, <1>2

LEMMA ReviewSelects ==
    ASSUME setup \in Setups, Review, NEW i \in Ids(Report)
    PROVE  Sound(sel'[i], Matches(Report, i), LimitsOf(setup.reviewers[i])) /\ setup' = setup
<1>1. PICK plan : plan = Plan(Matches(Report, i), LimitsOf(setup.reviewers[i]), {})
  OBVIOUS
<1>2. Sound(plan, Matches(Report, i), LimitsOf(setup.reviewers[i]))
  BY <1>1, SetupFields, PlanIsSound
<1>3. sel' = [j \in Ids(Report) |-> Plan(Matches(Report, j), LimitsOf(setup.reviewers[j]), {})] /\ setup' = setup
  BY DEF Review
<1> QED
  BY <1>1, <1>2, <1>3

LEMMA ContinueSelects ==
    ASSUME NEW continuation, Continue(continuation), NEW i \in Ids(Report)
    PROVE  sel'[i].total = Matches(Report, i) /\ Selected(sel'[i]) \subseteq Matches(Report, i)
<1>1. PICK old, chosen : sel'[i] = Continued(old, Matches(Report, i), chosen, "deep")
  BY Zenon DEF Continue
<1> QED
  BY <1>1 DEF Continued, Selection, Selected

LEMMA ConsistentInit == Init => Consistent
<1> SUFFICES ASSUME Init PROVE Consistent
  OBVIOUS
<1>1. setup \in Setups /\ pc = "plan"
  BY DEF Init
<1>2. ASSUME NEW i \in Ids(Report)
      PROVE  sel[i].total = Matches(Report, i) /\ Selected(sel[i]) \subseteq Matches(Report, i)
  <2>1. sel[i] = Selection(setup.reviewers[i].matches, {}, {}, {}, {}, <<>>)
    BY ReportFields DEF Init
  <2> QED
    BY <2>1, ReportFields DEF Selection, Selected
<1> QED
  BY <1>1, <1>2 DEF Consistent

LEMMA ConsistentStep == Consistent /\ [Next]_vars => Consistent'
<1> SUFFICES ASSUME Consistent, [Next]_vars PROVE Consistent'
  OBVIOUS
<1> DEFINE Selects == \A i \in Ids(Report) :
             sel'[i].total = Matches(Report, i) /\ Selected(sel'[i]) \subseteq Matches(Report, i)
<1>1. ASSUME setup' = setup, Selects, pc' # "passed" PROVE Consistent'
  <2>1. Ids(Report)' = Ids(Report) /\ \A i : Matches(Report, i)' = Matches(Report, i)
    BY <1>1, ReportFields DEF Report, Ids, Matches
  <2>2. \A i \in Ids(Report)' : (sel[i].total = Matches(Report, i) /\ Selected(sel[i]) \subseteq Matches(Report, i))'
    BY <1>1, <2>1 DEF Selected
  <2> QED
    BY <1>1, <2>2 DEF Consistent
<1>2. ASSUME UNCHANGED <<setup, sel, asg>>, pc' = "passed" => ~Blocked(Report) PROVE Consistent'
  <2>1. Report' = Report
    BY <1>2 DEF Report
  <2>2. Blocked(Report)' = Blocked(Report)
    BY <2>1
  <2>3. \A i : (Matches(Report, i))' = Matches(Report, i)
    BY <2>1
  <2>4. Ids(Report)' = Ids(Report)
    BY <2>1
  <2> QED
    BY <1>2, <2>2, <2>3, <2>4 DEF Consistent, Selected
<1>3. CASE Review
  <2>1. Selects
    BY <1>3, ReviewSelects DEF Consistent, Sound
  <2> QED
    BY <1>1, <1>3, <2>1 DEF Review
<1>4. CASE FollowUp
  <2>1. Continue(FollowUpOf(Report)) /\ setup' = setup /\ pc' = "judge"
    BY <1>4 DEF FollowUp
  <2>2. Selects
    BY <2>1, ContinueSelects
  <2> QED
    BY <1>1, <2>1, <2>2
<1>5. CASE LeaveAlone
  BY <1>2, <1>5 DEF LeaveAlone
<1>6. CASE Judge
  BY <1>2, <1>6 DEF Judge
<1>7. CASE PushAgain
  BY <1>2, <1>7 DEF PushAgain
<1>8. CASE RunTodo
  <2>1. PICK t \in Todos(Report) : Continue(CommandOf(Report, t))
    BY <1>8 DEF RunTodo
  <2>2. Selects
    BY <2>1, ContinueSelects
  <2> QED
    BY <1>1, <1>8, <2>2 DEF RunTodo
<1>9. CASE UNCHANGED vars
  BY <1>2, <1>9 DEF vars, Consistent
<1> QED
  BY <1>3, <1>4, <1>5, <1>6, <1>7, <1>8, <1>9 DEF Next, Done

\* Whatever calls fail and however often the gate is run, a reviewer has selected only
\* packs that it matches (Rebased and Continued keep merge_selection_plans within them),
\* and a push passed only when nothing blocked it.
THEOREM AlwaysConsistent == Spec => []Consistent
<1> QED
  BY ConsistentInit, ConsistentStep, PTL DEF Spec

\* For any packs, reviewers and limits, the two passes of a review stay together within
\* the caps, the token budget and the size of a prompt, and the cap never leaves out a
\* risky pack for one of a lower priority (plan_llm_context_selection).
THEOREM ReviewStaysWithinLimits == Spec => PlanWithinLimits
<1> DEFINE Respects == pc = "plan" =>
       \A i \in Ids(Report) :
         LET limits == LimitsOf(setup.reviewers[i])
             s      == sel'[i]
         IN /\ Cardinality(Selected(s)) <= limits.packs
            /\ Cardinality(s.deep) <= limits.deep
            /\ Tokens(s.deep, "deep") + Tokens(s.shallow, "shallow") <= limits.tokens
            /\ \A p \in s.deep : Reviewable(p, "deep")
            /\ \A p \in s.shallow : Reviewable(p, "shallow")
            /\ \A p \in s.total \ Selected(s), q \in s.deep :
                 s.reasons[p] = {"cap"} /\ Reviewable(p, "deep") /\ Priority(p) = "p0" => Priority(q) = "p0"
<1>1. Consistent /\ [Next]_vars => [Respects]_vars
  <2> SUFFICES ASSUME Consistent, Next, pc = "plan" PROVE Respects
    BY DEF Respects
  <2>1. Review
    BY DEF Next, FollowUp, LeaveAlone, Judge, PushAgain, RunTodo, Done
  <2>2. \A i \in Ids(Report) : Sound(sel'[i], Matches(Report, i), LimitsOf(setup.reviewers[i]))
    BY <2>1, ReviewSelects DEF Consistent
  <2> QED
    BY <2>2 DEF Sound
<1> QED
  BY <1>1, AlwaysConsistent, PTL DEF Spec, PlanWithinLimits

-----------------------------------------------------------------------------
(* What a verdict rests on. *)

LEMMA HighRiskIsFirst == ASSUME NEW p, HighRisk(p) PROVE Priority(p) = "p0"
  BY DEF Priority

\* What a reviewer that has passed has done.
LEMMA NoDebt ==
    ASSUME NEW i \in Ids(Report), ReviewerDebt(Report, i) = {}
    PROVE  /\ sel[i].total # {} => Selected(sel[i]) # {}
           /\ \A p \in Packs \cap Selected(sel[i]) : asg[i][p].status = "ok"
           /\ \A p \in Packs : Answered(i, p)
<1>1. SelectedBy(Report, i) = Selected(sel[i]) /\ Report.sel[i] = sel[i]
  BY ReportFields DEF SelectedBy
<1>2. sel[i].total # {} => Selected(sel[i]) # {}
  BY <1>1 DEF ReviewerDebt
<1>3. ASSUME NEW p \in Packs \cap Selected(sel[i]) PROVE asg[i][p].status = "ok"
  <2>1. p \in ReviewedBy(Report, i)
    BY <1>1, <1>3 DEF ReviewerDebt
  <2> QED
    BY <2>1, ReportFields DEF ReviewedBy
<1>4. ASSUME NEW p \in Packs PROVE Answered(i, p)
  <2>1. p \notin Unresolved(Report, i)
    BY DEF ReviewerDebt
  <2>2. ~(setup.reviewers[i].verify /\ asg[i][p].unresolved)
    BY <2>1, ReportFields DEF Unresolved, Verifies
  <2> QED
    BY <2>2 DEF Answered
<1> QED
  BY <1>2, <1>3, <1>4

LEMMA ReviewedIsServed ==
    ASSUME NEW p, p \in Reviewed(Report)
    PROVE  Served(p) /\ (p \in ReviewedAt(Report, "deep") => ReadDeeply(p)) /\ (p \in ReviewedAt(Report, "deep") \/ p \in ReviewedAt(Report, "shallow"))
<1>1. PICK d \in Depths : p \in ReviewedAt(Report, d)
  BY DEF Reviewed
<1>2. \A depth : p \in ReviewedAt(Report, depth) =>
        \E i \in Ids(Report) : asg[i][p].status = "ok" /\ asg[i][p].depth = depth
  BY ReportFields DEF ReviewedAt
<1>3. Served(p)
  BY <1>1, <1>2 DEF Served
<1>4. p \in ReviewedAt(Report, "deep") => ReadDeeply(p)
  BY <1>2 DEF ReadDeeply
<1> QED
  BY <1>1, <1>3, <1>4 DEF Depths

\* A report that calls itself complete.
LEMMA CompleteIsRead ==
    ASSUME Consistent, Completion(Report) = "complete"
    PROVE  /\ \A i \in Ids(Report) : \A p \in Matches(Report, i) : asg[i][p].status = "ok" /\ Answered(i, p)
           /\ \A p \in Scoped(Report) : Served(p) /\ (HighRisk(p) => ReadDeeply(p))
<1>1. /\ Unreviewed(Report) = {} /\ PartialSeverity(Report) = "none"
      /\ \A i \in Ids(Report) : /\ Report.sel[i].total \subseteq ReviewedBy(Report, i)
                                /\ ReviewerStatus(Report, i) \notin {"warn", "fail"}
  BY DEF Completion
<1>2. ASSUME NEW i \in Ids(Report), NEW p \in Matches(Report, i) PROVE asg[i][p].status = "ok" /\ Answered(i, p)
  <2>1. sel[i].total = Matches(Report, i) /\ Report.sel[i] = sel[i]
    BY ReportFields DEF Consistent
  <2>2. p \in ReviewedBy(Report, i)
    BY <1>1, <1>2, <2>1
  <2>3. asg[i][p].status = "ok" /\ p \in Packs
    BY <2>2, ReportFields DEF ReviewedBy
  <2>4. ReviewerDebt(Report, i) = {}
    <3>1. Report.sel[i].total # {} /\ ReviewerStatus(Report, i) \notin {"warn", "fail"}
      BY <1>1, <1>2, <2>1
    <3> QED
      BY <3>1 DEF ReviewerStatus
  <2> QED
    BY <2>3, <2>4, NoDebt
<1>3. ASSUME NEW p \in Scoped(Report) PROVE Served(p) /\ (HighRisk(p) => ReadDeeply(p))
  <2>1. p \in Reviewed(Report)
    BY <1>1 DEF Unreviewed
  <2>2. ASSUME HighRisk(p) PROVE p \in ReviewedAt(Report, "deep")
    <3>1. ShallowOnly(Report) = {}
      BY <1>1 DEF PartialSeverity
    <3>2. p \in HighRiskPacks(Report)
      BY <2>2 DEF HighRiskPacks
    <3> QED
      BY <2>1, <3>1, <3>2, ReviewedIsServed DEF ShallowOnly
  <2> QED
    BY <2>1, <2>2, ReviewedIsServed
<1> QED
  BY <1>2, <1>3

\* Either gate fails on a required reviewer and on a risky pack that nobody read.
LEMMA OpenGate ==
    ASSUME setup \in Setups, ~Blocked(Report), setup.quality \/ setup.threshold # "none"
    PROVE  RequiredFails(Report) = {} /\ (Scoped(Report) # {} => Residual(Report, "p0") = {})
<1>1. CASE setup.quality
  <2>1. QualityGate(Report) # "fail"
    BY <1>1, ReportFields DEF Blocked, QualityFailed
  <2> QED
    BY <2>1 DEF QualityGate
<1>2. CASE setup.threshold # "none"
  <2>1. setup.threshold \in {"minor", "major", "critical"}
    BY <1>2, SetupsAssumption DEF Thresholds
  <2>2. ~(PartialRank[PartialSeverity(Report)] >= PartialRank[setup.threshold])
    BY <1>2, ReportFields DEF Blocked, PartialBlocked
  <2>3. PartialSeverity(Report) # "critical"
    BY <2>1, <2>2 DEF PartialRank
  <2> QED
    BY <2>3 DEF PartialSeverity
<1> QED
  BY <1>1, <1>2

LEMMA PassedIsCovered ==
    ASSUME Consistent, ~Blocked(Report), setup.quality \/ setup.threshold # "none"
    PROVE  /\ \A p \in Scoped(Report) : HighRisk(p) => Served(p)
           /\ \A i \in Ids(Report) : setup.named /\ setup.reviewers[i].required =>
                /\ \A p \in Selected(sel[i]) : asg[i][p].status = "ok" /\ Answered(i, p)
                /\ Matches(Report, i) # {} => Selected(sel[i]) # {}
<1>1. RequiredFails(Report) = {} /\ (Scoped(Report) # {} => Residual(Report, "p0") = {})
  BY OpenGate DEF Consistent
<1>2. ASSUME NEW p \in Scoped(Report), HighRisk(p) PROVE Served(p)
  <2>1. p \notin Unreviewed(Report)
    BY <1>1, <1>2, HighRiskIsFirst DEF Residual
  <2>2. p \in Reviewed(Report)
    BY <2>1 DEF Unreviewed
  <2> QED
    BY <2>2, ReviewedIsServed
<1>3. ASSUME NEW i \in Ids(Report), setup.named, setup.reviewers[i].required
      PROVE  /\ \A p \in Selected(sel[i]) : asg[i][p].status = "ok" /\ Answered(i, p)
             /\ Matches(Report, i) # {} => Selected(sel[i]) # {}
  <2>1. /\ sel[i].total = Matches(Report, i) /\ Selected(sel[i]) \subseteq Matches(Report, i)
        /\ Matches(Report, i) \subseteq Packs /\ Report.sel[i] = sel[i]
    BY ReportFields, SetupFields DEF Consistent
  <2>2. Required(Report, i)
    BY <1>3, ReportFields DEF Required
  <2>3. ReviewerStatus(Report, i) # "fail"
    BY <1>1, <2>2 DEF RequiredFails
  <2>4. CASE sel[i].total = {}
    BY <2>1, <2>4
  <2>5. CASE sel[i].total # {}
    <3>1. ReviewerDebt(Report, i) = {}
      BY <2>1, <2>2, <2>3, <2>5 DEF ReviewerStatus
    <3> QED
      BY <2>1, <3>1, NoDebt
  <2> QED
    BY <2>4, <2>5
<1> QED
  BY <1>2, <1>3

\* Whatever fails, "complete" is said only of what every reviewer read and decided, and
\* the gate passes only when the risky packs are read and the required reviewers owe
\* nothing (evaluate_pre_push_gate, completion_status).
THEOREM VerdictsHold == Spec => []VerdictMeansCovered
<1>1. Consistent => VerdictMeansCovered
  BY CompleteIsRead, PassedIsCovered DEF VerdictMeansCovered, Consistent
<1> QED
  BY <1>1, AlwaysConsistent, PTL

-----------------------------------------------------------------------------
(* What a call does to an assignment. *)

JobKinds == Depths \cup {"verify"}
Outcomes == {"ok", "failed", "skipped", "unverified"}

\* Only packs that a reviewer has selected are touched, by a review first; and what has
\* no decision says why.
Kept(a, chosen) ==
  /\ a \in Assignment
  /\ a # Untouched => a.depth \in Depths /\ chosen
  /\ a.unresolved => a.verify = "failed" \/ a.status \in {"failed", "skipped"}

Traceable ==
  /\ asg \in [Ids(Report) -> [Packs -> Assignment]]
  /\ \A i \in Ids(Report), p \in Packs : Kept(asg[i][p], p \in Selected(sel[i]))
  /\ pc = "plan" => \A i \in Ids(Report) : Selected(sel[i]) = {}

\* The work that a call is given.
WellFormed(todo) == \A job \in todo : job.kind \in JobKinds

LEMMA UntouchedFields ==
    /\ Untouched.depth = "none" /\ Untouched.status = "none" /\ Untouched.verify = "none"
    /\ Untouched.unresolved = FALSE /\ Untouched \in Assignment
  BY DEF Untouched, Assignment, Depths

LEMMA AfterKeeps ==
    ASSUME NEW old, Kept(old, TRUE), NEW job, job.kind \in JobKinds, NEW outcome \in Outcomes,
           job.kind = "verify" => old # Untouched
    PROVE  Kept(After(old, job, outcome), TRUE)
<1>1. PICK d, st, v, u : old = [depth |-> d, status |-> st, verify |-> v, unresolved |-> u]
                         /\ d \in Depths \cup {"none"} /\ st \in {"none", "ok", "failed", "skipped"}
                         /\ v \in {"none", "ok", "failed"} /\ u \in BOOLEAN
  BY DEF Kept, Assignment
<1>10. PICK new : new = After(old, job, outcome)
  OBVIOUS
<1>9. ASSUME new \in Assignment, new.depth \in Depths,
             new.unresolved => new.verify = "failed" \/ new.status \in {"failed", "skipped"}
      PROVE  Kept(After(old, job, outcome), TRUE)
  BY <1>9, <1>10 DEF Kept
<1>2. CASE job.kind = "verify"
  <2>5. PICK w \in {"none", "failed"} : w = IF outcome = "ok" THEN "none" ELSE "failed"
    OBVIOUS
  <2>6. PICK o \in BOOLEAN : o = (outcome # "ok")
    OBVIOUS
  <2>1. new = [depth |-> d, status |-> st, verify |-> w, unresolved |-> o]
    BY <1>1, <1>2, <1>10, <2>5, <2>6 DEF After
  <2>2. d \in Depths
    BY <1>1, <1>2 DEF Kept
  <2>3. new \in Assignment
    BY <1>1, <2>1 DEF Assignment
  <2>4. new.depth = d /\ new.unresolved = o /\ new.verify = w /\ (o => w = "failed")
    BY <2>1, <2>5, <2>6
  <2> QED
    BY <1>9, <2>2, <2>3, <2>4
<1>3. CASE job.kind # "verify" /\ outcome \in {"failed", "skipped"}
  <2>1. new = [depth |-> job.kind, status |-> outcome, verify |-> "none", unresolved |-> u]
    BY <1>1, <1>3, <1>10 DEF After
  <2>2. job.kind \in Depths
    BY <1>3 DEF JobKinds
  <2>3. new \in Assignment
    BY <1>1, <1>3, <2>1, <2>2 DEF Assignment
  <2>4. new.depth = job.kind /\ new.status = outcome
    BY <2>1
  <2> QED
    BY <1>3, <1>9, <2>2, <2>3, <2>4
<1>4. CASE job.kind # "verify" /\ outcome \notin {"failed", "skipped"}
  <2>1. new =
          [depth |-> job.kind, status |-> "ok", unresolved |-> outcome = "unverified",
           verify |-> IF outcome = "unverified" THEN "failed" ELSE "none"]
    BY <1>4, <1>10 DEF After
  <2>2. job.kind \in Depths
    BY <1>4 DEF JobKinds
  <2>3. new \in Assignment
    BY <2>1, <2>2 DEF Assignment
  <2>4. /\ new.depth = job.kind /\ new.unresolved = (outcome = "unverified")
        /\ new.verify = IF outcome = "unverified" THEN "failed" ELSE "none"
    BY <2>1
  <2> QED
    BY <1>9, <2>2, <2>3, <2>4
<1> QED
  BY <1>2, <1>3, <1>4, <1>10

LEMMA PerformChanges ==
    ASSUME NEW todo, Perform(todo), asg \in [Ids(Report) -> [Packs -> Assignment]]
    PROVE  /\ DOMAIN asg' = Ids(Report) /\ \A i \in Ids(Report) : asg'[i] = [p \in Packs |-> asg'[i][p]]
           /\ \A i \in Ids(Report), p \in Packs :
                \/ asg'[i][p] = asg[i][p]
                \/ \E job \in todo, outcome \in Outcomes :
                     job.reviewer = i /\ job.pack = p /\ asg'[i][p] = After(asg[i][p], job, outcome)
<1> DEFINE Made(jobs, bad, how) ==
             asg' = [i \in DOMAIN asg |-> [p \in Packs |->
                     LET of == {job \in jobs : job.reviewer = i /\ job.pack = p}
                         job == CHOOSE j \in of : TRUE
                     IN IF of = {} THEN asg[i][p]
                        ELSE After(asg[i][p], job, IF job \in bad THEN how[job] ELSE "ok")]]
<1>1. \E bad : \E how \in [bad -> {"failed", "skipped", "unverified"}] : Made(todo, bad, how)
  <2>1. \E jobs \in {todo} : \E bad \in UNION {kSubset(k, jobs) : k \in 0..(MaxTrouble - trouble)} :
          /\ trouble' = trouble + Cardinality(bad)
          /\ \E how \in [bad -> {"failed", "skipped", "unverified"}] :
               (\A job \in bad : how[job] \in Possible(job)) /\ Made(jobs, bad, how)
    BY DEF Perform
  <2> HIDE DEF Made
  <2> QED
    BY <2>1
<1>2. PICK bad : \E how \in [bad -> {"failed", "skipped", "unverified"}] : Made(todo, bad, how)
  BY <1>1
<1>6. PICK how \in [bad -> {"failed", "skipped", "unverified"}] : Made(todo, bad, how)
  BY <1>2
<1>3. DOMAIN asg = Ids(Report)
  OBVIOUS
<1>4. DOMAIN asg' = Ids(Report) /\ \A i \in Ids(Report) : asg'[i] = [p \in Packs |-> asg'[i][p]]
  BY <1>3, <1>6
<1>5. ASSUME NEW i \in Ids(Report), NEW p \in Packs
      PROVE  \/ asg'[i][p] = asg[i][p]
             \/ \E job \in todo, outcome \in Outcomes :
                  job.reviewer = i /\ job.pack = p /\ asg'[i][p] = After(asg[i][p], job, outcome)
  <2> DEFINE of == {job \in todo : job.reviewer = i /\ job.pack = p}
  <2>1. PICK job : job = CHOOSE j \in of : TRUE
    OBVIOUS
  <2>2. PICK outcome : outcome = IF job \in bad THEN how[job] ELSE "ok"
    OBVIOUS
  <2>3. asg'[i][p] = IF of = {} THEN asg[i][p] ELSE After(asg[i][p], job, outcome)
    BY <1>3, <1>6, <2>1, <2>2
  <2>4. outcome \in Outcomes
    BY <1>6, <2>2 DEF Outcomes
  <2>5. CASE of = {}
    BY <2>3, <2>5
  <2>6. CASE of # {}
    <3>1. job \in of
      BY <2>1, <2>6
    <3> QED
      BY <2>3, <2>4, <2>6, <3>1
  <2> QED
    BY <2>5, <2>6
<1> QED
  BY <1>4, <1>5

-----------------------------------------------------------------------------
(* A step leaves every assignment explained by a selection. *)

\* A continued selection still has what was selected, and what is chosen now.
LEMMA ContinuedKeeps ==
    ASSUME NEW s, NEW packs, NEW ranDeep, NEW ranShallow, NEW chosen,
           NEW p \in packs, p \in Selected(s) \cup chosen
    PROVE  p \in Selected(Continued(Rebased(s, packs, ranDeep, ranShallow), packs, chosen, "deep"))
<1>1. PICK old : old = Rebased(s, packs, ranDeep, ranShallow)
  OBVIOUS
<1>2. PICK selected : selected = packs \cap (Selected(s) \cup ranDeep \cup ranShallow)
  OBVIOUS
<1>3. /\ old.deep = selected \cap (ranDeep \cup (s.deep \ (ranDeep \cup ranShallow)))
      /\ old.shallow = selected \cap (ranShallow \cup (s.shallow \ (ranDeep \cup ranShallow)))
  BY <1>1, <1>2 DEF Rebased, Selection
<1>4. PICK new : new = Continued(old, packs, chosen, "deep")
  OBVIOUS
<1>5. new.deep = (old.deep \cup chosen) \cap packs /\ new.shallow = (old.shallow \ chosen) \cap packs
  BY <1>4 DEF Continued, Selection
<1>6. p \in new.deep \cup new.shallow
  BY <1>2, <1>3, <1>5 DEF Selected
<1> QED
  BY <1>1, <1>4, <1>6 DEF Selected

\* What a call of the model is for.
Allowed(c) ==
  \A i \in Ids(Report) : /\ c.eligible[i] \subseteq Matches(Report, i)
                         /\ c.reviews[i] \subseteq c.eligible[i]
                         /\ c.verifications[i] \subseteq Missing(Report, i)

LEMMA JobsOf ==
    ASSUME NEW chosen, NEW kind, NEW job \in Jobs(chosen, kind)
    PROVE  job.kind = kind /\ job.reviewer \in Ids(Report) /\ job.pack \in chosen[job.reviewer]
  BY DEF Jobs, Job

LEMMA MissingIsTouched ==
    ASSUME NEW i \in Ids(Report), NEW p \in Missing(Report, i)
    PROVE  p \in Packs /\ asg[i][p] # Untouched
<1>1. p \in Packs /\ (asg[i][p].unresolved \/ asg[i][p].verify = "failed")
  BY ReportFields DEF Missing, Unresolved, FailedVerifies
<1> QED
  BY <1>1, UntouchedFields

LEMMA PerformIsTraceable ==
    ASSUME Traceable, NEW todo, Perform(todo), setup' = setup, pc' # "plan",
           \A i \in Ids(Report), p \in Packs : p \in Selected(sel[i]) => p \in Selected(sel'[i]),
           \A job \in todo : /\ job.kind \in JobKinds /\ job.pack \in Selected(sel'[job.reviewer])
                             /\ job.kind = "verify" => asg[job.reviewer][job.pack] # Untouched
    PROVE  Traceable'
<1>1. asg \in [Ids(Report) -> [Packs -> Assignment]]
  BY DEF Traceable
<1>2. Ids(Report)' = Ids(Report)
  BY ReportFields DEF Report, Ids
<1>3. ASSUME NEW i \in Ids(Report), NEW p \in Packs PROVE Kept(asg'[i][p], p \in Selected(sel'[i]))
  <2>1. Kept(asg[i][p], p \in Selected(sel[i]))
    BY DEF Traceable
  <2>2. CASE asg'[i][p] = asg[i][p]
    <3>1. p \in Selected(sel[i]) => p \in Selected(sel'[i])
      OBVIOUS
    <3> QED
      BY <2>1, <2>2, <3>1, Zenon DEF Kept
  <2>3. CASE asg'[i][p] # asg[i][p]
    <3>1. PICK job \in todo, outcome \in Outcomes :
            job.reviewer = i /\ job.pack = p /\ asg'[i][p] = After(asg[i][p], job, outcome)
      BY <1>1, <2>3, PerformChanges
    <3>2. Kept(asg[i][p], TRUE)
      BY <2>1, Zenon DEF Kept
    <3>3. Kept(After(asg[i][p], job, outcome), TRUE)
      BY <3>1, <3>2, AfterKeeps
    <3>4. p \in Selected(sel'[i])
      BY <3>1
    <3> QED
      BY <3>1, <3>3, <3>4 DEF Kept
  <2> QED
    BY <2>2, <2>3
<1>4. asg' \in [Ids(Report) -> [Packs -> Assignment]]
  <2>1. DOMAIN asg' = Ids(Report) /\ \A i \in Ids(Report) : asg'[i] = [p \in Packs |-> asg'[i][p]]
    BY <1>1, PerformChanges
  <2>2. \A i \in Ids(Report), p \in Packs : asg'[i][p] \in Assignment
    BY <1>3 DEF Kept
  <2>3. \A i \in Ids(Report) : asg'[i] \in [Packs -> Assignment]
    BY <2>1, <2>2
  <2>4. asg' = [i \in Ids(Report) |-> asg'[i]]
    <3>1. asg' = [i \in DOMAIN asg' |-> asg'[i]]
      BY DEF Perform
    <3> QED
      BY <2>1, <3>1
  <2> QED
    BY <2>3, <2>4
<1> QED
  BY <1>2, <1>3, <1>4 DEF Traceable, Selected

LEMMA ContinueIsTraceable ==
    ASSUME Consistent, Traceable, NEW c, Allowed(c), Continue(c), setup' = setup, pc' # "plan"
    PROVE  Traceable'
<1> DEFINE M(i) == Matches(Report, i)
<1>1. /\ sel' = [i \in Ids(Report) |->
              Continued(Rebased(sel[i], M(i), {p \in Packs : asg[i][p].depth = "deep"},
                                {p \in Packs : asg[i][p].depth = "shallow"}),
                        M(i), c.eligible[i], "deep")]
      /\ Perform(Jobs(c.reviews, "deep") \cup Jobs(c.verifications, "verify"))
  BY DEF Continue
<1>2. ASSUME NEW i \in Ids(Report), NEW p \in M(i), p \in Selected(sel[i]) \cup c.eligible[i]
      PROVE  p \in Selected(sel'[i])
  BY <1>1, <1>2, ContinuedKeeps
<1>3. ASSUME NEW i \in Ids(Report), NEW p \in Packs, p \in Selected(sel[i]) PROVE p \in Selected(sel'[i])
  BY <1>2, <1>3 DEF Consistent
<1>4. ASSUME NEW job \in Jobs(c.reviews, "deep") \cup Jobs(c.verifications, "verify")
      PROVE  /\ job.kind \in JobKinds /\ job.pack \in Selected(sel'[job.reviewer])
             /\ job.kind = "verify" => asg[job.reviewer][job.pack] # Untouched
  <2>1. job.reviewer \in Ids(Report)
    BY <1>4, JobsOf
  <2>2. CASE job \in Jobs(c.reviews, "deep")
    <3>1. job.kind = "deep" /\ job.pack \in c.reviews[job.reviewer]
      BY <2>2, JobsOf
    <3>2. job.pack \in c.eligible[job.reviewer] /\ job.pack \in M(job.reviewer)
      BY <2>1, <3>1 DEF Allowed
    <3> QED
      BY <1>2, <2>1, <3>1, <3>2 DEF JobKinds, Depths
  <2>3. CASE job \in Jobs(c.verifications, "verify")
    <3>1. job.kind = "verify" /\ job.pack \in c.verifications[job.reviewer]
      BY <2>3, JobsOf
    <3>2. job.pack \in Packs /\ asg[job.reviewer][job.pack] # Untouched
      BY <2>1, <3>1, MissingIsTouched DEF Allowed
    <3>3. job.pack \in Selected(sel[job.reviewer])
      BY <2>1, <3>2 DEF Traceable, Kept
    <3> QED
      BY <1>3, <2>1, <3>1, <3>2, <3>3 DEF JobKinds
  <2> QED
    BY <2>2, <2>3
<1> QED
  BY <1>1, <1>3, <1>4, PerformIsTraceable

LEMMA ReviewIsTraceable == ASSUME Consistent, Traceable, Review PROVE Traceable'
<1>1. /\ pc = "plan" /\ setup' = setup /\ pc' # "plan"
      /\ Perform(Jobs([i \in Ids(Report) |-> sel'[i].deep], "deep")
                   \cup Jobs([i \in Ids(Report) |-> sel'[i].shallow], "shallow"))
  BY DEF Review
<1>2. ASSUME NEW job \in Jobs([i \in Ids(Report) |-> sel'[i].deep], "deep")
                           \cup Jobs([i \in Ids(Report) |-> sel'[i].shallow], "shallow")
      PROVE  /\ job.kind \in JobKinds /\ job.pack \in Selected(sel'[job.reviewer])
             /\ job.kind = "verify" => asg[job.reviewer][job.pack] # Untouched
  <2>1. job.reviewer \in Ids(Report)
    BY <1>2, JobsOf
  <2>2. CASE job \in Jobs([i \in Ids(Report) |-> sel'[i].deep], "deep")
    <3>1. job.kind = "deep" /\ job.pack \in [i \in Ids(Report) |-> sel'[i].deep][job.reviewer]
      BY <2>2, JobsOf
    <3> QED
      BY <2>1, <3>1 DEF JobKinds, Depths, Selected
  <2>3. CASE job \in Jobs([i \in Ids(Report) |-> sel'[i].shallow], "shallow")
    <3>1. job.kind = "shallow" /\ job.pack \in [i \in Ids(Report) |-> sel'[i].shallow][job.reviewer]
      BY <2>3, JobsOf
    <3> QED
      BY <2>1, <3>1 DEF JobKinds, Depths, Selected
  <2> QED
    BY <2>2, <2>3
<1>3. \A i \in Ids(Report), p \in Packs : p \in Selected(sel[i]) => p \in Selected(sel'[i])
  BY <1>1 DEF Traceable
<1> QED
  BY <1>1, <1>2, <1>3, PerformIsTraceable

-----------------------------------------------------------------------------
(* Under a cap a set that has packs keeps one, and so do the shares of the reviewers. *)

LEMMA SomeCount == ASSUME NEW S \in SUBSET Packs, S # {} PROVE Cardinality(S) \in Nat \ {0}
  BY FewPacks, FS_EmptySet

\* A cap that is not used up leaves something of what there is.
LEMMA WithinSome ==
    ASSUME NEW packs \in SUBSET Packs, packs # {}, NEW cap \in Nat \ {0}, NEW preferred
    PROVE  Within(packs, cap, preferred) # {}
<1>1. CASE Cardinality(packs) <= cap
  BY <1>1, WithinCap
<1>2. CASE ~(Cardinality(packs) <= cap)
  <2>1. Cardinality(Within(packs, cap, preferred)) = cap
    BY <1>2, FewPacks, WithinCap
  <2> QED
    BY <2>1, FS_EmptySet
<1> QED
  BY <1>1, <1>2

LEMMA SelectSome ==
    ASSUME NEW packs \in SUBSET Packs, packs # {}, NEW cap \in Nat \ {0}, NEW preferred
    PROVE  Select(packs, cap, preferred) # {}
<1>1. PICK p0 : p0 = Within(OfLevel(packs, "p0"), cap, preferred)
  OBVIOUS
<1>2. PICK p1 : p1 = Within(OfLevel(packs, "p1"), cap - Cardinality(p0), preferred)
  OBVIOUS
<1>3. PICK p2 : p2 = Within(OfLevel(packs, "p2"), cap - Cardinality(p0 \cup p1), preferred)
  OBVIOUS
<1>4. \A level : OfLevel(packs, level) \in SUBSET Packs
  BY DEF OfLevel
<1>5. Select(packs, cap, preferred) = IF Cardinality(packs) <= cap THEN packs ELSE p0 \cup p1 \cup p2
  BY <1>1, <1>2, <1>3 DEF Select, WithLevel
<1>6. Cardinality({}) = 0 /\ cap - 0 = cap
  BY FS_EmptySet
<1>7. OfLevel(packs, "p0") # {} => p0 # {}
  BY <1>1, <1>4, WithinSome
<1>8. p0 = {} /\ OfLevel(packs, "p1") # {} => p1 # {}
  BY <1>2, <1>4, <1>6, WithinSome
<1>9. p0 = {} /\ p1 = {} /\ OfLevel(packs, "p2") # {} => p2 # {}
  <2>1. p0 = {} /\ p1 = {} => p0 \cup p1 = {}
    OBVIOUS
  <2> QED
    BY <1>3, <1>4, <1>6, <2>1, WithinSome
<1> QED
  BY <1>5, <1>7, <1>8, <1>9, OfLevels

LEMMA FewReviewers ==
    ASSUME setup \in Setups
    PROVE  Ids(Report) = 1..Len(setup.reviewers) /\ IsFiniteSet(Ids(Report)) /\ Ids(Report) \in SUBSET (Nat \ {0})
<1>1. Len(setup.reviewers) \in Nat /\ Ids(Report) = 1..Len(setup.reviewers)
  BY SetupsAssumption, ReportFields
<1>2. Ids(Report) \in SUBSET (Nat \ {0})
  BY <1>1
<1>3. IsFiniteSet(1..Len(setup.reviewers))
  <2>1. 1 \in Int /\ Len(setup.reviewers) \in Int
    BY <1>1
  <2> QED
    BY <2>1, FS_Interval
<1> QED
  BY <1>1, <1>2, <1>3

\* The slots of a cap that goes round the reviewers, and those ahead of one.
Slots(eligible) == {x \in Ids(Report) \X (1..Cardinality(Packs)) : x[2] <= Cardinality(eligible[x[1]])}
Sooner(i, j) == IF Required(Report, i) # Required(Report, j) THEN Required(Report, i) ELSE i < j
SlotsAhead(x, eligible) == {y \in Slots(eligible) : y[2] < x[2] \/ (y[2] = x[2] /\ Sooner(y[1], x[1]))}

SlotsTaken(eligible, cap, i) ==
  {x \in Slots(eligible) : x[1] = i /\ Cardinality(SlotsAhead(x, eligible)) < cap}

LEMMA SharesOf ==
    ASSUME setup \in Setups, NEW eligible, NEW cap, NEW i \in Ids(Report)
    PROVE  /\ Shares(Report, eligible, cap)[i] = Cardinality(SlotsTaken(eligible, cap, i))
           /\ IsFiniteSet(SlotsTaken(eligible, cap, i)) /\ Cardinality(SlotsTaken(eligible, cap, i)) \in Nat
<1> DEFINE mine == SlotsTaken(eligible, cap, i)
<1>1. Shares(Report, eligible, cap)[i] = Cardinality(mine)
  BY DEF Shares, Slots, Sooner, SlotsAhead, SlotsTaken
<1>2. IsFiniteSet(Ids(Report) \X (1..Cardinality(Packs)))
  <2>1. IsFiniteSet(1..Cardinality(Packs))
    BY FewPacks, FS_Interval
  <2> QED
    BY <2>1, FewReviewers, FS_Product
<1>3. mine \in SUBSET (Ids(Report) \X (1..Cardinality(Packs)))
  BY DEF Slots, SlotsTaken
<1> HIDE DEF mine
<1>4. IsFiniteSet(mine) /\ Cardinality(mine) \in Nat
  BY <1>2, <1>3, FS_Subset, FS_CardinalityType
<1> QED
  BY <1>1, <1>4 DEF mine

\* What the reviewers could take.
Takeable(eligible) == \A i \in Ids(Report) : eligible[i] \in SUBSET Packs

LEMMA LimitedIsLess ==
    ASSUME setup \in Setups, NEW eligible, Takeable(eligible), NEW cap, NEW i \in Ids(Report)
    PROVE  Limited(Report, eligible, cap)[i] \subseteq eligible[i]
<1>1. CASE Size(eligible) <= cap
  BY <1>1 DEF Limited
<1>2. CASE ~(Size(eligible) <= cap)
  <2>1. PICK share : share = Shares(Report, eligible, cap)[i]
    OBVIOUS
  <2>2. share \in Nat
    BY <2>1, SharesOf
  <2>3. Select(eligible[i], share, {}) \subseteq eligible[i]
    BY <2>2, SelectCap DEF Takeable
  <2>4. Limited(Report, eligible, cap)[i] = Select(eligible[i], share, {})
    BY <1>2, <2>1 DEF Limited
  <2> QED
    BY <2>3, <2>4
<1> QED
  BY <1>1, <1>2

\* The reviewer whose turn comes first has something to do.
LEMMA LimitedKeepsSome ==
    ASSUME setup \in Setups, NEW eligible, Takeable(eligible), NEW cap \in Nat \ {0},
           \E i \in Ids(Report) : eligible[i] # {}
    PROVE  \E i \in Ids(Report) : Limited(Report, eligible, cap)[i] # {}
<1>1. CASE Size(eligible) <= cap
  BY <1>1 DEF Limited
<1>2. CASE ~(Size(eligible) <= cap)
  <2>1. PICK able : able = {i \in Ids(Report) : eligible[i] # {}}
    OBVIOUS
  <2>2. PICK m \in able : \A j \in able : ~Sooner(j, m)
    <3>1. PICK needed : needed = {i \in able : Required(Report, i)}
      OBVIOUS
    <3>2. able \in SUBSET Nat /\ able # {} /\ needed \in SUBSET Nat
      BY <2>1, <3>1, FewReviewers
    <3>3. CASE needed = {}
      <4>1. Min(able) \in able /\ \A j \in able : Min(able) <= j
        BY <3>2, MinOfNats
      <4>2. ASSUME NEW j \in able PROVE ~Sooner(j, Min(able))
        <5>1. \A i \in able : ~Required(Report, i)
          BY <3>1, <3>3
        <5>2. ~(j < Min(able))
          BY <3>2, <4>1
        <5> QED
          BY <4>1, <5>1, <5>2, Zenon DEF Sooner
      <4> QED
        BY <4>1, <4>2
    <3>4. CASE needed # {}
      <4>1. Min(needed) \in needed /\ \A j \in needed : Min(needed) <= j
        BY <3>2, <3>4, MinOfNats
      <4>2. ASSUME NEW j \in able PROVE ~Sooner(j, Min(needed))
        <5>1. Required(Report, Min(needed)) /\ (Required(Report, j) => ~(j < Min(needed)))
          BY <3>1, <3>2, <4>1
        <5> QED
          BY <5>1 DEF Sooner
      <4>3. Min(needed) \in able
        BY <3>1, <4>1
      <4> QED
        BY <4>2, <4>3
    <3> QED
      BY <3>3, <3>4
  <2>3. \A i \in able : Cardinality(eligible[i]) \in Nat \ {0} /\ i \in Ids(Report)
    BY <2>1, SomeCount DEF Takeable
  <2>4. <<m, 1>> \in Slots(eligible)
    <3>1. Packs # {}
      BY <2>1 DEF Takeable
    <3>2. 1 \in 1..Cardinality(Packs) /\ 1 <= Cardinality(eligible[m])
      BY <2>3, <3>1, SomeCount
    <3> QED
      BY <2>3, <3>2 DEF Slots
  <2>5. SlotsAhead(<<m, 1>>, eligible) = {}
    <3>1. ASSUME NEW y \in Slots(eligible) PROVE ~(y[2] < 1) /\ ~(y[2] = 1 /\ Sooner(y[1], m))
      <4>1. y[1] \in Ids(Report) /\ y[2] \in 1..Cardinality(Packs) /\ y[2] <= Cardinality(eligible[y[1]])
        BY DEF Slots
      <4>2. y[1] \in able
        <5>1. ASSUME eligible[y[1]] = {} PROVE FALSE
          BY <4>1, <5>1, FS_EmptySet
        <5> QED
          BY <2>1, <4>1, <5>1
      <4> QED
        BY <2>2, <4>1, <4>2
    <3> QED
      BY <3>1 DEF SlotsAhead
  <2>6. PICK mine : mine = SlotsTaken(eligible, cap, m)
    OBVIOUS
  <2>7. <<m, 1>> \in mine
    <3>1. Cardinality(SlotsAhead(<<m, 1>>, eligible)) < cap
      BY <2>5, FS_EmptySet
    <3> QED
      BY <2>4, <2>6, <3>1 DEF SlotsTaken
  <2>8. Shares(Report, eligible, cap)[m] = Cardinality(mine) /\ IsFiniteSet(mine) /\ Cardinality(mine) \in Nat
    BY <2>3, <2>6, SharesOf
  <2>9. Cardinality(mine) \in Nat \ {0}
    BY <2>7, <2>8, FS_EmptySet
  <2>10. Select(eligible[m], Cardinality(mine), {}) # {}
    BY <2>1, <2>3, <2>9, SelectSome DEF Takeable
  <2>11. Limited(Report, eligible, cap)[m] = Select(eligible[m], Cardinality(mine), {})
    BY <1>2, <2>3, <2>8 DEF Limited
  <2> QED
    BY <2>3, <2>10, <2>11
<1> QED
  BY <1>1, <1>2

-----------------------------------------------------------------------------
(* A continuation with something to do makes a call. *)

AllEmpty(chosen) == \A i \in DOMAIN chosen : chosen[i] = {}

LEMMA EmptySize ==
    ASSUME NEW chosen, IsFiniteSet(DOMAIN chosen), AllEmpty(chosen)
    PROVE  Size(chosen) = 0
<1>0. PICK S : S = DOMAIN chosen
  OBVIOUS
<1> DEFINE term(i) == Cardinality(chosen[i])
           it == CHOOSE it : it = [s \in SUBSET S |->
                   IF s = {} THEN 0 ELSE term(CHOOSE x \in s : TRUE) + it[s \ {CHOOSE x \in s : TRUE}]]
<1>1. Size(chosen) = it[S]
  BY <1>0 DEF Size, MapThenSumSet, MapThenFoldSet
<1>2. PICK f : f = [s \in SUBSET S |-> 0]
  OBVIOUS
<1>3. \A s \in SUBSET S : s # {} => term(CHOOSE x \in s : TRUE) = 0
  BY <1>0, FS_EmptySet DEF AllEmpty
<1>4. f = [s \in SUBSET S |->
             IF s = {} THEN 0 ELSE term(CHOOSE x \in s : TRUE) + f[s \ {CHOOSE x \in s : TRUE}]]
  BY <1>2, <1>3
<1>5. it = [s \in SUBSET S |->
             IF s = {} THEN 0 ELSE term(CHOOSE x \in s : TRUE) + it[s \ {CHOOSE x \in s : TRUE}]]
  <2> HIDE DEF term
  <2> QED
    BY <1>4, Zenon
<1> HIDE DEF it, term
<1>6. Agree(it, f, S, AnyOf(S))
  <2>1. it[{}] = 0 /\ f[{}] = 0
    BY <1>2, <1>5
  <2>2. ASSUME NEW s \in SUBSET S, s # {}, it[s \ {CHOOSE x \in s : TRUE}] = f[s \ {CHOOSE x \in s : TRUE}]
        PROVE  it[s] = f[s]
    BY <1>2, <1>3, <1>5, <2>2
  <2> QED
    BY <2>1, <2>2 DEF Agree, AnyOf
<1>7. it[S] = f[S]
  BY <1>0, <1>6, AnyPicks, FoldIsUnique
<1> QED
  BY <1>1, <1>2, <1>7

LEMMA CapOfOne ==
    ASSUME setup \in Setups, NEW k \in Ids(Report)
    PROVE  CapOf(Report, {k}) = setup.reviewers[k].limits.packs
<1>0. PICK S : S = {k}
  OBVIOUS
<1> DEFINE term(i) == Report.config.reviewers[i].limits.packs
           it == CHOOSE it : it = [s \in SUBSET S |->
                   IF s = {} THEN 0 ELSE term(CHOOSE x \in s : TRUE) + it[s \ {CHOOSE x \in s : TRUE}]]
<1>1. CapOf(Report, {k}) = it[S]
  BY <1>0 DEF CapOf, MapThenSumSet, MapThenFoldSet
<1>2. PICK cap \in Nat : cap = setup.reviewers[k].limits.packs
  BY SetupFields DEF LimitValues
<1>3. PICK f : f = [s \in SUBSET S |-> IF s = {} THEN 0 ELSE cap]
  OBVIOUS
<1>4. \A s \in SUBSET S : s # {} => s = {k} /\ term(CHOOSE x \in s : TRUE) = cap /\ s \ {CHOOSE x \in s : TRUE} = {}
  <2>1. ASSUME NEW s \in SUBSET S, s # {} PROVE s = {k} /\ (CHOOSE x \in s : TRUE) = k
    BY <1>0, <2>1
  <2>2. term(k) = cap
    BY <1>2, ReportFields
  <2> QED
    BY <2>1, <2>2
<1>5. f = [s \in SUBSET S |->
             IF s = {} THEN 0 ELSE term(CHOOSE x \in s : TRUE) + f[s \ {CHOOSE x \in s : TRUE}]]
  BY <1>2, <1>3, <1>4
<1>6. it = [s \in SUBSET S |->
             IF s = {} THEN 0 ELSE term(CHOOSE x \in s : TRUE) + it[s \ {CHOOSE x \in s : TRUE}]]
  <2> HIDE DEF term
  <2> QED
    BY <1>5, Zenon
<1> HIDE DEF it, term
<1>7. it[{}] = 0
  BY <1>6
<1>8. it[S] = cap + 0
  <2>1. S # {} /\ S \in SUBSET S
    BY <1>0
  <2> QED
    BY <1>4, <1>6, <1>7, <2>1
<1> QED
  BY <1>1, <1>2, <1>8

\* What a reviewer is offered is what it matches.
Offered(eligible) == \A i \in Ids(Report) : eligible[i] \subseteq Matches(Report, i)

PendingIn(c, reviewers, packs) ==
  [i \in Ids(Report) |-> IF i \in reviewers THEN Carried(Report, i, packs, c.reviews[i]) ELSE {}]

\* The parts of a continuation.
Continues(c, reviewers, packs, eligible, cap) ==
  /\ c.eligible = eligible /\ c.reviews = Limited(Report, eligible, cap) /\ DOMAIN c.reviews = Ids(Report)
  /\ c.verifications = IF Size(c.reviews) >= cap THEN [i \in Ids(Report) |-> {}]
                       ELSE Limited(Report, PendingIn(c, reviewers, packs), cap - Size(c.reviews))
  /\ Takeable(eligible) /\ Takeable(PendingIn(c, reviewers, packs))

LEMMA ContinuationFields ==
    ASSUME setup \in Setups, NEW reviewers, NEW packs, NEW eligible, Offered(eligible),
           DOMAIN eligible = Ids(Report), NEW cap
    PROVE  Continues(Continuation(Report, reviewers, packs, eligible, cap), reviewers, packs, eligible, cap)
<1>1. PICK reviews : reviews = Limited(Report, eligible, cap)
  OBVIOUS
<1>2. PICK pending : pending = [i \in Ids(Report) |-> IF i \in reviewers THEN Carried(Report, i, packs, reviews[i]) ELSE {}]
  OBVIOUS
<1>3. PICK verifications : verifications = IF Size(reviews) >= cap THEN [i \in Ids(Report) |-> {}]
                                           ELSE Limited(Report, pending, cap - Size(reviews))
  OBVIOUS
<1>4. Continuation(Report, reviewers, packs, eligible, cap) =
        [eligible |-> eligible, reviews |-> reviews, verifications |-> verifications]
  BY <1>1, <1>2, <1>3 DEF Continuation, WithVerifications
<1>5. DOMAIN reviews = Ids(Report)
  BY <1>1 DEF Limited
<1>6. Takeable(eligible)
  BY SetupFields DEF Takeable, Offered
<1>7. Takeable(pending)
  BY <1>2 DEF Takeable, Carried, Missing, Unresolved, FailedVerifies
<1>8. PICK c : c = Continuation(Report, reviewers, packs, eligible, cap)
  OBVIOUS
<1>9. c.eligible = eligible /\ c.reviews = reviews /\ c.verifications = verifications
  BY <1>4, <1>8
<1>10. PendingIn(c, reviewers, packs) = pending
  BY <1>2, <1>9 DEF PendingIn
<1>11. Continues(c, reviewers, packs, eligible, cap)
  BY <1>1, <1>3, <1>5, <1>6, <1>7, <1>9, <1>10 DEF Continues
<1> QED
  BY <1>8, <1>11

LEMMA ContinuationIsAllowed ==
    ASSUME setup \in Setups, NEW reviewers, NEW packs, NEW eligible, Offered(eligible),
           DOMAIN eligible = Ids(Report), NEW cap
    PROVE  Allowed(Continuation(Report, reviewers, packs, eligible, cap))
<1>1. PICK c : c = Continuation(Report, reviewers, packs, eligible, cap)
  OBVIOUS
<1>2. PICK pending : pending = PendingIn(c, reviewers, packs)
  OBVIOUS
<1>3. /\ c.eligible = eligible /\ c.reviews = Limited(Report, eligible, cap)
      /\ c.verifications = IF Size(c.reviews) >= cap THEN [i \in Ids(Report) |-> {}]
                           ELSE Limited(Report, pending, cap - Size(c.reviews))
      /\ Takeable(eligible) /\ Takeable(pending)
  <2>1. Continues(c, reviewers, packs, eligible, cap)
    BY <1>1, ContinuationFields, Zenon
  <2> QED
    BY <1>2, <2>1 DEF Continues
<1>4. ASSUME NEW i \in Ids(Report)
      PROVE  /\ c.eligible[i] \subseteq Matches(Report, i)
             /\ c.reviews[i] \subseteq c.eligible[i]
             /\ c.verifications[i] \subseteq Missing(Report, i)
  <2>1. c.reviews[i] \subseteq eligible[i]
    BY <1>3, LimitedIsLess
  <2>2. c.verifications[i] \subseteq pending[i]
    BY <1>3, LimitedIsLess
  <2>3. pending[i] \subseteq Missing(Report, i)
    BY <1>2 DEF Carried, PendingIn
  <2> QED
    BY <1>3, <2>1, <2>2, <2>3 DEF Offered
<1> QED
  BY <1>1, <1>4 DEF Allowed

\* A continuation that is offered something, or lacks a verification, makes a call.
LEMMA ContinuationWorks ==
    ASSUME setup \in Setups, NEW reviewers, NEW packs, NEW eligible, Offered(eligible),
           DOMAIN eligible = Ids(Report), NEW cap \in Nat \ {0},
           \E i \in Ids(Report) : eligible[i] # {} \/ (i \in reviewers /\ Missing(Report, i) \cap packs # {})
    PROVE  HasWork(Continuation(Report, reviewers, packs, eligible, cap))
<1>1. PICK c : c = Continuation(Report, reviewers, packs, eligible, cap)
  OBVIOUS
<1>2. PICK pending : pending = PendingIn(c, reviewers, packs)
  OBVIOUS
<1>3. /\ c.eligible = eligible /\ c.reviews = Limited(Report, eligible, cap) /\ DOMAIN c.reviews = Ids(Report)
      /\ c.verifications = IF Size(c.reviews) >= cap THEN [i \in Ids(Report) |-> {}]
                           ELSE Limited(Report, pending, cap - Size(c.reviews))
      /\ Takeable(eligible) /\ Takeable(pending)
  <2>1. Continues(c, reviewers, packs, eligible, cap)
    BY <1>1, ContinuationFields, Zenon
  <2> QED
    BY <1>2, <2>1 DEF Continues
<1>4. CASE \E i \in Ids(Report) : c.reviews[i] # {}
  BY <1>1, <1>3, <1>4 DEF HasWork
<1>5. CASE \A i \in Ids(Report) : c.reviews[i] = {}
  <2>1. \A i \in Ids(Report) : eligible[i] = {}
    BY <1>3, <1>5, LimitedKeepsSome
  <2>2. PICK i \in Ids(Report) : i \in reviewers /\ Missing(Report, i) \cap packs # {}
    BY <2>1
  <2>3. pending[i] # {}
    BY <1>2, <1>5, <2>2 DEF Carried, PendingIn
  <2>4. Size(c.reviews) = 0
    BY <1>3, <1>5, FewReviewers, EmptySize DEF AllEmpty
  <2>5. c.verifications = Limited(Report, pending, cap)
    BY <1>3, <2>4
  <2>6. \E j \in Ids(Report) : c.verifications[j] # {}
    BY <1>3, <2>3, <2>5, LimitedKeepsSome
  <2> QED
    BY <1>1, <1>3, <2>6 DEF HasWork
<1> QED
  BY <1>4, <1>5

-----------------------------------------------------------------------------
(* Follow-ups and commands offer only what is matched. *)

LEMMA BudgetedIsLess ==
    ASSUME setup \in Setups, NEW i \in Ids(Report), NEW packs \in SUBSET Packs
    PROVE  LET allowed == Budgeted(packs, setup.reviewers[i], "deep", {})
           IN allowed \subseteq packs /\ Cardinality(allowed) <= setup.reviewers[i].limits.packs
<1>1. PICK limits \in LimitValues : limits = setup.reviewers[i].limits
  BY SetupFields
<1>2. PICK deep : deep = [limits EXCEPT !.mode = "fast"]
  OBVIOUS
<1>3. deep \in LimitValues /\ deep.packs = limits.packs
  BY <1>2 DEF LimitValues
<1>4. PICK plan : plan = Plan(packs, deep, {})
  OBVIOUS
<1>5. Selected(plan) \subseteq packs /\ Cardinality(Selected(plan)) <= limits.packs
  BY <1>3, <1>4, PlanIsSound DEF Sound
<1>6. [limits EXCEPT !.mode = IF "deep" = "deep" THEN "fast" ELSE "balanced",
                     !.deep = IF "deep" = "deep" THEN @ ELSE 0] = deep
  BY <1>2 DEF LimitValues
<1>7. Budgeted(packs, setup.reviewers[i], "deep", {}) = Selected(plan)
  BY <1>1, <1>4, <1>6 DEF Budgeted
<1> QED
  BY <1>1, <1>5, <1>7

LEMMA DebtIsMatched ==
    ASSUME setup \in Setups, NEW i \in Ids(Report), NEW packs, NEW forced
    PROVE  Debt(Report, i, packs, forced) \subseteq Matches(Report, i) /\ Debt(Report, i, packs, forced) \in SUBSET Packs
  BY SetupFields DEF Debt

\* What a follow-up and a command offer to the reviewers.
FollowedPacks(blocking) ==
  {p \in Packs : Priority(p) \in FollowUpPriorities(Report, blocking) /\ (blocking = {} \/ p \in blocking)}
FollowedDebt(blocking, forced, reviewers) ==
  [i \in Ids(Report) |-> IF i \in reviewers THEN Debt(Report, i, FollowedPacks(blocking), forced) ELSE {}]

LEMMA FollowedIsAllowed ==
    ASSUME setup \in Setups, NEW blocking, NEW forced, NEW reviewers
    PROVE  /\ Followed(Report, blocking, forced, reviewers) =
                Continuation(Report, reviewers, FollowedPacks(blocking),
                             FollowedDebt(blocking, forced, reviewers), setup.cap)
           /\ Offered(FollowedDebt(blocking, forced, reviewers))
           /\ DOMAIN FollowedDebt(blocking, forced, reviewers) = Ids(Report)
           /\ Allowed(Followed(Report, blocking, forced, reviewers))
<1>1. PICK eligible : eligible = FollowedDebt(blocking, forced, reviewers)
  OBVIOUS
<1>2. PICK packs : packs = FollowedPacks(blocking)
  OBVIOUS
<1>3. Followed(Report, blocking, forced, reviewers) = Continuation(Report, reviewers, packs, eligible, setup.cap)
  BY <1>1, <1>2, ReportFields DEF Followed, FollowedPacks, FollowedDebt
<1>4. Offered(eligible) /\ DOMAIN eligible = Ids(Report)
  BY <1>1, DebtIsMatched DEF Offered, FollowedDebt
<1>5. Allowed(Continuation(Report, reviewers, packs, eligible, setup.cap))
  BY <1>4, ContinuationIsAllowed
<1> QED
  BY <1>1, <1>2, <1>3, <1>4, <1>5

TodoReviewers(t) == IF t.reviewer = 0 THEN Ids(Report) ELSE {t.reviewer}
CommandDebt(t) ==
  [i \in Ids(Report) |->
     IF i \in TodoReviewers(t)
     THEN Budgeted(Debt(Report, i, {t.pack}, IF t.pack \in ShallowOnly(Report) THEN {t.pack} ELSE {}),
                   setup.reviewers[i], "deep", {})
     ELSE {}]

LEMMA CommandIsAllowed ==
    ASSUME setup \in Setups, NEW t
    PROVE  /\ CommandOf(Report, t) =
                Continuation(Report, TodoReviewers(t), {t.pack}, CommandDebt(t), CapOf(Report, TodoReviewers(t)))
           /\ Offered(CommandDebt(t)) /\ DOMAIN CommandDebt(t) = Ids(Report)
           /\ Allowed(CommandOf(Report, t))
<1>1. PICK eligible : eligible = CommandDebt(t)
  OBVIOUS
<1>2. PICK reviewers : reviewers = TodoReviewers(t)
  OBVIOUS
<1>3. PICK upgraded : upgraded = IF t.pack \in ShallowOnly(Report) THEN {t.pack} ELSE {}
  OBVIOUS
<1>4. eligible = [i \in Ids(Report) |->
          IF i \in reviewers THEN Budgeted(Debt(Report, i, {t.pack}, upgraded), setup.reviewers[i], "deep", {}) ELSE {}]
  BY <1>1, <1>2, <1>3 DEF CommandDebt
<1>5. CommandOf(Report, t) = Continuation(Report, reviewers, {t.pack}, eligible, CapOf(Report, reviewers))
  BY <1>2, <1>3, <1>4, ReportFields DEF CommandOf, TodoReviewers
<1>6. ASSUME NEW i \in Ids(Report) PROVE eligible[i] \subseteq Matches(Report, i)
  <2>1. PICK debt \in SUBSET Packs : debt = Debt(Report, i, {t.pack}, upgraded) /\ debt \subseteq Matches(Report, i)
    BY DebtIsMatched
  <2>2. Budgeted(debt, setup.reviewers[i], "deep", {}) \subseteq debt
    BY BudgetedIsLess
  <2> QED
    BY <1>4, <2>1, <2>2
<1>7. Offered(eligible) /\ DOMAIN eligible = Ids(Report)
  BY <1>4, <1>6 DEF Offered
<1>8. Allowed(Continuation(Report, reviewers, {t.pack}, eligible, CapOf(Report, reviewers)))
  BY <1>7, ContinuationIsAllowed
<1> QED
  BY <1>1, <1>2, <1>5, <1>7, <1>8

LEMMA TraceableInit == Init => Traceable
<1> SUFFICES ASSUME Init PROVE Traceable
  OBVIOUS
<1>1. asg = [i \in Ids(Report) |-> [p \in Packs |-> Untouched]]
  BY ReportFields DEF Init
<1>2. ASSUME NEW i \in Ids(Report) PROVE Selected(sel[i]) = {}
  <2>1. sel[i] = Selection(setup.reviewers[i].matches, {}, {}, {}, {}, <<>>)
    BY ReportFields DEF Init
  <2> QED
    BY <2>1 DEF Selection, Selected
<1>3. asg \in [Ids(Report) -> [Packs -> Assignment]]
  BY <1>1, UntouchedFields
<1>4. \A i \in Ids(Report), p \in Packs : Kept(asg[i][p], p \in Selected(sel[i]))
  BY <1>1, UntouchedFields DEF Kept
<1> QED
  BY <1>2, <1>3, <1>4 DEF Traceable

LEMMA TraceableStep == Consistent /\ Traceable /\ [Next]_vars => Traceable'
<1> SUFFICES ASSUME Consistent, Traceable, [Next]_vars PROVE Traceable'
  OBVIOUS
<1>1. setup \in Setups
  BY DEF Consistent
<1>2. ASSUME UNCHANGED <<setup, sel, asg>>, pc' = "plan" => pc = "plan" PROVE Traceable'
  <2>1. Ids(Report)' = Ids(Report)
    BY <1>2, ReportFields DEF Report, Ids
  <2> QED
    BY <1>2, <2>1 DEF Traceable, Selected
<1>3. CASE Review
  BY <1>3, ReviewIsTraceable
<1>4. CASE FollowUp
  <2>1. Continue(FollowUpOf(Report)) /\ setup' = setup /\ pc' = "judge"
    BY <1>4 DEF FollowUp
  <2>2. Allowed(FollowUpOf(Report))
    BY <1>1, FollowedIsAllowed DEF FollowUpOf, FollowUpAgainst
  <2> QED
    BY <2>1, <2>2, ContinueIsTraceable
<1>5. CASE LeaveAlone
  BY <1>2, <1>5 DEF LeaveAlone
<1>6. CASE Judge
  BY <1>2, <1>6 DEF Judge
<1>7. CASE PushAgain
  BY <1>2, <1>7 DEF PushAgain
<1>8. CASE RunTodo
  <2>1. PICK t \in Todos(Report) : Continue(CommandOf(Report, t))
    BY <1>8 DEF RunTodo
  <2>2. setup' = setup /\ pc' # "plan"
    BY <1>8 DEF RunTodo
  <2> QED
    BY <1>1, <2>1, <2>2, CommandIsAllowed, ContinueIsTraceable
<1>9. CASE UNCHANGED vars
  BY <1>2, <1>9 DEF vars
<1> QED
  BY <1>3, <1>4, <1>5, <1>6, <1>7, <1>8, <1>9 DEF Next, Done

\* Every run on a pack belongs to a selection of its reviewer, and a finding without a
\* decision always shows: its verification failed, or the review after it did.
THEOREM AlwaysTraceable == Spec => [](Consistent /\ Traceable)
<1> QED
  BY ConsistentInit, ConsistentStep, TraceableInit, TraceableStep, PTL DEF Spec

-----------------------------------------------------------------------------
(* Every todo names a reviewer that owes the pack. *)

LEMMA StateOf ==
    ASSUME Consistent, Traceable, NEW i \in Ids(Report)
    PROVE  /\ Report.sel[i] = sel[i] /\ sel[i].total = Matches(Report, i) /\ Matches(Report, i) \subseteq Packs
           /\ SelectedBy(Report, i) = Selected(sel[i]) /\ Selected(sel[i]) \subseteq Matches(Report, i)
           /\ \A p \in Packs : asg[i][p] # Untouched => asg[i][p].depth \in Depths /\ p \in Selected(sel[i])
           /\ ReviewedBy(Report, i) \subseteq Selected(sel[i])
           /\ Missing(Report, i) \subseteq Selected(sel[i])
           /\ FailedReviews(Report, i) \subseteq Selected(sel[i])
<1>1. /\ Report.sel[i] = sel[i] /\ sel[i].total = Matches(Report, i) /\ Matches(Report, i) \subseteq Packs
      /\ SelectedBy(Report, i) = Selected(sel[i]) /\ Selected(sel[i]) \subseteq Matches(Report, i)
  BY ReportFields, SetupFields DEF Consistent, SelectedBy
<1>2. \A p \in Packs : asg[i][p] # Untouched => asg[i][p].depth \in Depths /\ p \in Selected(sel[i])
  BY DEF Traceable, Kept
<1>3. \A p \in ReviewedBy(Report, i) : p \in Packs /\ asg[i][p] # Untouched
  BY ReportFields, UntouchedFields DEF ReviewedBy
<1>4. \A p \in FailedReviews(Report, i) : p \in Packs /\ asg[i][p] # Untouched
  BY ReportFields, UntouchedFields DEF FailedReviews
<1>5. \A p \in Missing(Report, i) : p \in Packs /\ asg[i][p] # Untouched
  BY MissingIsTouched
<1> QED
  BY <1>1, <1>2, <1>3, <1>4, <1>5

LEMMA ReviewedByIsReviewed ==
    ASSUME Consistent, Traceable, NEW i \in Ids(Report), NEW p \in ReviewedBy(Report, i), p \in Scoped(Report)
    PROVE  p \in Reviewed(Report)
<1>1. p \in Packs /\ asg[i][p].status = "ok"
  BY ReportFields DEF ReviewedBy
<1>2. asg[i][p].depth \in Depths
  BY <1>1, UntouchedFields, StateOf
<1>3. p \in ReviewedAt(Report, asg[i][p].depth)
  BY <1>1, ReportFields DEF ReviewedAt
<1> QED
  BY <1>2, <1>3 DEF Reviewed

\* A reviewer has something to do with a pack.
Owes(i, p, forced) ==
  p \in Matches(Report, i) /\ (p \notin ReviewedBy(Report, i) \/ p \in Missing(Report, i) \/ p \in forced)

LEMMA UnreviewedIsOwed ==
    ASSUME Consistent, Traceable, AllMatched, NEW p \in Unreviewed(Report)
    PROVE  \E i \in Ids(Report) : p \in Matches(Report, i) /\ p \notin ReviewedBy(Report, i)
<1>1. p \in Scoped(Report) /\ p \notin Reviewed(Report)
  BY DEF Unreviewed
<1>2. PICK i \in Ids(Report) : p \in Matches(Report, i)
  BY <1>1 DEF AllMatched
<1>3. p \notin ReviewedBy(Report, i)
  BY <1>1, ReviewedByIsReviewed
<1> QED
  BY <1>2, <1>3

LEMMA ShallowIsMatched ==
    ASSUME Consistent, Traceable, NEW p \in ShallowOnly(Report)
    PROVE  p \in Scoped(Report) /\ \E i \in Ids(Report) : p \in Matches(Report, i)
<1>1. p \in ReviewedAt(Report, "shallow")
  BY DEF ShallowOnly
<1>2. PICK i \in Ids(Report) : asg[i][p].status = "ok" /\ p \in Scoped(Report)
  BY <1>1, ReportFields DEF ReviewedAt
<1>3. p \in Packs
  <2>1. Scoped(Report) \subseteq Packs
    BY SetupFields DEF Scoped, Consistent
  <2> QED
    BY <1>2, <2>1
<1>4. p \in ReviewedBy(Report, i)
  BY <1>2, <1>3, ReportFields DEF ReviewedBy
<1> QED
  BY <1>2, <1>4, StateOf

LEMMA DepthReviewerMatches ==
    ASSUME Consistent, Traceable, NEW p \in ShallowOnly(Report)
    PROVE  DepthReviewer(Report, p) \in Ids(Report) /\ p \in Matches(Report, DepthReviewer(Report, p))
<1>1. PICK able : able = {i \in Ids(Report) : p \in Report.sel[i].total}
  OBVIOUS
<1>2. able = {i \in Ids(Report) : p \in Matches(Report, i)}
  BY <1>1, StateOf
<1>3. able # {}
  BY <1>2, ShallowIsMatched
<1>4. able \in SUBSET Nat
  BY <1>2, FewReviewers DEF Consistent
<1>5. DepthReviewer(Report, p) =
        CASE able = {} -> 0
          [] \E i \in able : Required(Report, i) -> Min({i \in able : Required(Report, i)})
          [] OTHER -> Min(able)
  BY <1>1 DEF DepthReviewer
<1>6. CASE \E i \in able : Required(Report, i)
  <2>1. PICK needed : needed = {i \in able : Required(Report, i)}
    OBVIOUS
  <2>2. Min(needed) \in needed
    BY <1>4, <1>6, <2>1, MinOfNats
  <2>3. DepthReviewer(Report, p) = Min(needed)
    BY <1>3, <1>5, <1>6, <2>1
  <2> QED
    BY <1>2, <2>1, <2>2, <2>3
<1>7. CASE ~\E i \in able : Required(Report, i)
  <2>1. Min(able) \in able
    BY <1>3, <1>4, MinOfNats
  <2>2. DepthReviewer(Report, p) = Min(able)
    BY <1>3, <1>5, <1>7
  <2> QED
    BY <1>2, <2>1, <2>2
<1> QED
  BY <1>6, <1>7

LEMMA ReviewerTodoOwes ==
    ASSUME Consistent, Traceable, NEW t \in ReviewerTodos(Report)
    PROVE  /\ t.reviewer \in Ids(Report) /\ t.pack \in Matches(Report, t.reviewer)
           /\ t.pack \notin ReviewedBy(Report, t.reviewer) \/ t.pack \in Missing(Report, t.reviewer)
<1>1. PICK x \in Ids(Report) \X Packs :
        /\ t = Todo(x[2], x[1])
        /\ x[2] \in (Report.sel[x[1]].total \ ReviewedBy(Report, x[1]))
                      \cup FailedVerifies(Report, x[1]) \cup Unresolved(Report, x[1])
  BY DEF ReviewerTodos
<1>2. t.reviewer = x[1] /\ t.pack = x[2] /\ x[1] \in Ids(Report)
  BY <1>1 DEF Todo
<1>3. t.pack \in (Report.sel[t.reviewer].total \ ReviewedBy(Report, t.reviewer)) \cup Missing(Report, t.reviewer)
  BY <1>1, <1>2 DEF Missing
<1> QED
  BY <1>2, <1>3, StateOf

\* Where every pack has a reviewer, so has every todo.
LEMMA TodoOwes ==
    ASSUME Consistent, Traceable, AllMatched, NEW t \in Todos(Report)
    PROVE  t.reviewer \in Ids(Report) /\ Owes(t.reviewer, t.pack, ShallowOnly(Report))
<1>1. PICK owed : owed = {u.pack : u \in ReviewerTodos(Report)}
  OBVIOUS
<1>2. \/ t \in ReviewerTodos(Report)
      \/ t \in ResidualTodos(Report) /\ t.pack \notin owed
      \/ \E p \in ShallowOnly(Report) : t = Todo(p, DepthReviewer(Report, p))
  BY <1>1 DEF Todos
<1>3. CASE t \in ReviewerTodos(Report)
  BY <1>3, ReviewerTodoOwes DEF Owes
<1>4. CASE t \in ResidualTodos(Report) /\ t.pack \notin owed
  <2>1. PICK p \in Unreviewed(Report) : t.pack = p
    BY <1>4 DEF ResidualTodos, Todo
  <2>2. PICK i \in Ids(Report) : p \in Matches(Report, i) /\ p \notin ReviewedBy(Report, i)
    BY UnreviewedIsOwed
  <2>3. p \in Packs /\ p \in Report.sel[i].total
    BY <2>2, StateOf
  <2>4. ReviewerStatus(Report, i) # "not_applicable"
    BY <2>3 DEF ReviewerStatus
  <2>5. Todo(p, i) \in ReviewerTodos(Report)
    <3>1. <<i, p>> \in Ids(Report) \X Packs
      BY <2>3
    <3> QED
      BY <2>2, <2>3, <2>4, <3>1 DEF ReviewerTodos
  <2>6. p \in owed
    BY <1>1, <2>5 DEF Todo
  <2> QED
    BY <1>4, <2>1, <2>6
<1>5. CASE \E p \in ShallowOnly(Report) : t = Todo(p, DepthReviewer(Report, p))
  <2>1. PICK p \in ShallowOnly(Report) : t = Todo(p, DepthReviewer(Report, p))
    BY <1>5
  <2>2. t.pack = p /\ t.reviewer = DepthReviewer(Report, p)
    BY <2>1 DEF Todo
  <2> QED
    BY <2>2, DepthReviewerMatches DEF Owes
<1> QED
  BY <1>2, <1>3, <1>4, <1>5

\* The command of a todo makes a call, unless the pack alone does not fit the budgets.
LEMMA CommandWorks ==
    ASSUME Consistent, Traceable, AllMatched, NEW t \in Todos(Report)
    PROVE  \/ t.reviewer # 0 /\ Budgeted({t.pack}, setup.reviewers[t.reviewer], "deep", {}) = {}
           \/ HasWork(CommandOf(Report, t))
<1>1. PICK i : i = t.reviewer
  OBVIOUS
<1>2. PICK p : p = t.pack
  OBVIOUS
<1>3. i \in Ids(Report) /\ Owes(i, p, ShallowOnly(Report)) /\ i # 0
  <2>1. i \in Ids(Report) /\ Owes(i, p, ShallowOnly(Report))
    BY <1>1, <1>2, TodoOwes
  <2> QED
    BY <2>1, FewReviewers DEF Consistent
<1>4. p \in Matches(Report, i) /\ p \in Packs
  BY <1>3, StateOf DEF Owes
<1> SUFFICES ASSUME Budgeted({p}, setup.reviewers[i], "deep", {}) # {} PROVE HasWork(CommandOf(Report, t))
  BY <1>1, <1>2, <1>3
<1>5. setup \in Setups
  BY DEF Consistent
<1>6. setup.reviewers[i].limits.packs \in Nat \ {0}
  <2>1. PICK allowed : allowed = Budgeted({p}, setup.reviewers[i], "deep", {})
    OBVIOUS
  <2>2. allowed \in SUBSET Packs /\ allowed # {} /\ Cardinality(allowed) <= setup.reviewers[i].limits.packs
    BY <1>3, <1>4, <1>5, <2>1, BudgetedIsLess
  <2>3. setup.reviewers[i].limits.packs \in Nat
    BY <1>3, <1>5, SetupFields DEF LimitValues
  <2> QED
    BY <2>2, <2>3, SomeCount
<1>7. TodoReviewers(t) = {i}
  BY <1>1, <1>3 DEF TodoReviewers
<1>8. CapOf(Report, TodoReviewers(t)) \in Nat \ {0}
  BY <1>3, <1>5, <1>6, <1>7, CapOfOne
<1>9. CommandDebt(t)[i] # {} \/ (i \in TodoReviewers(t) /\ Missing(Report, i) \cap {p} # {})
  <2>1. PICK upgraded : upgraded = IF p \in ShallowOnly(Report) THEN {p} ELSE {}
    OBVIOUS
  <2>2. CommandDebt(t)[i] = Budgeted(Debt(Report, i, {p}, upgraded), setup.reviewers[i], "deep", {})
    BY <1>2, <1>3, <1>7, <2>1 DEF CommandDebt
  <2>3. CASE p \notin ReviewedBy(Report, i) \/ p \in ShallowOnly(Report)
    <3>1. Debt(Report, i, {p}, upgraded) = {p}
      BY <1>4, <2>1, <2>3 DEF Debt
    <3> QED
      BY <2>2, <3>1
  <2>4. CASE p \in Missing(Report, i)
    BY <1>7, <2>4
  <2> QED
    BY <1>3, <2>3, <2>4 DEF Owes
<1>10. \E j \in Ids(Report) : CommandDebt(t)[j] # {} \/ (j \in TodoReviewers(t) /\ Missing(Report, j) \cap {p} # {})
  BY <1>3, <1>9
<1>11. PICK eligible : eligible = CommandDebt(t)
  OBVIOUS
<1>12. HasWork(Continuation(Report, TodoReviewers(t), {p}, eligible, CapOf(Report, TodoReviewers(t))))
  <2>1. Offered(eligible) /\ DOMAIN eligible = Ids(Report)
    BY <1>5, <1>11, CommandIsAllowed
  <2> QED
    BY <1>5, <1>8, <1>10, <1>11, <2>1, ContinuationWorks
<1> QED
  BY <1>2, <1>5, <1>11, <1>12, CommandIsAllowed

-----------------------------------------------------------------------------
(* The reviewers of a follow-up owe something. *)

LEMMA FollowedWorks ==
    ASSUME setup \in Setups, setup.auto = "on", NEW blocking \in SUBSET Packs, NEW forced,
           NEW reviewers, NEW i \in Ids(Report), i \in reviewers, NEW p \in blocking, Owes(i, p, forced)
    PROVE  HasWork(Followed(Report, blocking, forced, reviewers))
<1>1. PICK packs : packs = FollowedPacks(blocking)
  OBVIOUS
<1>2. PICK eligible : eligible = FollowedDebt(blocking, forced, reviewers)
  OBVIOUS
<1>3. p \in packs
  <2>1. Priority(p) \in FollowUpPriorities(Report, blocking)
    BY ReportFields DEF FollowUpPriorities
  <2> QED
    BY <1>1, <2>1 DEF FollowedPacks
<1>4. eligible[i] = Debt(Report, i, packs, forced)
  BY <1>1, <1>2 DEF FollowedDebt
<1>5. eligible[i] # {} \/ Missing(Report, i) \cap packs # {}
  BY <1>3, <1>4 DEF Owes, Debt
<1>6. Offered(eligible) /\ DOMAIN eligible = Ids(Report)
  BY <1>2, FollowedIsAllowed
<1>7. setup.cap \in Nat \ {0}
  BY SetupsAssumption
<1>8. HasWork(Continuation(Report, reviewers, packs, eligible, setup.cap))
  BY <1>5, <1>6, <1>7, ContinuationWorks
<1> QED
  BY <1>1, <1>2, <1>8, FollowedIsAllowed

\* The packs that a follow-up is forced to review anew.
Forced == BlockingPacks(Report) \cap ShallowOnly(Report)

LEMMA BlockingIsOwed ==
    ASSUME Consistent, Traceable, AllMatched, setup.auto = "on", NEW p \in BlockingPacks(Report)
    PROVE  p \in Packs /\ \E i \in Ids(Report) : Owes(i, p, Forced)
<1>1. BlockingPacks(Report) = (IF PartialBlocked(Report) THEN PartialBlocking(Report) ELSE {})
                                 \cup (IF QualityFailed(Report) THEN QualityBlocking(Report) ELSE {})
  BY ReportFields DEF BlockingPacks
<1>2. \/ p \in Unreviewed(Report)
      \/ p \in ShallowOnly(Report)
      \/ \E ids \in SUBSET Ids(Report) : p \in OwedTo(Report, ids)
      \/ \E i \in Ids(Report) : p \in Missing(Report, i)
  <2>1. CASE p \in PartialBlocking(Report)
    <3>1. PICK ids \in SUBSET Ids(Report) :
            ids = {i \in Ids(Report) : \/ ReviewerStatus(Report, i) = "fail"
                                       \/ SelectedBy(Report, i) \cap FailedReviews(Report, i) # {}
                                       \/ FailedVerifies(Report, i) # {}}
      OBVIOUS
    <3>2. p \in Unreviewed(Report) \/ p \in OwedTo(Report, ids) \/ p \in ShallowOnly(Report)
      BY <2>1, <3>1 DEF PartialBlocking
    <3> QED
      BY <3>1, <3>2
  <2>2. CASE p \in QualityBlocking(Report)
    <3>1. PICK ids \in SUBSET Ids(Report) : ids = RequiredFails(Report)
      BY DEF RequiredFails
    <3>2. \/ p \in Unreviewed(Report) \/ p \in OwedTo(Report, ids) \/ p \in ShallowOnly(Report)
          \/ \E i \in Ids(Report) : p \in Missing(Report, i)
      BY <2>2, <3>1 DEF QualityBlocking, Residual, Missing
    <3> QED
      BY <3>1, <3>2
  <2> QED
    BY <1>1, <2>1, <2>2
<1>3. CASE p \in Unreviewed(Report)
  <2>1. PICK i \in Ids(Report) : p \in Matches(Report, i) /\ p \notin ReviewedBy(Report, i)
    BY <1>3, UnreviewedIsOwed
  <2> QED
    BY <2>1, StateOf DEF Owes
<1>4. CASE p \in ShallowOnly(Report)
  <2>1. PICK i \in Ids(Report) : p \in Matches(Report, i)
    BY <1>4, ShallowIsMatched
  <2> QED
    BY <1>4, <2>1, StateOf DEF Owes, Forced
<1>5. CASE \E ids \in SUBSET Ids(Report) : p \in OwedTo(Report, ids)
  <2>1. PICK t \in Todos(Report) : t.pack = p
    BY <1>5 DEF OwedTo
  <2>2. t.reviewer \in Ids(Report) /\ Owes(t.reviewer, p, ShallowOnly(Report))
    BY <2>1, TodoOwes
  <2>3. Owes(t.reviewer, p, Forced)
    BY <2>2 DEF Owes, Forced
  <2> QED
    BY <2>2, <2>3, StateOf DEF Owes
<1>6. CASE \E i \in Ids(Report) : p \in Missing(Report, i)
  BY <1>6, StateOf DEF Owes
<1> QED
  BY <1>2, <1>3, <1>4, <1>5, <1>6

LEMMA UpgraderIsAble ==
    ASSUME Consistent, NEW forced \in SUBSET Packs, NEW candidates \in SUBSET Ids(Report),
           DepthUpgrader(Report, forced, candidates) # {}
    PROVE  \E i \in candidates : forced \cap Report.sel[i].total # {} /\ i \in DepthUpgrader(Report, forced, candidates)
<1> DEFINE covers(i) == Cardinality(forced \cap Report.sel[i].total)
<1>1. PICK able : able = {i \in candidates : forced \cap Report.sel[i].total # {}}
  OBVIOUS
<1>2. PICK most : most = {i \in able : \A j \in able : covers(j) <= covers(i)}
  OBVIOUS
<1>3. PICK needed : needed = {i \in most : Required(Report, i)}
  OBVIOUS
<1>4. DepthUpgrader(Report, forced, candidates) =
        IF able = {} THEN {} ELSE {Min(IF needed # {} THEN needed ELSE most)}
  BY <1>1, <1>2, <1>3 DEF DepthUpgrader
<1>5. able # {}
  BY <1>4
<1>6. most # {}
  <2>1. PICK n : n = Cardinality(forced)
    OBVIOUS
  <2>2. IsFiniteSet(forced) /\ n \in Nat
    BY <2>1, FewPacks
  <2>3. \A i \in able : covers(i) \in 1..n
    <3>1. ASSUME NEW S \in SUBSET forced, S # {} PROVE Cardinality(S) \in 1..n
      <4>1. Cardinality(S) <= n
        BY <2>1, <2>2, FS_Subset
      <4>2. Cardinality(S) \in Nat \ {0}
        BY <3>1, SomeCount
      <4> QED
        BY <2>2, <4>1, <4>2
    <3> QED
      BY <1>1, <3>1
  <2>4. PICK counts : counts = {covers(i) : i \in able}
    OBVIOUS
  <2>5. counts \in SUBSET (1..n) /\ counts # {}
    BY <1>5, <2>3, <2>4
  <2>6. Max(counts) \in counts /\ \A k \in counts : k <= Max(counts)
    BY <2>2, <2>5, MaxPicks
  <2> HIDE DEF covers
  <2>7. PICK i \in able : Max(counts) = covers(i)
    BY <2>4, <2>6
  <2> QED
    BY <1>2, <2>4, <2>6, <2>7
<1>7. most \in SUBSET Nat /\ needed \in SUBSET Nat
  BY <1>1, <1>2, <1>3, FewReviewers DEF Consistent
<1>8. Min(IF needed # {} THEN needed ELSE most) \in most
  BY <1>3, <1>6, <1>7, MinOfNats
<1> QED
  BY <1>1, <1>2, <1>4, <1>5, <1>8

\* Someone among the reviewers that a follow-up names has something to do.
LEMMA FollowUpReviewersOwe ==
    ASSUME Consistent, Traceable, AllMatched, setup.auto = "on", BlockingPacks(Report) # {},
           NEW owed, owed = {t \in Todos(Report) : t.pack \in BlockingPacks(Report) /\ t.reviewer \in RequiredFails(Report)}
    PROVE  \E i \in Ids(Report), p \in BlockingPacks(Report) :
             i \in FollowUpReviewers(Report, BlockingPacks(Report), Forced, owed) /\ Owes(i, p, Forced)
<1>1. PICK blocking : blocking = BlockingPacks(Report)
  OBVIOUS
<1>2. PICK candidates : candidates = IF owed = {} THEN Ids(Report) ELSE {t.reviewer : t \in owed}
  OBVIOUS
<1>3. PICK upgrader : upgrader = DepthUpgrader(Report, Forced, candidates)
  OBVIOUS
<1>4. PICK depth : depth = (blocking # {} /\ blocking = Forced /\ (Report.config.requested \/ owed = {}))
  OBVIOUS
<1>5. candidates \subseteq Ids(Report)
  BY <1>2 DEF RequiredFails
<1>6. FollowUpReviewers(Report, blocking, Forced, owed) =
        CASE depth /\ upgrader # {} -> upgrader
          [] ~(depth /\ upgrader # {}) /\ ~Report.config.requested /\ owed # {}
               /\ blocking \subseteq {t.pack : t \in owed} -> {t.reviewer : t \in owed}
          [] OTHER -> Ids(Report)
  BY <1>2, <1>3, <1>4 DEF FollowUpReviewers
<1>7. CASE depth /\ upgrader # {}
  <2>1. PICK able : able = {i \in candidates : Forced \cap Report.sel[i].total # {}}
    OBVIOUS
  <2>2. PICK i \in able : i \in upgrader
    <3>1. Forced \in SUBSET Packs
      BY BlockingIsOwed DEF Forced
    <3>2. \E i \in candidates : Forced \cap Report.sel[i].total # {} /\ i \in upgrader
      BY <1>3, <1>5, <1>7, <3>1, UpgraderIsAble
    <3> QED
      BY <2>1, <3>2
  <2>3. PICK p \in Forced : p \in Matches(Report, i) /\ i \in Ids(Report)
    BY <1>5, <2>1, <2>2, StateOf
  <2>4. Owes(i, p, Forced) /\ p \in BlockingPacks(Report)
    BY <2>3 DEF Owes, Forced
  <2> QED
    BY <1>1, <1>6, <1>7, <2>2, <2>3, <2>4
<1>8. CASE ~(depth /\ upgrader # {}) /\ ~Report.config.requested /\ owed # {} /\ blocking \subseteq {t.pack : t \in owed}
  <2>1. PICK t \in owed : TRUE
    BY <1>8
  <2>2. t \in Todos(Report) /\ t.pack \in BlockingPacks(Report)
    OBVIOUS
  <2>3. t.reviewer \in Ids(Report) /\ Owes(t.reviewer, t.pack, Forced)
    BY <2>2, TodoOwes DEF Owes, Forced
  <2>4. t.reviewer \in FollowUpReviewers(Report, blocking, Forced, owed)
    BY <1>6, <1>8
  <2> QED
    BY <1>1, <2>2, <2>3, <2>4
<1>9. CASE ~(depth /\ upgrader # {})
           /\ ~(~Report.config.requested /\ owed # {} /\ blocking \subseteq {t.pack : t \in owed})
  <2>1. PICK p \in BlockingPacks(Report) : TRUE
    OBVIOUS
  <2>2. PICK i \in Ids(Report) : Owes(i, p, Forced)
    BY BlockingIsOwed
  <2>3. FollowUpReviewers(Report, blocking, Forced, owed) = Ids(Report)
    BY <1>6, <1>9
  <2> QED
    BY <1>1, <2>1, <2>2, <2>3
<1> QED
  BY <1>7, <1>8, <1>9

-----------------------------------------------------------------------------
(* A ratio that is not full leaves a pack unreviewed. *)

LEMMA FullRatio == ASSUME NEW n \in Nat \ {0} PROVE Ratio(n, n) = 10000
<1>1. 2 * n \in Nat \ {0} /\ 20000 * n + n = 10000 * (2 * n) + n /\ 0 <= n /\ n < 2 * n
  OBVIOUS
<1>2. \A m \in Nat \ {0} : \A k \in Nat : k < m => (10000 * m + k) \div m = 10000
  OBVIOUS
<1> QED
  BY <1>1, <1>2 DEF Ratio

LEMMA FullRatioOr == ASSUME NEW n \in Nat PROVE RatioOr(n, n, 10000) = 10000
<1>1. CASE n = 0
  BY <1>1 DEF RatioOr
<1>2. CASE n # 0
  BY <1>2, FullRatio DEF RatioOr
<1> QED
  BY <1>1, <1>2

LEMMA FewLines == ASSUME NEW packs \in SUBSET Packs PROVE Cardinality(LinesOf(packs)) \in Nat
<1>1. PICK f : f = [p \in packs |-> {Pack[p].file} \X Pack[p].lines]
  OBVIOUS
<1>2. PICK S : S = {f[p] : p \in packs}
  OBVIOUS
<1>3. IsFiniteSet(S)
  <2>1. f \in Surjection(packs, S)
    BY <1>1, <1>2 DEF Surjection
  <2>2. IsFiniteSet(packs)
    BY FewPacks
  <2> QED
    BY <2>1, <2>2, FS_Surjection
<1>4. \A s \in S : IsFiniteSet(s)
  <2>1. ASSUME NEW p \in packs PROVE IsFiniteSet({Pack[p].file} \X Pack[p].lines)
    <3>1. IsFiniteSet({Pack[p].file})
      BY FS_Singleton
    <3>2. IsFiniteSet(Pack[p].lines)
      BY PacksAssumption
    <3> QED
      BY <3>1, <3>2, FS_Product
  <2> QED
    BY <1>1, <1>2, <2>1
<1>5. IsFiniteSet(UNION S)
  BY <1>3, <1>4, FS_UNION
<1>6. LinesOf(packs) = UNION S
  BY <1>1, <1>2 DEF LinesOf
<1> QED
  BY <1>5, <1>6, FS_CardinalityType

LEMMA ScopeOf == ASSUME setup \in Setups PROVE Scoped(Report) \in SUBSET Packs /\ Reviewed(Report) \subseteq Scoped(Report)
  BY SetupFields DEF Scoped, Reviewed, ReviewedAt

SourcePacks == {p \in Scoped(Report) : Pack[p].kind = "source"}

\* A ratio that is not full leaves a pack unreviewed.
LEMMA SourceLeft ==
    ASSUME setup \in Setups, SourceRatio(Report) # 10000
    PROVE  \E p \in Unreviewed(Report) : Pack[p].kind = "source"
<1>1. PICK mine : mine = SourcePacks
  OBVIOUS
<1>2. SourceRatio(Report) =
        RatioOr(Cardinality(LinesOf(mine \cap Reviewed(Report))), Cardinality(LinesOf(mine)), 10000)
  BY <1>1 DEF SourceRatio, SourcePacks
<1>3. mine \cap Reviewed(Report) # mine
  <2>1. ASSUME mine \cap Reviewed(Report) = mine PROVE FALSE
    <3>1. Cardinality(LinesOf(mine)) \in Nat
      BY <1>1, ScopeOf, FewLines DEF SourcePacks
    <3> QED
      BY <1>2, <2>1, <3>1, FullRatioOr
  <2> QED
    BY <2>1
<1> QED
  BY <1>1, <1>3 DEF Unreviewed, SourcePacks

LEMMA HighRiskLeft ==
    ASSUME setup \in Setups, HighRiskRatio(Report) # 10000
    PROVE  \E p \in Unreviewed(Report) : HighRisk(p)
<1>1. PICK risky : risky = HighRiskPacks(Report)
  OBVIOUS
<1>2. HighRiskRatio(Report) = RatioOr(Cardinality(risky \cap Reviewed(Report)), Cardinality(risky), 10000)
  BY <1>1 DEF HighRiskRatio
<1>3. risky \cap Reviewed(Report) # risky
  <2>1. ASSUME risky \cap Reviewed(Report) = risky PROVE FALSE
    <3>1. risky \in SUBSET Packs
      BY <1>1, ScopeOf DEF HighRiskPacks
    <3>2. Cardinality(risky) \in Nat
      BY <3>1, FewPacks
    <3> QED
      BY <1>2, <2>1, <3>2, FullRatioOr
  <2> QED
    BY <2>1
<1> QED
  BY <1>1, <1>3 DEF HighRiskPacks, Unreviewed

LEMMA SomeLeft ==
    ASSUME setup \in Setups, Scoped(Report) # {}, PackRatio(Report) # 10000
    PROVE  Unreviewed(Report) # {}
<1>1. SUFFICES ASSUME Unreviewed(Report) = {} PROVE FALSE
  OBVIOUS
<1>2. Reviewed(Report) = Scoped(Report)
  BY <1>1, ScopeOf DEF Unreviewed
<1>3. Cardinality(Scoped(Report)) \in Nat \ {0}
  BY ScopeOf, SomeCount
<1> QED
  BY <1>2, <1>3, FullRatio DEF PackRatio, RatioOr

-----------------------------------------------------------------------------
(* What a partial review owes. *)

\* What a reviewer has not done is a todo of its own.
LEMMA DebtIsTodo ==
    ASSUME Consistent, Traceable, NEW i \in Ids(Report),
           NEW p \in (Matches(Report, i) \ ReviewedBy(Report, i)) \cup Missing(Report, i),
           NEW ids, i \in ids
    PROVE  p \in OwedTo(Report, ids)
<1>1. p \in Matches(Report, i) /\ p \in Packs
  BY StateOf
<1>2. ReviewerStatus(Report, i) # "not_applicable"
  BY <1>1, StateOf DEF ReviewerStatus
<1>3. p \in (Report.sel[i].total \ ReviewedBy(Report, i)) \cup FailedVerifies(Report, i) \cup Unresolved(Report, i)
  BY StateOf DEF Missing
<1>4. Todo(p, i) \in ReviewerTodos(Report)
  <2>1. <<i, p>> \in Ids(Report) \X Packs
    BY <1>1
  <2> QED
    BY <1>2, <1>3, <2>1 DEF ReviewerTodos
<1>5. Todo(p, i) \in Todos(Report)
  BY <1>4 DEF Todos
<1>6. Todo(p, i).pack = p /\ Todo(p, i).reviewer = i
  BY DEF Todo
<1> QED
  BY <1>5, <1>6 DEF OwedTo

LEMMA RequiredFailOwes ==
    ASSUME Consistent, Traceable, NEW i \in RequiredFails(Report), NEW ids, i \in ids
    PROVE  OwedTo(Report, ids) # {}
<1>1. i \in Ids(Report) /\ ReviewerStatus(Report, i) = "fail"
  BY DEF RequiredFails
<1>2. Report.sel[i].total # {} /\ ReviewerDebt(Report, i) # {}
  BY <1>1 DEF ReviewerStatus
<1>3. PICK p \in ReviewerDebt(Report, i) : TRUE
  BY <1>2
<1>4. p \in (Matches(Report, i) \ ReviewedBy(Report, i)) \cup Missing(Report, i)
  BY <1>1, <1>3, StateOf DEF ReviewerDebt, Missing
<1> QED
  BY <1>1, <1>4, DebtIsTodo

\* Where something failed, or waits for a verification, a follow-up of the threshold
\* finds the reviewer.
Troubled == {i \in Ids(Report) : \/ ReviewerStatus(Report, i) = "fail"
                                 \/ SelectedBy(Report, i) \cap FailedReviews(Report, i) # {}
                                 \/ FailedVerifies(Report, i) # {}}

LEMMA FailedReviewOwes ==
    ASSUME Consistent, Traceable, NEW i \in Ids(Report), NEW p \in FailedReviews(Report, i)
    PROVE  OwedTo(Report, Troubled) # {}
<1>1. p \in SelectedBy(Report, i) /\ p \in Matches(Report, i)
  BY StateOf
<1>2. p \notin ReviewedBy(Report, i)
  BY DEF FailedReviews, ReviewedBy
<1>3. i \in Troubled
  BY <1>1 DEF Troubled
<1> QED
  BY <1>1, <1>2, <1>3, DebtIsTodo

LEMMA FailedVerifyOwes ==
    ASSUME Consistent, Traceable, NEW i \in Ids(Report), NEW p \in FailedVerifies(Report, i)
    PROVE  OwedTo(Report, Troubled) # {}
<1>1. i \in Troubled
  BY DEF Troubled
<1> QED
  BY <1>1, DebtIsTodo DEF Missing

LEMMA UnresolvedOwes ==
    ASSUME Consistent, Traceable, NEW i \in Ids(Report), NEW p \in Unresolved(Report, i)
    PROVE  OwedTo(Report, Troubled) # {}
<1>1. p \in Packs /\ Verifies(Report, i) /\ asg[i][p].unresolved
  BY ReportFields DEF Unresolved
<1>2. asg[i][p].verify = "failed" \/ asg[i][p].status \in {"failed", "skipped"}
  BY <1>1 DEF Traceable, Kept
<1>3. CASE asg[i][p].verify = "failed"
  <2>1. p \in FailedVerifies(Report, i)
    BY <1>1, <1>3, ReportFields DEF FailedVerifies
  <2> QED
    BY <2>1, FailedVerifyOwes
<1>4. CASE asg[i][p].status \in {"failed", "skipped"}
  <2>1. p \in FailedReviews(Report, i)
    BY <1>1, <1>4, ReportFields DEF FailedReviews
  <2> QED
    BY <2>1, FailedReviewOwes
<1> QED
  BY <1>2, <1>3, <1>4

-----------------------------------------------------------------------------
(* Whatever a report is blocked for, there is a pack behind it. *)

Levels == {"none", "minor", "major", "critical"}

LEMMA RankMeans ==
    ASSUME NEW threshold \in Levels, threshold # "none", NEW severity \in Levels,
           PartialRank[severity] >= PartialRank[threshold]
    PROVE  /\ severity # "none"
           /\ severity = "major" => threshold \in {"major", "minor"}
           /\ severity = "minor" => threshold = "minor"
           /\ "p0" \in ThresholdPriorities[threshold]
           /\ threshold \in {"major", "minor"} => "p1" \in ThresholdPriorities[threshold]
           /\ threshold = "minor" => "p2" \in ThresholdPriorities[threshold]
  BY DEF Levels, PartialRank, ThresholdPriorities

LEMMA SeverityCauses ==
    /\ PartialSeverity(Report) \in Levels
    /\ PartialSeverity(Report) = "critical" =>
         \/ RequiredFails(Report) # {} \/ GeneralUnverified(Report)
         \/ Residual(Report, "p0") # {} \/ HighRiskRatio(Report) < 10000
    /\ PartialSeverity(Report) = "major" =>
         \/ SomeRunFailed(Report) \/ Residual(Report, "p1") # {}
         \/ ShallowOnly(Report) # {} \/ SourceRatio(Report) < 10000
    /\ PartialSeverity(Report) = "minor" => Scoped(Report) # {} /\ PackRatio(Report) < 10000
  BY DEF PartialSeverity, Levels

LEMMA GeneralOwes ==
    ASSUME Consistent, Traceable, GeneralUnverified(Report)
    PROVE  OwedTo(Report, Troubled) # {}
<1>1. PICK i \in Ids(Report) : Unresolved(Report, i) # {}
  BY DEF GeneralUnverified
<1> QED
  BY <1>1, UnresolvedOwes

LEMMA SomeFailureOwes ==
    ASSUME Consistent, Traceable, SomeRunFailed(Report)
    PROVE  OwedTo(Report, Troubled) # {}
<1>1. PICK i \in Ids(Report) : FailedReviews(Report, i) \cup FailedVerifies(Report, i) # {}
  BY DEF SomeRunFailed
<1> QED
  BY <1>1, FailedReviewOwes, FailedVerifyOwes

LEMMA SourceIsSecond == ASSUME NEW p, Pack[p].kind = "source" PROVE Priority(p) \in {"p0", "p1"}
  BY DEF Priority

LEMMA PriorityIsOne == ASSUME NEW p PROVE Priority(p) \in {"p0", "p1", "p2"}
  BY DEF Priority

\* Unreviewed packs of the threshold, the debts of troubled reviewers, and shallow reviews.
LEMMA PartialBlockingOf ==
    PartialBlocking(Report) =
      {p \in Unreviewed(Report) : \/ Priority(p) \in ThresholdPriorities[setup.threshold]
                                  \/ PackStatus(Report, p) = "failed"}
        \cup OwedTo(Report, Troubled) \cup ShallowOnly(Report)
  BY ReportFields DEF PartialBlocking, Troubled

LEMMA PartialHasPacks ==
    ASSUME Consistent, Traceable, PartialBlocked(Report)
    PROVE  PartialBlocking(Report) # {}
<1>1. PICK threshold : threshold = setup.threshold
  OBVIOUS
<1>2. PICK severity : severity = PartialSeverity(Report)
  OBVIOUS
<1>3. threshold # "none" /\ PartialRank[severity] >= PartialRank[threshold]
  BY <1>1, <1>2, ReportFields DEF PartialBlocked
<1>4. threshold \in Levels /\ severity \in Levels
  BY <1>1, <1>2, SetupsAssumption, SeverityCauses DEF Consistent, Thresholds, Levels
<1>5. /\ severity # "none"
      /\ severity = "major" => threshold \in {"major", "minor"}
      /\ severity = "minor" => threshold = "minor"
      /\ "p0" \in ThresholdPriorities[threshold]
      /\ threshold \in {"major", "minor"} => "p1" \in ThresholdPriorities[threshold]
      /\ threshold = "minor" => "p2" \in ThresholdPriorities[threshold]
  BY <1>3, <1>4, RankMeans
<1>6. setup \in Setups
  BY DEF Consistent
<1>7. \A p \in Unreviewed(Report) :
        Priority(p) \in ThresholdPriorities[threshold] => PartialBlocking(Report) # {}
  BY <1>1, PartialBlockingOf
<1>8. OwedTo(Report, Troubled) # {} \/ ShallowOnly(Report) # {} => PartialBlocking(Report) # {}
  BY PartialBlockingOf
<1>9. CASE severity = "critical"
  <2>1. CASE RequiredFails(Report) # {}
    <3>1. PICK i \in RequiredFails(Report) : TRUE
      BY <2>1
    <3>2. i \in Troubled
      BY <3>1 DEF RequiredFails, Troubled
    <3> QED
      BY <1>8, <3>1, <3>2, RequiredFailOwes
  <2>2. CASE GeneralUnverified(Report)
    BY <1>8, <2>2, GeneralOwes
  <2>3. CASE Residual(Report, "p0") # {}
    BY <1>5, <1>7, <2>3 DEF Residual
  <2>4. CASE HighRiskRatio(Report) < 10000
    <3>1. PICK p \in Unreviewed(Report) : HighRisk(p)
      <4>1. HighRiskRatio(Report) # 10000
        BY <2>4
      <4> QED
        BY <1>6, <4>1, HighRiskLeft
    <3> QED
      BY <1>5, <1>7, <3>1, HighRiskIsFirst
  <2> QED
    BY <1>2, <1>9, <2>1, <2>2, <2>3, <2>4, SeverityCauses
<1>10. CASE severity = "major"
  <2>1. CASE SomeRunFailed(Report)
    BY <1>8, <2>1, SomeFailureOwes
  <2>2. CASE Residual(Report, "p1") # {}
    BY <1>5, <1>7, <1>10, <2>2 DEF Residual
  <2>3. CASE ShallowOnly(Report) # {}
    BY <1>8, <2>3
  <2>4. CASE SourceRatio(Report) < 10000
    <3>1. PICK p \in Unreviewed(Report) : Pack[p].kind = "source"
      <4>1. SourceRatio(Report) # 10000
        BY <2>4
      <4> QED
        BY <1>6, <4>1, SourceLeft
    <3> QED
      BY <1>5, <1>7, <1>10, <3>1, SourceIsSecond
  <2> QED
    BY <1>2, <1>10, <2>1, <2>2, <2>3, <2>4, SeverityCauses
<1>11. CASE severity = "minor"
  <2>1. PICK p \in Unreviewed(Report) : TRUE
    <3>1. Scoped(Report) # {} /\ PackRatio(Report) < 10000
      BY <1>2, <1>11, SeverityCauses
    <3>2. PackRatio(Report) # 10000
      BY <3>1
    <3> QED
      BY <1>6, <3>1, <3>2, SomeLeft
  <2> QED
    BY <1>5, <1>7, <1>11, PriorityIsOne
<1> QED
  BY <1>4, <1>5, <1>9, <1>10, <1>11 DEF Levels

-----------------------------------------------------------------------------
(* Debt is never a dead end. *)

LEMMA HighRiskSlice == ASSUME NEW p, HighRisk(p) PROVE Slice(p) = "high_risk"
  BY DEF Slice

LEMMA QualityCauses ==
    ASSUME QualityFailed(Report)
    PROVE  \/ RequiredFails(Report) # {} \/ GeneralUnverified(Report)
           \/ Residual(Report, "p0") # {} \/ BelowThreshold(Report)
  BY DEF QualityFailed, QualityGate

LeastRatios(s) ==
  /\ s.minSource \in Nat /\ s.minSource <= 10000
  /\ s.minHighRisk \in Nat /\ s.minHighRisk <= 10000

LEMMA BelowThresholdLeaves ==
    ASSUME Consistent, BelowThreshold(Report)
    PROVE  QualityBlocking(Report) # {}
<1>1. setup \in Setups /\ LeastRatios(setup)
  <2>1. setup \in Setups
    BY DEF Consistent
  <2> QED
    BY <2>1, SetupsAssumption DEF LeastRatios
<1>2. \/ setup.minSource # 0 /\ SourceRatio(Report) < setup.minSource
      \/ setup.minHighRisk # 0 /\ HighRiskRatio(Report) < setup.minHighRisk
  BY ReportFields DEF BelowThreshold
<1>3. CASE setup.minSource # 0 /\ SourceRatio(Report) < setup.minSource
  <2>1. SourceRatio(Report) # 10000
    <3>1. PICK least \in Nat : least = setup.minSource /\ least <= 10000
      BY <1>1 DEF LeastRatios
    <3>2. SourceRatio(Report) < least
      BY <1>3, <3>1
    <3>3. ~(10000 < least)
      BY <3>1
    <3> QED
      BY <3>2, <3>3
  <2>2. PICK p \in Unreviewed(Report) : Pack[p].kind = "source"
    BY <1>1, <2>1, SourceLeft
  <2>3. p \in QualityBlocking(Report)
    BY <1>3, <2>2, ReportFields DEF QualityBlocking
  <2> QED
    BY <2>3
<1>4. CASE setup.minHighRisk # 0 /\ HighRiskRatio(Report) < setup.minHighRisk
  <2>1. HighRiskRatio(Report) # 10000
    <3>1. PICK least \in Nat : least = setup.minHighRisk /\ least <= 10000
      BY <1>1 DEF LeastRatios
    <3>2. HighRiskRatio(Report) < least
      BY <1>4, <3>1
    <3>3. ~(10000 < least)
      BY <3>1
    <3> QED
      BY <3>2, <3>3
  <2>2. PICK p \in Unreviewed(Report) : HighRisk(p)
    BY <1>1, <2>1, HighRiskLeft
  <2>3. Slice(p) = "high_risk"
    BY <2>2, HighRiskSlice
  <2>4. p \in QualityBlocking(Report)
    BY <1>4, <2>2, <2>3, ReportFields DEF QualityBlocking
  <2> QED
    BY <2>4
<1> QED
  BY <1>2, <1>3, <1>4

LEMMA QualityHasPacks ==
    ASSUME Consistent, Traceable, QualityFailed(Report)
    PROVE  QualityBlocking(Report) # {}
<1>1. CASE RequiredFails(Report) # {}
  <2>1. PICK i \in RequiredFails(Report) : TRUE
    BY <1>1
  <2>2. OwedTo(Report, RequiredFails(Report)) # {}
    BY <2>1, RequiredFailOwes
  <2> QED
    BY <2>2 DEF QualityBlocking
<1>2. CASE GeneralUnverified(Report)
  <2>1. PICK i \in Ids(Report) : Unresolved(Report, i) # {}
    BY <1>2 DEF GeneralUnverified
  <2>2. PICK p \in Unresolved(Report, i) : TRUE
    BY <2>1
  <2>3. p \in UNION {Unresolved(Report, j) \cup FailedVerifies(Report, j) : j \in Ids(Report)}
    BY <2>2
  <2>4. p \in QualityBlocking(Report)
    BY <1>2, <2>3 DEF QualityBlocking
  <2> QED
    BY <2>4
<1>3. CASE Residual(Report, "p0") # {}
  BY <1>3 DEF QualityBlocking
<1>4. CASE BelowThreshold(Report)
  BY <1>4, BelowThresholdLeaves
<1> QED
  BY <1>1, <1>2, <1>3, <1>4, QualityCauses

LEMMA BlockedHasPacks ==
    ASSUME Consistent, Traceable, setup.auto = "on", Blocked(Report)
    PROVE  BlockingPacks(Report) # {}
<1>1. BlockingPacks(Report) = (IF PartialBlocked(Report) THEN PartialBlocking(Report) ELSE {})
                                 \cup (IF QualityFailed(Report) THEN QualityBlocking(Report) ELSE {})
  BY ReportFields DEF BlockingPacks
<1>2. CASE PartialBlocked(Report)
  BY <1>1, <1>2, PartialHasPacks
<1>3. CASE QualityFailed(Report)
  BY <1>1, <1>3, QualityHasPacks
<1> QED
  BY <1>2, <1>3 DEF Blocked

\* The follow-up of a blocked gate makes a call.
LEMMA FollowUpWorks ==
    ASSUME Consistent, Traceable, AllMatched, setup.auto = "on", Blocked(Report)
    PROVE  FollowsUp(Report) /\ HasWork(FollowUpOf(Report))
<1>1. PICK blocking : blocking = BlockingPacks(Report)
  OBVIOUS
<1>2. blocking # {} /\ blocking \in SUBSET Packs
  BY <1>1, BlockedHasPacks, BlockingIsOwed
<1>3. FollowsUp(Report)
  <2>1. PICK p \in blocking : TRUE
    BY <1>2
  <2>2. Priority(p) \in FollowUpPriorities(Report, blocking)
    BY <2>1, ReportFields DEF FollowUpPriorities
  <2> QED
    BY <1>1, <2>2, ReportFields DEF FollowsUp
<1>4. PICK owed : owed = {t \in Todos(Report) : t.pack \in BlockingPacks(Report) /\ t.reviewer \in RequiredFails(Report)}
  OBVIOUS
<1>5. PICK reviewers : reviewers = FollowUpReviewers(Report, blocking, Forced, owed)
  OBVIOUS
<1>6. FollowUpOf(Report) = Followed(Report, blocking, Forced, reviewers)
  BY <1>1, <1>4, <1>5 DEF FollowUpOf, FollowUpAgainst, Forced
<1>7. \E i \in Ids(Report), p \in blocking : i \in reviewers /\ Owes(i, p, Forced)
  BY <1>1, <1>2, <1>4, <1>5, FollowUpReviewersOwe
<1>8. setup \in Setups
  BY DEF Consistent
<1>9. HasWork(Followed(Report, blocking, Forced, reviewers))
  BY <1>2, <1>7, <1>8, FollowedWorks
<1> QED
  BY <1>3, <1>6, <1>9

LEMMA DebtWorks == ASSUME Consistent, Traceable PROVE DebtHasWork
  BY FollowUpWorks, CommandWorks DEF DebtHasWork

\* Debt is never a dead end: where every pack has a reviewer, the follow-up of a gate
\* that coverage blocked finds a call to make (_coverage_followup_policy), and so does
\* the command that the report prints for each todo (continue_command_for_pack), unless
\* the pack alone is beyond the budgets of the reviewer.
THEOREM DebtAlwaysHasWork == Spec => []DebtHasWork
<1> QED
  BY AlwaysTraceable, DebtWorks, PTL
=============================================================================
