---------------------- MODULE TypeScriptAnalyzerProofs ------------------------
(* Proofs about TypeScriptAnalyzer, for every repository, every limits and every   *)
(* answer of Git, of the file checker and of Node.  Parts one and two: whatever    *)
(* path the inventory is offered and whatever it displaces, the retention stays in *)
(* order (Good), and the invariant of the inventory (Inventoried) says what makes  *)
(* that inductive: neither Git's list nor the walk offers a path a second time.    *)
(* Part three: Accounts, by which every shard that was passed has exactly one      *)
(* answer or one failure, about the files of its shard.  Part four: a manifest     *)
(* that is handed to Node is within the bytes and entries of its reader (Limited). *)
EXTENDS TypeScriptAnalyzer, FiniteSetTheorems, SequenceTheorems, TLAPS

-------------------------------------------------------------------------------
(* Part one, the retention.  Sums over finite sets: CHOOSE fixes an order and no *)
(* property may depend on it.                                                  *)

LEMMA Induction ==
    ASSUME NEW T, T \subseteq Nat, 0 \in T, \A n \in T : n + 1 \in T
    PROVE  T = Nat
<1> DEFINE less == OpToRel(<, Nat)
           Rest == Nat \ T
<1>1. \A m, n \in Nat : m < n => <<m, n>> \in less
  BY DEF OpToRel
<1>2. IsWellFoundedOn(less, Nat)
  BY NatLessThanWellFounded
<1> HIDE DEF less
<1> SUFFICES ASSUME Rest # {} PROVE FALSE
  OBVIOUS
<1>3. PICK x \in Rest : \A y \in Rest : <<y, x>> \notin less
  BY <1>2, WFMin
<1>4. x - 1 \in Nat /\ x - 1 \notin T
  <2>1. x # 0 /\ x \in Nat
    OBVIOUS
  <2> QED
    BY <2>1
<1>5. x - 1 \in Rest /\ <<x - 1, x>> \in less
  <2>1. x \in Nat /\ x - 1 < x
    OBVIOUS
  <2> QED
    BY <1>1, <1>4, <2>1
<1> QED
  BY <1>3, <1>5, Zenon

\* ch picks an element of every set that has one.
Picks(ch, S) == \A s \in SUBSET S : s # {} => ch[s] \in s

\* f[s] is what the elements of s make of base, the one that ch picks last.
Folds(f, S, base, ch, step) ==
  \A s \in SUBSET S : f[s] = IF s = {} THEN base ELSE step[ch[s]][f[s \ {ch[s]}]]

\* A sum over a finite set exists as a function of all its subsets, whatever picks the
\* next element.
LEMMA FoldExists ==
    ASSUME NEW S, IsFiniteSet(S), NEW A, NEW base \in A,
           NEW ch, Picks(ch, S),
           NEW step \in [S -> [A -> A]]
    PROVE  \E f \in [SUBSET S -> A] : Folds(f, S, base, ch, step)
<1> DEFINE Sz(n) == {s \in SUBSET S : Cardinality(s) <= n}
           Value(g, s) == IF s = {} THEN base ELSE step[ch[s]][g[s \ {ch[s]}]]
           T == {n \in Nat : \E g \in [Sz(n) -> A] : \A s \in Sz(n) : g[s] = Value(g, s)}
<1>1. \A s \in SUBSET S : IsFiniteSet(s) /\ Cardinality(s) \in Nat
  BY FS_Subset, FS_CardinalityType
<1>2. \A s \in SUBSET S : s # {} => s \ {ch[s]} \in SUBSET S /\ Cardinality(s \ {ch[s]}) = Cardinality(s) - 1
  BY <1>1, FS_RemoveElement DEF Picks
<1>3. 0 \in T
  <2> DEFINE g == [s \in Sz(0) |-> base]
  <2>1. \A s \in Sz(0) : s = {}
    BY <1>1, FS_EmptySet
  <2>2. g \in [Sz(0) -> A] /\ \A s \in Sz(0) : g[s] = Value(g, s)
    BY <2>1
  <2> QED
    BY <2>2
<1>4. ASSUME NEW n \in T PROVE n + 1 \in T
  <2>1. PICK g \in [Sz(n) -> A] : \A s \in Sz(n) : g[s] = Value(g, s)
    OBVIOUS
  <2> DEFINE h == [s \in Sz(n + 1) |-> IF s \in Sz(n) THEN g[s] ELSE Value(g, s)]
  <2>2. Sz(n) \subseteq Sz(n + 1)
    BY <1>1
  <2>3. \A s \in Sz(n + 1) : s # {} => s \ {ch[s]} \in Sz(n)
    BY <1>1, <1>2
  <2>4. {} \in Sz(n)
    BY FS_EmptySet
  <2>5. ASSUME NEW s \in Sz(n + 1) PROVE h[s] \in A /\ h[s] = Value(h, s)
    <3>1. CASE s = {}
      BY <2>1, <2>4, <3>1
    <3>2. CASE s # {}
      <4>1. s \ {ch[s]} \in Sz(n) /\ ch[s] \in S
        BY <2>3, <3>2 DEF Picks
      <4>2. h[s \ {ch[s]}] = g[s \ {ch[s]}] /\ g[s \ {ch[s]}] \in A
        BY <4>1, <2>2
      <4>3. h[s] = Value(g, s)
        BY <2>1
      <4>4. step[ch[s]][g[s \ {ch[s]}]] \in A
        <5>1. step[ch[s]] \in [A -> A]
          BY <4>1
        <5> QED
          BY <4>2, <5>1
      <4> QED
        BY <3>2, <4>2, <4>3, <4>4
    <3> QED
      BY <3>1, <3>2
  <2>6. h \in [Sz(n + 1) -> A]
    BY <2>5
  <2>7. n + 1 \in Nat
    OBVIOUS
  <2> HIDE DEF h
  <2> QED
    BY <2>5, <2>6, <2>7
<1>5. T = Nat
  <2> HIDE DEF T
  <2>1. T \subseteq Nat
    BY DEF T
  <2> QED
    BY <1>3, <1>4, <2>1, Induction
<1>6. Cardinality(S) \in T
  BY <1>1, <1>5
<1>7. Sz(Cardinality(S)) = SUBSET S
  BY <1>1, FS_Subset
<1>8. PICK f \in [Sz(Cardinality(S)) -> A] : \A s \in Sz(Cardinality(S)) : f[s] = Value(f, s)
  BY <1>6
<1>9. \A s \in SUBSET S : f[s] = Value(f, s)
  BY <1>7, <1>8, Zenon
<1>10. f \in [SUBSET S -> A]
  BY <1>7, <1>8, Zenon
<1> QED
  <2>1. Folds(f, S, base, ch, step)
    BY <1>9, Zenon DEF Folds
  <2> QED
    BY <1>10, <2>1

\* Functions that agree on the rest of a set agree on the set.
Agree(f, g, S, ch) ==
  /\ f[{}] = g[{}]
  /\ \A s \in SUBSET S : s # {} /\ f[s \ {ch[s]}] = g[s \ {ch[s]}] => f[s] = g[s]

\* Two such functions of the same picks and steps agree on every subset.
LEMMA FoldIsUnique ==
    ASSUME NEW S, IsFiniteSet(S), NEW ch, Picks(ch, S), NEW f, NEW g, Agree(f, g, S, ch)
    PROVE  \A s \in SUBSET S : f[s] = g[s]
<1> DEFINE T == {n \in Nat : \A s \in SUBSET S : Cardinality(s) = n => f[s] = g[s]}
<1>1. \A s \in SUBSET S : IsFiniteSet(s) /\ Cardinality(s) \in Nat
  BY FS_Subset, FS_CardinalityType
<1>2. \A s \in SUBSET S : s # {} => s \ {ch[s]} \in SUBSET S /\ Cardinality(s \ {ch[s]}) = Cardinality(s) - 1
  BY <1>1, FS_RemoveElement DEF Picks
<1>3. 0 \in T
  BY <1>1, FS_EmptySet DEF Agree
<1>4. ASSUME NEW n \in T PROVE n + 1 \in T
  <2>1. ASSUME NEW s \in SUBSET S, Cardinality(s) = n + 1 PROVE f[s] = g[s]
    <3>1. s # {}
      <4>1. n + 1 # 0
        OBVIOUS
      <4> QED
        BY <2>1, <4>1, FS_EmptySet
    <3>2. Cardinality(s \ {ch[s]}) = n
      BY <1>2, <2>1, <3>1
    <3> QED
      BY <1>2, <3>1, <3>2 DEF Agree
  <2> QED
    BY <2>1
<1>5. T = Nat
  <2> HIDE DEF T
  <2>1. T \subseteq Nat
    BY DEF T
  <2> QED
    BY <1>3, <1>4, <2>1, Induction
<1> QED
  BY <1>1, <1>5

\* f[s] is the sum of g over s, element by element.
Sums(f, S, g) ==
  \A s \in SUBSET S : f[s] = IF s = {} THEN 0 ELSE g[CHOOSE x \in s : TRUE] + f[s \ {CHOOSE x \in s : TRUE}]

\* The element of a set that a sum takes next.
AnyOf(S) == [s \in SUBSET S |-> CHOOSE x \in s : TRUE]

\* A choice of an element is a way to pick.
LEMMA AnyPicks == ASSUME NEW S PROVE Picks(AnyOf(S), S)
  BY DEF Picks, AnyOf

\* So a sum of integers exists.
LEMMA SumExists ==
    ASSUME NEW S, IsFiniteSet(S), NEW g, \A x \in S : g[x] \in Int
    PROVE  \E f \in [SUBSET S -> Int] : Sums(f, S, g)
<1>1. PICK A : A = Int
  OBVIOUS
<1>2. PICK base : base = 0
  OBVIOUS
<1>3. PICK ch : ch = AnyOf(S)
  OBVIOUS
<1>4. PICK step : step = [x \in S |-> [a \in A |-> g[x] + a]]
  OBVIOUS
<1>5. base \in A /\ step \in [S -> [A -> A]]
  BY <1>1, <1>2, <1>4
<1>6. Picks(ch, S)
  BY <1>3, AnyPicks
<1>7. PICK f \in [SUBSET S -> A] : Folds(f, S, base, ch, step)
  BY <1>5, <1>6, FoldExists, Zenon
<1>8. ASSUME NEW s \in SUBSET S
      PROVE  f[s] = IF s = {} THEN 0 ELSE g[CHOOSE x \in s : TRUE] + f[s \ {CHOOSE x \in s : TRUE}]
  <2>1. f[s] = IF s = {} THEN base ELSE step[ch[s]][f[s \ {ch[s]}]]
    BY <1>7 DEF Folds
  <2>2. ASSUME s # {} PROVE step[ch[s]][f[s \ {ch[s]}]] = g[ch[s]] + f[s \ {ch[s]}]
    <3>1. ch[s] \in S /\ f[s \ {ch[s]}] \in A
      <4>1. ch[s] \in s /\ s \ {ch[s]} \in SUBSET S
        BY <1>6, <2>2 DEF Picks
      <4> QED
        BY <1>7, <4>1
    <3> QED
      BY <1>4, <3>1
  <2>3. ch[s] = CHOOSE x \in s : TRUE
    BY <1>3 DEF AnyOf
  <2> QED
    BY <1>2, <2>1, <2>2, <2>3
<1> QED
  BY <1>1, <1>7, <1>8 DEF Sums

\* A sum of integers is an integer.
LEMMA SumsAgree ==
    ASSUME NEW S, IsFiniteSet(S), NEW g, \A x \in S : g[x] \in Int, NEW f, Sums(f, S, g)
    PROVE  f[S] \in Int
<1>1. PICK h \in [SUBSET S -> Int] : Sums(h, S, g)
  BY SumExists
<1>2. Agree(f, h, S, AnyOf(S))
  <2>1. f[{}] = h[{}]
    BY <1>1 DEF Sums
  <2>2. ASSUME NEW s \in SUBSET S, s # {}, f[s \ {CHOOSE x \in s : TRUE}] = h[s \ {CHOOSE x \in s : TRUE}]
        PROVE  f[s] = h[s]
    BY <1>1, <2>2 DEF Sums
  <2> QED
    BY <2>1, <2>2 DEF Agree, AnyOf
<1>3. f[S] = h[S]
  BY <1>2, AnyPicks, FoldIsUnique
<1> QED
  BY <1>1, <1>3

\* A sum is that of the rest and of any one element.
SplitsOff(f, S, g) == \A s \in SUBSET S : \A x \in s : f[s] = g[x] + f[s \ {x}]

\* Its value does not depend on the order: an element may be taken out at any place.
LEMMA SumRemoves ==
    ASSUME NEW S, IsFiniteSet(S), NEW g, \A x \in S : g[x] \in Int,
           NEW f \in [SUBSET S -> Int], Sums(f, S, g)
    PROVE  SplitsOff(f, S, g)
<1> DEFINE Removes(s) == \A x \in s : f[s] = g[x] + f[s \ {x}]
           T == {n \in Nat : \A s \in SUBSET S : Cardinality(s) = n => Removes(s)}
<1>1. \A s \in SUBSET S : IsFiniteSet(s) /\ Cardinality(s) \in Nat
  BY FS_Subset, FS_CardinalityType
<1>2. \A s \in SUBSET S : \A x \in s : s \ {x} \in SUBSET S /\ Cardinality(s \ {x}) = Cardinality(s) - 1
  BY <1>1, FS_RemoveElement
<1>3. 0 \in T
  BY <1>1, FS_EmptySet
<1>4. ASSUME NEW n \in T PROVE n + 1 \in T
  <2>1. ASSUME NEW s \in SUBSET S, Cardinality(s) = n + 1, NEW x \in s PROVE f[s] = g[x] + f[s \ {x}]
    <3>1. PICK y : y = CHOOSE z \in s : TRUE
      OBVIOUS
    <3>2. y \in s /\ f[s] = g[y] + f[s \ {y}]
      BY <2>1, <3>1 DEF Sums
    <3>3. CASE x = y
      BY <3>2, <3>3
    <3>4. CASE x # y
      <4>1. Cardinality(s \ {x}) = n /\ Cardinality(s \ {y}) = n
        BY <1>2, <2>1, <3>2
      <4>2. f[s \ {y}] = g[x] + f[(s \ {y}) \ {x}]
        BY <1>2, <1>4, <2>1, <3>2, <3>4, <4>1
      <4>3. f[s \ {x}] = g[y] + f[(s \ {x}) \ {y}]
        BY <1>2, <1>4, <2>1, <3>2, <3>4, <4>1
      <4>4. (s \ {y}) \ {x} = (s \ {x}) \ {y}
        OBVIOUS
      <4>5. g[x] \in Int /\ g[y] \in Int /\ f[(s \ {x}) \ {y}] \in Int
        BY <3>2
      <4>6. PICK c : c = f[(s \ {x}) \ {y}]
        OBVIOUS
      <4>7. f[s] = g[y] + (g[x] + c) /\ f[s \ {x}] = g[y] + c
        BY <3>2, <4>2, <4>3, <4>4, <4>6, Zenon
      <4> QED
        BY <4>5, <4>6, <4>7
    <3> QED
      BY <3>3, <3>4
  <2> QED
    BY <2>1
<1>5. T = Nat
  <2> HIDE DEF T
  <2>1. T \subseteq Nat
    BY DEF T
  <2> QED
    BY <1>3, <1>4, <2>1, Induction
<1> QED
  BY <1>1, <1>5 DEF SplitsOff

\* What BytesOf computes.
LEMMA BytesIsSum ==
    ASSUME NEW s \in SUBSET Paths, IsFiniteSet(s)
    PROVE  \E it : Sums(it, s, Bytes) /\ BytesOf(s) = it[s]
<1> DEFINE it == CHOOSE it : it = [t \in SUBSET s |->
                   IF t = {} THEN 0 ELSE Bytes[CHOOSE x \in t : TRUE] + it[t \ {CHOOSE x \in t : TRUE}]]
<1>1. BytesOf(s) = it[s]
  BY DEF BytesOf, MapThenSumSet, MapThenFoldSet
<1>2. \A p \in s : Bytes[p] \in Int
  BY PathsAssumption
<1>3. PICK f \in [SUBSET s -> Int] : Sums(f, s, Bytes)
  BY <1>2, SumExists
<1>4. f = [t \in SUBSET s |->
             IF t = {} THEN 0 ELSE Bytes[CHOOSE x \in t : TRUE] + f[t \ {CHOOSE x \in t : TRUE}]]
  BY <1>3 DEF Sums
<1>5. it = [t \in SUBSET s |->
             IF t = {} THEN 0 ELSE Bytes[CHOOSE x \in t : TRUE] + it[t \ {CHOOSE x \in t : TRUE}]]
  BY <1>4, Zenon
<1> HIDE DEF it
<1>6. Sums(it, s, Bytes)
  BY <1>5 DEF Sums
<1> QED
  BY <1>1, <1>6

\* BytesOf is that sum.
LEMMA BytesAgree ==
    ASSUME NEW S \in SUBSET Paths, IsFiniteSet(S), NEW f \in [SUBSET S -> Int], Sums(f, S, Bytes),
           NEW s \in SUBSET S
    PROVE  BytesOf(s) = f[s]
<1>1. IsFiniteSet(s) /\ s \in SUBSET Paths
  BY FS_Subset
<1>2. PICK it : Sums(it, s, Bytes) /\ BytesOf(s) = it[s]
  BY <1>1, BytesIsSum
<1>3. Agree(it, f, s, AnyOf(s))
  <2>1. it[{}] = f[{}]
    BY <1>2 DEF Sums
  <2>2. ASSUME NEW t \in SUBSET s, t # {}, it[t \ {CHOOSE x \in t : TRUE}] = f[t \ {CHOOSE x \in t : TRUE}]
        PROVE  it[t] = f[t]
    BY <1>2, <2>2 DEF Sums
  <2> QED
    BY <2>1, <2>2 DEF Agree, AnyOf
<1>4. it[s] = f[s]
  BY <1>1, <1>3, AnyPicks, FoldIsUnique
<1> QED
  BY <1>2, <1>4

\* The bytes of some paths, with one path more and one path fewer.
LEMMA BytesAdd ==
    ASSUME NEW s \in SUBSET Paths, IsFiniteSet(s)
    PROVE  /\ BytesOf(s) \in Int
           /\ BytesOf({}) = 0
           /\ \A p \in Paths \ s : BytesOf(s \cup {p}) = BytesOf(s) + Bytes[p]
           /\ \A p \in s : BytesOf(s \ {p}) = BytesOf(s) - Bytes[p]
<1>1. ASSUME NEW S \in SUBSET Paths, IsFiniteSet(S)
      PROVE  /\ \A t \in SUBSET S : BytesOf(t) \in Int
             /\ BytesOf({}) = 0
             /\ \A t \in SUBSET S : \A p \in t : BytesOf(t) = Bytes[p] + BytesOf(t \ {p})
  <2>1. \A p \in S : Bytes[p] \in Int
    BY PathsAssumption
  <2>2. PICK f \in [SUBSET S -> Int] : Sums(f, S, Bytes)
    BY <1>1, <2>1, SumExists
  <2>3. \A t \in SUBSET S : BytesOf(t) = f[t]
    BY <1>1, <2>2, BytesAgree
  <2>4. f[{}] = 0 /\ {} \in SUBSET S
    BY <2>2 DEF Sums
  <2>5. SplitsOff(f, S, Bytes)
    BY <1>1, <2>1, <2>2, SumRemoves
  <2>6. \A t \in SUBSET S : \A p \in t : t \ {p} \in SUBSET S
    OBVIOUS
  <2> QED
    BY <2>2, <2>3, <2>4, <2>5, <2>6 DEF SplitsOff
<1>2. BytesOf(s) \in Int /\ BytesOf({}) = 0
  BY <1>1
<1>3. ASSUME NEW p \in Paths \ s PROVE BytesOf(s \cup {p}) = BytesOf(s) + Bytes[p]
  <2>0. IsFiniteSet(s \cup {p})
    BY FS_AddElement
  <2>1. s \cup {p} \in SUBSET Paths /\ (s \cup {p}) \ {p} = s /\ p \in s \cup {p}
    OBVIOUS
  <2>2. BytesOf(s \cup {p}) = Bytes[p] + BytesOf((s \cup {p}) \ {p})
    BY <1>1, <2>0, <2>1
  <2>3. Bytes[p] \in Int
    BY PathsAssumption
  <2>4. BytesOf(s \cup {p}) = Bytes[p] + BytesOf(s)
    BY <2>1, <2>2, Zenon
  <2> QED
    BY <1>2, <2>3, <2>4
<1>4. ASSUME NEW p \in s PROVE BytesOf(s \ {p}) = BytesOf(s) - Bytes[p]
  <2>1. BytesOf(s) = Bytes[p] + BytesOf(s \ {p}) /\ BytesOf(s \ {p}) \in Int
    BY <1>1
  <2>2. Bytes[p] \in Int
    BY PathsAssumption
  <2> QED
    BY <1>2, <2>1, <2>2
<1> QED
  BY <1>2, <1>3, <1>4

-----------------------------------------------------------------------------
(* Sequences: an element appended, removed, or replaced by the last one. *)

LEMMA Appended ==
    ASSUME NEW S, NEW s \in Seq(S), NEW x \in S
    PROVE  /\ Append(s, x) \in Seq(S) /\ Len(Append(s, x)) = Len(s) + 1
           /\ DOMAIN Append(s, x) = 1..Len(s) + 1
           /\ \A i \in 1..Len(s) : Append(s, x)[i] = s[i]
           /\ Append(s, x)[Len(s) + 1] = x
           /\ Range(Append(s, x)) = Range(s) \cup {x}
<1>1. /\ Append(s, x) \in Seq(S) /\ Len(Append(s, x)) = Len(s) + 1
      /\ \A i \in 1..Len(s) : Append(s, x)[i] = s[i]
      /\ Append(s, x)[Len(s) + 1] = x
  OBVIOUS
<1>2. DOMAIN s = 1..Len(s) /\ Len(s) \in Nat
  OBVIOUS
<1>3. PICK t : t = Append(s, x)
  OBVIOUS
<1>4. DOMAIN t = 1..Len(s) + 1
  BY <1>1, <1>3
<1>5. Range(t) = Range(s) \cup {x}
  <2>1. ASSUME NEW y \in Range(t) PROVE y \in Range(s) \cup {x}
    <3>1. PICK i \in 1..Len(s) + 1 : y = t[i]
      BY <1>4 DEF Range
    <3>2. i \in 1..Len(s) \/ i = Len(s) + 1
      BY <1>2
    <3> QED
      BY <1>1, <1>2, <1>3, <3>1, <3>2 DEF Range
  <2>2. ASSUME NEW y \in Range(s) \cup {x} PROVE y \in Range(t)
    <3>1. CASE y = x
      BY <1>1, <1>2, <1>3, <1>4, <3>1 DEF Range
    <3>2. CASE y \in Range(s)
      <4>1. PICK i \in 1..Len(s) : y = s[i]
        BY <1>2, <3>2 DEF Range
      <4>2. i \in 1..Len(s) + 1 /\ t[i] = y
        BY <1>1, <1>2, <1>3, <4>1
      <4> QED
        BY <1>4, <4>2 DEF Range
    <3> QED
      BY <2>2, <3>1, <3>2
  <2> QED
    BY <2>1, <2>2
<1> QED
  BY <1>1, <1>3, <1>4, <1>5

LEMMA RangeIsFinite ==
    ASSUME NEW S, NEW s \in Seq(S)
    PROVE  /\ IsFiniteSet(Range(s)) /\ Range(s) \subseteq S
           /\ DOMAIN s = 1..Len(s) /\ Len(s) \in Nat
           /\ \A i \in DOMAIN s : s[i] \in Range(s)
           /\ \A x \in Range(s) : \E i \in DOMAIN s : x = s[i]
<1>1. DOMAIN s = 1..Len(s) /\ Len(s) \in Nat /\ \A i \in DOMAIN s : s[i] \in S
  OBVIOUS
<1>2. PICK D : D = DOMAIN s
  OBVIOUS
<1>3. IsFiniteSet(D)
  BY <1>1, <1>2, FS_Interval
<1>4. s \in Surjection(D, Range(s))
  BY <1>1, <1>2 DEF Surjection, Range
<1>5. IsFiniteSet(Range(s))
  BY <1>3, <1>4, FS_Surjection
<1> QED
  BY <1>1, <1>5 DEF Range

LEMMA Removed ==
    ASSUME NEW S, NEW s \in Seq(S), NEW i \in DOMAIN s
    PROVE  /\ RemoveAt(s, i) \in Seq(S) /\ Len(RemoveAt(s, i)) = Len(s) - 1
           /\ \A j \in 1..Len(s) - 1 : RemoveAt(s, i)[j] = s[IF j < i THEN j ELSE j + 1]
           /\ (\A j \in DOMAIN s : s[j] = s[i] => j = i) => Range(RemoveAt(s, i)) = Range(s) \ {s[i]}
<1>1. DOMAIN s = 1..Len(s) /\ Len(s) \in Nat /\ i \in 1..Len(s)
  OBVIOUS
<1>2. PICK a : a = SubSeq(s, 1, i - 1)
  OBVIOUS
<1>3. PICK b : b = SubSeq(s, i + 1, Len(s))
  OBVIOUS
<1>4. a \in Seq(S) /\ Len(a) = i - 1 /\ \A j \in 1..i - 1 : a[j] = s[j]
  <2>1. 1 \in Int /\ i - 1 \in Int /\ \A j \in 1..i - 1 : s[j] \in S
    BY <1>1
  <2> QED
    BY <1>1, <1>2, <2>1, SubSeqProperties
<1>5. b \in Seq(S) /\ Len(b) = Len(s) - i /\ \A j \in 1..Len(s) - i : b[j] = s[j + i]
  <2>1. i + 1 \in Int /\ Len(s) \in Int /\ \A j \in i + 1..Len(s) : s[j] \in S
    BY <1>1
  <2> QED
    BY <1>1, <1>3, <2>1, SubSeqProperties
<1>6. PICK t : t = a \o b
  OBVIOUS
<1>7. t = RemoveAt(s, i)
  BY <1>2, <1>3, <1>6 DEF RemoveAt
<1>8. t \in Seq(S) /\ Len(t) = Len(s) - 1 /\ DOMAIN t = 1..Len(s) - 1
  <2>1. a \in Seq(S) /\ b \in Seq(S)
    BY <1>4, <1>5
  <2>2. t \in Seq(S) /\ Len(t) = Len(a) + Len(b)
    BY <1>6, <2>1
  <2>3. Len(a) + Len(b) = Len(s) - 1
    BY <1>1, <1>4, <1>5
  <2> QED
    BY <2>2, <2>3
<1>9. ASSUME NEW j \in 1..Len(s) - 1 PROVE t[j] = s[IF j < i THEN j ELSE j + 1]
  <2>1. CASE j < i
    BY <1>1, <1>4, <1>5, <1>6, <2>1
  <2>2. CASE ~(j < i)
    <3>1. j - Len(a) \in 1..Len(s) - i /\ (j - Len(a)) + i = j + 1
      BY <1>1, <1>4, <2>2
    <3>2. t[j] = b[j - Len(a)]
      BY <1>1, <1>4, <1>5, <1>6, <2>2
    <3> QED
      BY <1>5, <2>2, <3>1, <3>2
  <2> QED
    BY <2>1, <2>2
<1>10. ASSUME \A j \in DOMAIN s : s[j] = s[i] => j = i PROVE Range(t) = Range(s) \ {s[i]}
  <2>1. ASSUME NEW y \in Range(t) PROVE y \in Range(s) \ {s[i]}
    <3>1. PICK j \in 1..Len(s) - 1 : y = t[j]
      BY <1>8 DEF Range
    <3>2. PICK k \in 1..Len(s) : y = s[k] /\ k # i
      <4>1. (IF j < i THEN j ELSE j + 1) \in 1..Len(s) /\ (IF j < i THEN j ELSE j + 1) # i
        BY <1>1
      <4> QED
        BY <1>9, <3>1, <4>1
    <3> QED
      BY <1>1, <1>10, <3>2 DEF Range
  <2>2. ASSUME NEW y \in Range(s) \ {s[i]} PROVE y \in Range(t)
    <3>1. PICK k \in 1..Len(s) : y = s[k] /\ k # i
      BY <1>1 DEF Range
    <3>2. PICK j \in 1..Len(s) - 1 : k = IF j < i THEN j ELSE j + 1
      <4>1. CASE k < i
        BY <1>1, <4>1
      <4>2. CASE k > i
        <5>1. k - 1 \in 1..Len(s) - 1 /\ ~(k - 1 < i) /\ k = (k - 1) + 1
          BY <1>1, <4>2
        <5> QED
          BY <5>1
      <4> QED
        BY <1>1, <3>1, <4>1, <4>2
    <3>3. t[j] = y /\ j \in DOMAIN t
      BY <1>8, <1>9, <3>1, <3>2
    <3> QED
      BY <3>3 DEF Range
  <2> QED
    BY <2>1, <2>2
<1> QED
  BY <1>7, <1>8, <1>9, <1>10

-----------------------------------------------------------------------------
(* A retention that is in order, and what a drop does to it. *)

Entries == [path : Paths, sections : SUBSET Sections, critical : BOOLEAN]

\* The fields of a retention.
RetFields == {"lim", "reasons", "enforce", "source", "indexed", "index", "meta", "counts",
              "bytes", "sourceBytes", "ordinaryBytes", "ordinaryCount", "broken"}

\* A record with these fields; one that differs from another in some of them only.
Formed(r) == DOMAIN r = RetFields /\ r = [f \in RetFields |-> r[f]]
SameBut(x, r, F) == \A f \in RetFields \ F : x[f] = r[f]

\* The types of its fields.
Shape(r) ==
  /\ Formed(r)
  /\ r.source \in Seq(Paths) /\ r.meta \in Seq(Entries)
  /\ r.enforce \in BOOLEAN /\ r.indexed \in BOOLEAN /\ r.broken \in BOOLEAN
  /\ r.counts \in [Sections -> Int]
  /\ r.bytes \in Int /\ r.sourceBytes \in Int /\ r.ordinaryBytes \in Int /\ r.ordinaryCount \in Int
  /\ r.lim.entries \in Nat /\ r.lim.capacity \in Nat /\ r.lim.bytes \in Nat
  /\ IsFiniteSet(r.reasons)

\* No key twice, in one list and across lists and entries.
Distinct(s) == \A i, j \in DOMAIN s : Key[s[i]] = Key[s[j]] => i = j
MetaDistinct(s) == \A i, j \in DOMAIN s : Key[s[i].path] = Key[s[j].path] => i = j
Apart(S, M) == \A p \in S, m \in M : Key[p] # Key[m.path]
Indexes(x, s) ==
  /\ DOMAIN x = {Key[p] : p \in Range(s)}
  /\ \A i \in DOMAIN s : x[Key[s[i]]] = i

\* The numbers that a retention of the sources S, n of them, and of the entries M has.
Tallies(r, S, n, M) ==
  /\ r.sourceBytes = BytesOf(S)
  /\ r.bytes = r.sourceBytes + BytesOf(PathsOf(M))
  /\ r.ordinaryCount = Cardinality(OrdinaryOf(M))
  /\ r.ordinaryBytes = BytesOf(PathsOf(OrdinaryOf(M)))
  /\ \A s \in Sections : r.counts[s] = Cardinality(OfSection(M, s)) + (IF s = "files" THEN n ELSE 0)

\* No limit is passed.
Bounded(r) ==
  /\ r.bytes <= r.lim.bytes /\ RetainedCount(r) <= r.lim.capacity
  /\ r.enforce => \A s \in Sections : r.counts[s] <= r.lim.entries

\* In order: well formed, and its counters say what it holds.
Good(r) == Shape(r) /\ CountersAgree(r)

\* CountersAgree in the parts that the proofs handle one by one.
LEMMA AgreeParts ==
    ASSUME NEW r
    PROVE  CountersAgree(r) <=>
             /\ ~r.broken /\ Distinct(r.source) /\ MetaDistinct(r.meta)
             /\ Apart(Range(r.source), Range(r.meta))
             /\ Tallies(r, Range(r.source), Len(r.source), Range(r.meta))
             /\ (r.indexed => Indexes(r.index, r.source)) /\ Bounded(r)
  BY DEF CountersAgree, Distinct, MetaDistinct, Apart, Tallies, Indexes, Bounded

\* What the numbers of the entries are without one of them.
LEMMA EntryDropped ==
    ASSUME NEW M \in SUBSET Entries, IsFiniteSet(M), NEW m \in M,
           \A a, b \in M : Key[a.path] = Key[b.path] => a = b
    PROVE  /\ BytesOf(PathsOf(M)) \in Int /\ Bytes[m.path] \in Int
           /\ BytesOf(PathsOf(M \ {m})) = BytesOf(PathsOf(M)) - Bytes[m.path]
           /\ BytesOf(PathsOf(OrdinaryOf(M))) \in Int
           /\ BytesOf(PathsOf(OrdinaryOf(M \ {m}))) =
                BytesOf(PathsOf(OrdinaryOf(M))) - (IF m.critical THEN 0 ELSE Bytes[m.path])
           /\ Cardinality(OrdinaryOf(M)) \in Nat
           /\ Cardinality(OrdinaryOf(M \ {m})) = Cardinality(OrdinaryOf(M)) - (IF m.critical THEN 0 ELSE 1)
           /\ \A s \in Sections :
                /\ Cardinality(OfSection(M, s)) \in Nat
                /\ Cardinality(OfSection(M \ {m}, s)) =
                     Cardinality(OfSection(M, s)) - (IF s \in m.sections THEN 1 ELSE 0)
<1>1. ASSUME NEW A \in SUBSET M
      PROVE  /\ IsFiniteSet(A) /\ Cardinality(A) \in Nat
             /\ IsFiniteSet(PathsOf(A)) /\ PathsOf(A) \in SUBSET Paths /\ BytesOf(PathsOf(A)) \in Int
             /\ m \in A => /\ Cardinality(A \ {m}) = Cardinality(A) - 1
                           /\ BytesOf(PathsOf(A \ {m})) = BytesOf(PathsOf(A)) - Bytes[m.path]
  <2>1. IsFiniteSet(A) /\ Cardinality(A) \in Nat
    BY FS_Subset, FS_CardinalityType
  <2>2. PICK f : f = [a \in A |-> a.path]
    OBVIOUS
  <2>3. f \in Surjection(A, PathsOf(A))
    BY <2>2 DEF Surjection, PathsOf
  <2>4. IsFiniteSet(PathsOf(A))
    BY <2>1, <2>3, FS_Surjection
  <2>5. PathsOf(A) \in SUBSET Paths
    BY DEF PathsOf, Entries
  <2>6. BytesOf(PathsOf(A)) \in Int
    BY <2>4, <2>5, BytesAdd
  <2>7. ASSUME m \in A
        PROVE  /\ Cardinality(A \ {m}) = Cardinality(A) - 1
               /\ BytesOf(PathsOf(A \ {m})) = BytesOf(PathsOf(A)) - Bytes[m.path]
    <3>1. Cardinality(A \ {m}) = Cardinality(A) - 1
      BY <2>1, <2>7, FS_RemoveElement
    <3>2. PathsOf(A \ {m}) = PathsOf(A) \ {m.path} /\ m.path \in PathsOf(A)
      BY <2>7 DEF PathsOf
    <3>3. BytesOf(PathsOf(A) \ {m.path}) = BytesOf(PathsOf(A)) - Bytes[m.path]
      BY <2>4, <2>5, <3>2, BytesAdd
    <3> QED
      BY <3>1, <3>2, <3>3
  <2> QED
    BY <2>1, <2>4, <2>5, <2>6, <2>7
<1>2. Bytes[m.path] \in Int
  BY PathsAssumption DEF Entries
<1>3. OrdinaryOf(M) \in SUBSET M /\ (m \in OrdinaryOf(M) <=> ~m.critical)
  BY DEF OrdinaryOf
<1>4. OrdinaryOf(M \ {m}) = IF m.critical THEN OrdinaryOf(M) ELSE OrdinaryOf(M) \ {m}
  BY DEF OrdinaryOf
<1>5. ASSUME NEW s \in Sections
      PROVE  /\ Cardinality(OfSection(M, s)) \in Nat
             /\ Cardinality(OfSection(M \ {m}, s)) =
                  Cardinality(OfSection(M, s)) - (IF s \in m.sections THEN 1 ELSE 0)
  <2>1. OfSection(M, s) \in SUBSET M /\ (m \in OfSection(M, s) <=> s \in m.sections)
    BY DEF OfSection
  <2>2. OfSection(M \ {m}, s) = IF s \in m.sections THEN OfSection(M, s) \ {m} ELSE OfSection(M, s)
    BY DEF OfSection
  <2>3. Cardinality(OfSection(M, s)) \in Nat
    BY <1>1, <2>1
  <2>4. CASE s \in m.sections
    BY <1>1, <2>1, <2>2, <2>4
  <2>5. CASE s \notin m.sections
    BY <2>2, <2>3, <2>5
  <2> QED
    BY <2>3, <2>4, <2>5
<1>6. /\ BytesOf(PathsOf(OrdinaryOf(M))) \in Int
      /\ BytesOf(PathsOf(OrdinaryOf(M \ {m}))) =
           BytesOf(PathsOf(OrdinaryOf(M))) - (IF m.critical THEN 0 ELSE Bytes[m.path])
      /\ Cardinality(OrdinaryOf(M)) \in Nat
      /\ Cardinality(OrdinaryOf(M \ {m})) = Cardinality(OrdinaryOf(M)) - (IF m.critical THEN 0 ELSE 1)
  <2>1. BytesOf(PathsOf(OrdinaryOf(M))) \in Int /\ Cardinality(OrdinaryOf(M)) \in Nat
    BY <1>1, <1>3
  <2>2. m.critical \in BOOLEAN
    BY DEF Entries
  <2>3. CASE m.critical
    BY <1>4, <2>1, <2>3
  <2>4. CASE ~m.critical
    BY <1>1, <1>3, <1>4, <2>1, <2>4
  <2> QED
    BY <2>2, <2>3, <2>4
<1>7. /\ BytesOf(PathsOf(M)) \in Int
      /\ BytesOf(PathsOf(M \ {m})) = BytesOf(PathsOf(M)) - Bytes[m.path]
  BY <1>1
<1> QED
  BY <1>2, <1>5, <1>6, <1>7

\* The source at a position is replaced by the last one.
LEMMA DetachedSource ==
    ASSUME NEW r, Shape(r), Distinct(r.source), r.indexed => Indexes(r.index, r.source),
           NEW i \in DOMAIN r.source, NEW d, d = Detach(r, i)
    PROVE  /\ d.source \in Seq(Paths) /\ Len(d.source) = Len(r.source) - 1
           /\ Range(d.source) = Range(r.source) \ {r.source[i]}
           /\ Distinct(d.source) /\ (r.indexed => Indexes(d.index, d.source))
           /\ Formed(d) /\ SameBut(d, r, {"source", "index"})
<1>1. PICK s : s = r.source
  OBVIOUS
<1>2. PICK n : n = Len(s)
  OBVIOUS
<1>3. s \in Seq(Paths) /\ DOMAIN s = 1..n /\ n \in Nat /\ i \in 1..n /\ \A j \in 1..n : s[j] \in Paths
  BY <1>1, <1>2 DEF Shape
<1>4. PICK rest : rest = Front(s)
  OBVIOUS
<1>5. rest \in Seq(Paths) /\ Len(rest) = n - 1 /\ \A j \in 1..n - 1 : rest[j] = s[j]
  <2>1. 1 \in Int /\ n - 1 \in Int /\ \A j \in 1..n - 1 : s[j] \in Paths
    BY <1>3
  <2>2. rest = SubSeq(s, 1, n - 1)
    BY <1>2, <1>4 DEF Front
  <2> QED
    BY <1>3, <2>1, <2>2, SubSeqProperties
<1>6. PICK last : last = s[n]
  OBVIOUS
<1>7. last = Last(s) /\ last \in Paths
  BY <1>2, <1>3, <1>6 DEF Last
<1>8. PICK t : t = IF i <= n - 1 THEN [rest EXCEPT ![i] = last] ELSE rest
  OBVIOUS
<1>9. PICK moved : moved = IF i <= n - 1 THEN {Key[last]} ELSE {}
  OBVIOUS
<1>10. PICK x : x = IF ~r.indexed THEN r.index
                    ELSE [k \in (DOMAIN r.index \ {Key[s[i]]}) \cup moved |-> IF k \in moved THEN i ELSE r.index[k]]
  OBVIOUS
<1>11. d = [r EXCEPT !.source = t, !.index = x]
  BY <1>1, <1>4, <1>5, <1>7, <1>8, <1>9, <1>10 DEF Detach
<1>12. d.source = t /\ d.index = x /\ Formed(d) /\ SameBut(d, r, {"source", "index"})
  BY <1>11 DEF Shape, RetFields, Formed, SameBut
<1>13. t \in Seq(Paths) /\ Len(t) = n - 1 /\ DOMAIN t = 1..n - 1
  BY <1>3, <1>5, <1>7, <1>8
<1>14. \A j \in 1..n - 1 : t[j] = IF j = i THEN s[n] ELSE s[j]
  BY <1>3, <1>5, <1>6, <1>8
<1>15. Range(t) = Range(s) \ {s[i]}
  <2>1. ASSUME NEW y \in Range(t) PROVE y \in Range(s) \ {s[i]}
    <3>1. PICK j \in 1..n - 1 : y = t[j]
      BY <1>13 DEF Range
    <3>2. PICK k \in 1..n : y = s[k] /\ k # i
      BY <1>3, <1>14, <3>1
    <3> QED
      BY <1>1, <1>3, <3>2 DEF Range, Distinct
  <2>2. ASSUME NEW y \in Range(s) \ {s[i]} PROVE y \in Range(t)
    <3>1. PICK k \in 1..n : y = s[k] /\ k # i
      BY <1>3 DEF Range
    <3>2. CASE k = n
      BY <1>3, <1>13, <1>14, <3>1, <3>2 DEF Range
    <3>3. CASE k # n
      BY <1>3, <1>13, <1>14, <3>1, <3>3 DEF Range
    <3> QED
      BY <3>2, <3>3
  <2> QED
    BY <2>1, <2>2
<1>16. Distinct(t)
  <2>1. ASSUME NEW a \in 1..n - 1, NEW b \in 1..n - 1, Key[t[a]] = Key[t[b]] PROVE a = b
    <3>1. \A j, k \in 1..n : Key[s[j]] = Key[s[k]] => j = k
      BY <1>1, <1>3 DEF Distinct
    <3>2. t[a] = s[IF a = i THEN n ELSE a] /\ t[b] = s[IF b = i THEN n ELSE b]
      BY <1>14
    <3>3. (IF a = i THEN n ELSE a) \in 1..n /\ (IF b = i THEN n ELSE b) \in 1..n
      BY <1>3
    <3>4. (IF a = i THEN n ELSE a) = (IF b = i THEN n ELSE b)
      BY <2>1, <3>1, <3>2, <3>3
    <3> QED
      BY <1>3, <3>4
  <2> QED
    BY <1>13, <2>1 DEF Distinct
<1>17. ASSUME r.indexed PROVE Indexes(x, t)
  <2>1. DOMAIN r.index = {Key[p] : p \in Range(s)} /\ \A j \in 1..n : r.index[Key[s[j]]] = j
    BY <1>1, <1>3, <1>17 DEF Indexes
  <2>2. x = [k \in (DOMAIN r.index \ {Key[s[i]]}) \cup moved |-> IF k \in moved THEN i ELSE r.index[k]]
    BY <1>10, <1>17
  <2>3. \A j, k \in 1..n : Key[s[j]] = Key[s[k]] => j = k
    BY <1>1, <1>3 DEF Distinct
  <2>4. DOMAIN x = {Key[p] : p \in Range(t)}
    <3>1. {Key[p] : p \in Range(s)} \ {Key[s[i]]} = {Key[p] : p \in Range(s) \ {s[i]}}
      <4>1. \A p \in Range(s) : Key[p] = Key[s[i]] => p = s[i]
        BY <1>3, <2>3 DEF Range
      <4> QED
        BY <4>1
    <3>2. moved \subseteq {Key[p] : p \in Range(s) \ {s[i]}}
      <4>1. CASE i <= n - 1
        <5>1. s[n] \in Range(s) /\ s[n] # s[i]
          BY <1>3, <2>3, <4>1 DEF Range
        <5> QED
          BY <1>6, <1>9, <5>1
      <4>2. CASE ~(i <= n - 1)
        BY <1>9, <4>2
      <4> QED
        BY <4>1, <4>2
    <3> QED
      BY <1>15, <2>1, <2>2, <3>1, <3>2
  <2>5. ASSUME NEW j \in 1..n - 1 PROVE x[Key[t[j]]] = j
    <3>1. Key[t[j]] \in DOMAIN x
      BY <1>13, <2>4 DEF Range
    <3>2. x[Key[t[j]]] = IF Key[t[j]] \in moved THEN i ELSE r.index[Key[t[j]]]
      BY <2>2, <3>1
    <3>3. CASE j = i
      BY <1>3, <1>6, <1>9, <1>14, <3>2, <3>3
    <3>4. CASE j # i
      <4>1. t[j] = s[j] /\ j \in 1..n /\ j # n
        BY <1>3, <1>14, <3>4
      <4>2. Key[t[j]] \notin moved
        BY <1>3, <1>6, <1>9, <2>3, <4>1
      <4> QED
        BY <2>1, <3>2, <4>1, <4>2
    <3> QED
      BY <3>3, <3>4
  <2> QED
    BY <1>13, <2>4, <2>5 DEF Indexes
<1> QED
  BY <1>1, <1>2, <1>12, <1>13, <1>15, <1>16, <1>17

-----------------------------------------------------------------------------
(* What a retention keeps, and what a drop leaves of it. *)

\* The keys under which something is retained.
KeysOf(r) == {Key[p] : p \in Range(r.source)} \cup {Key[m.path] : m \in Range(r.meta)}

\* The retention d keeps a part of what r keeps, in order.
Lessens(d, r) ==
  /\ Good(d) /\ d.lim = r.lim /\ d.enforce = r.enforce
  /\ Range(d.source) \subseteq Range(r.source) /\ Range(d.meta) \subseteq Range(r.meta)
  /\ \A s \in Sections : d.counts[s] <= r.counts[s]

\* The retention d keeps everything that r keeps under other keys.
KeepsOthers(d, r, key) ==
  /\ \A p \in Range(r.source) : Key[p] # key => p \in Range(d.source)
  /\ \A m \in Range(r.meta) : Key[m.path] # key => m \in Range(d.meta)

SameSources(d, r) == d.source = r.source /\ d.indexed = r.indexed /\ d.index = r.index

\* The parts of a retention that is in order.
LEMMA GoodParts ==
    ASSUME NEW r, Good(r)
    PROVE  /\ Formed(r)
           /\ r.source \in Seq(Paths) /\ DOMAIN r.source = 1..Len(r.source) /\ Len(r.source) \in Nat
           /\ r.meta \in Seq(Entries) /\ DOMAIN r.meta = 1..Len(r.meta) /\ Len(r.meta) \in Nat
           /\ IsFiniteSet(Range(r.source)) /\ Range(r.source) \in SUBSET Paths
           /\ IsFiniteSet(Range(r.meta)) /\ Range(r.meta) \in SUBSET Entries
           /\ \A i \in DOMAIN r.source : r.source[i] \in Paths /\ r.source[i] \in Range(r.source)
           /\ \A i \in DOMAIN r.meta : r.meta[i] \in Entries /\ r.meta[i] \in Range(r.meta)
           /\ \A p \in Range(r.source) : \E i \in DOMAIN r.source : p = r.source[i]
           /\ \A m \in Range(r.meta) : \E i \in DOMAIN r.meta : m = r.meta[i]
           /\ \A a, b \in Range(r.meta) : Key[a.path] = Key[b.path] => a = b
<1>1. Formed(r) /\ r.source \in Seq(Paths) /\ r.meta \in Seq(Entries)
  BY DEF Good, Shape, Formed
<1>2. /\ IsFiniteSet(Range(r.source)) /\ Range(r.source) \in SUBSET Paths
      /\ DOMAIN r.source = 1..Len(r.source) /\ Len(r.source) \in Nat
      /\ \A i \in DOMAIN r.source : r.source[i] \in Paths /\ r.source[i] \in Range(r.source)
      /\ \A p \in Range(r.source) : \E i \in DOMAIN r.source : p = r.source[i]
  BY <1>1, RangeIsFinite
<1>3. /\ IsFiniteSet(Range(r.meta)) /\ Range(r.meta) \in SUBSET Entries
      /\ DOMAIN r.meta = 1..Len(r.meta) /\ Len(r.meta) \in Nat
      /\ \A i \in DOMAIN r.meta : r.meta[i] \in Entries /\ r.meta[i] \in Range(r.meta)
      /\ \A m \in Range(r.meta) : \E i \in DOMAIN r.meta : m = r.meta[i]
  BY <1>1, RangeIsFinite
<1>4. MetaDistinct(r.meta)
  BY AgreeParts DEF Good
<1>5. \A a, b \in Range(r.meta) : Key[a.path] = Key[b.path] => a = b
  <2> TAKE a, b \in Range(r.meta)
  <2>1. PICK i \in DOMAIN r.meta : a = r.meta[i]
    BY <1>3
  <2>2. PICK j \in DOMAIN r.meta : b = r.meta[j]
    BY <1>3
  <2> QED
    BY <1>4, <2>1, <2>2 DEF MetaDistinct
<1> QED
  BY <1>1, <1>2, <1>3, <1>5

\* The same parts, of a retention that is in order.
LEMMA GoodAgrees ==
    ASSUME NEW r, Good(r)
    PROVE  /\ r.broken = FALSE /\ Distinct(r.source) /\ MetaDistinct(r.meta)
           /\ Apart(Range(r.source), Range(r.meta))
           /\ Tallies(r, Range(r.source), Len(r.source), Range(r.meta))
           /\ (r.indexed => Indexes(r.index, r.source)) /\ Bounded(r)
           /\ r.indexed \in BOOLEAN /\ r.enforce \in BOOLEAN /\ IsFiniteSet(r.reasons)
           /\ r.bytes \in Int /\ r.sourceBytes \in Int /\ r.ordinaryBytes \in Int /\ r.ordinaryCount \in Int
           /\ r.counts \in [Sections -> Int]
           /\ r.lim.entries \in Nat /\ r.lim.capacity \in Nat /\ r.lim.bytes \in Nat
<1>1. CountersAgree(r) /\ Shape(r)
  BY DEF Good
<1>2. r.broken = FALSE /\ r.indexed \in BOOLEAN /\ r.enforce \in BOOLEAN /\ IsFiniteSet(r.reasons)
  BY <1>1 DEF Shape, CountersAgree
<1> QED
  BY <1>1, <1>2, AgreeParts DEF Shape

\* The two together, in the other direction.
LEMMA GoodMade ==
    ASSUME NEW r, Formed(r),
           r.source \in Seq(Paths), r.meta \in Seq(Entries),
           r.enforce \in BOOLEAN, r.indexed \in BOOLEAN, r.broken = FALSE, r.counts \in [Sections -> Int],
           r.bytes \in Int, r.sourceBytes \in Int, r.ordinaryBytes \in Int, r.ordinaryCount \in Int,
           r.lim.entries \in Nat, r.lim.capacity \in Nat, r.lim.bytes \in Nat, IsFiniteSet(r.reasons),
           Distinct(r.source), MetaDistinct(r.meta), Apart(Range(r.source), Range(r.meta)),
           Tallies(r, Range(r.source), Len(r.source), Range(r.meta)),
           r.indexed => Indexes(r.index, r.source), Bounded(r)
    PROVE  Good(r)
<1>1. r.broken \in BOOLEAN /\ ~r.broken
  OBVIOUS
<1>2. Shape(r)
  BY <1>1 DEF Shape, Formed
<1>3. CountersAgree(r)
  BY <1>1, AgreeParts
<1> QED
  BY <1>2, <1>3 DEF Good

\* Only the index and the reasons may be different.
LEMMA GoodAgain ==
    ASSUME NEW r, Good(r), NEW x, Formed(x), SameBut(x, r, {"index", "indexed", "reasons"}),
           x.indexed \in BOOLEAN, x.indexed => Indexes(x.index, x.source), IsFiniteSet(x.reasons)
    PROVE  Good(x) /\ Lessens(x, r) /\ KeysOf(x) = KeysOf(r) /\ RetainedCount(x) = RetainedCount(r)
<1>1. /\ x.lim = r.lim /\ x.enforce = r.enforce /\ x.source = r.source /\ x.meta = r.meta
      /\ x.counts = r.counts /\ x.bytes = r.bytes /\ x.sourceBytes = r.sourceBytes
      /\ x.ordinaryBytes = r.ordinaryBytes /\ x.ordinaryCount = r.ordinaryCount /\ x.broken = r.broken
  BY DEF RetFields, SameBut
<1>2. RetainedCount(x) = RetainedCount(r) /\ KeysOf(x) = KeysOf(r)
  BY <1>1 DEF RetainedCount, KeysOf
<1>3. /\ r.source \in Seq(Paths) /\ r.meta \in Seq(Entries)
      /\ r.broken = FALSE /\ Distinct(r.source) /\ MetaDistinct(r.meta)
      /\ Apart(Range(r.source), Range(r.meta))
      /\ Tallies(r, Range(r.source), Len(r.source), Range(r.meta)) /\ Bounded(r)
      /\ r.enforce \in BOOLEAN
      /\ r.bytes \in Int /\ r.sourceBytes \in Int /\ r.ordinaryBytes \in Int /\ r.ordinaryCount \in Int
      /\ r.counts \in [Sections -> Int]
      /\ r.lim.entries \in Nat /\ r.lim.capacity \in Nat /\ r.lim.bytes \in Nat
  BY GoodParts, GoodAgrees
<1>4. Tallies(x, Range(x.source), Len(x.source), Range(x.meta))
  BY <1>1, <1>3 DEF Tallies
<1>5. Bounded(x)
  BY <1>1, <1>2, <1>3 DEF Bounded
<1>6. Good(x)
  BY <1>1, <1>3, <1>4, <1>5, GoodMade
<1>7. Lessens(x, r)
  BY <1>1, <1>3, <1>6 DEF Lessens
<1> QED
  BY <1>2, <1>6, <1>7

LEMMA LessensItself == ASSUME NEW r, Good(r) PROVE Lessens(r, r)
<1>1. \A s \in Sections : r.counts[s] \in Int /\ r.counts[s] <= r.counts[s]
  <2>1. r.counts \in [Sections -> Int]
    BY GoodAgrees
  <2> QED
    BY <2>1
<1> QED
  BY <1>1 DEF Lessens

LEMMA LessensTwice ==
    ASSUME NEW a, NEW b, NEW c, Good(c), Lessens(b, c), Lessens(a, b)
    PROVE  Lessens(a, c)
<1>1. a.counts \in [Sections -> Int] /\ b.counts \in [Sections -> Int] /\ c.counts \in [Sections -> Int]
  BY GoodAgrees DEF Lessens
<1>2. \A s \in Sections : a.counts[s] <= c.counts[s]
  <2> TAKE s \in Sections
  <2>1. a.counts[s] \in Int /\ b.counts[s] \in Int /\ c.counts[s] \in Int
    BY <1>1
  <2>2. a.counts[s] <= b.counts[s] /\ b.counts[s] <= c.counts[s]
    BY DEF Lessens
  <2> QED
    BY <2>1, <2>2
<1> QED
  BY <1>2 DEF Lessens

\* What keeps less holds fewer keys.
LEMMA FewerKeys ==
    ASSUME NEW d, NEW r, Lessens(d, r)
    PROVE  KeysOf(d) \subseteq KeysOf(r)
  BY DEF KeysOf, Lessens

\* Reasons are added and nothing else changes.
LEMMA Reasoned ==
    ASSUME NEW r, Good(r), NEW R, IsFiniteSet(R), NEW x, x = [r EXCEPT !.reasons = @ \cup R]
    PROVE  /\ Good(x) /\ Lessens(x, r) /\ KeysOf(x) = KeysOf(r) /\ RetainedCount(x) = RetainedCount(r)
           /\ SameSources(x, r) /\ x.meta = r.meta /\ x.bytes = r.bytes /\ x.counts = r.counts
<1>1. Formed(r)
  BY GoodParts
<1>2. IsFiniteSet(r.reasons \cup R) /\ r.indexed \in BOOLEAN /\ (r.indexed => Indexes(r.index, r.source))
  BY GoodAgrees, FS_Union
<1>3. /\ Formed(x) /\ x.reasons = r.reasons \cup R
      /\ \A f \in RetFields \ {"reasons"} : x[f] = r[f]
  BY <1>1 DEF RetFields, Formed
<1>4. /\ x.indexed = r.indexed /\ x.index = r.index /\ x.source = r.source /\ x.meta = r.meta
      /\ x.bytes = r.bytes /\ x.counts = r.counts
  BY <1>3 DEF RetFields
<1>5. Good(x) /\ Lessens(x, r) /\ KeysOf(x) = KeysOf(r) /\ RetainedCount(x) = RetainedCount(r)
  <2>1. SameBut(x, r, {"index", "indexed", "reasons"})
    BY <1>3 DEF SameBut
  <2>2. x.indexed \in BOOLEAN /\ (x.indexed => Indexes(x.index, x.source)) /\ IsFiniteSet(x.reasons)
    BY <1>2, <1>3, <1>4
  <2> QED
    BY <1>3, <2>1, <2>2, GoodAgain
<1> QED
  BY <1>4, <1>5 DEF SameSources

LEMMA ReasonAdded ==
    ASSUME NEW r, Good(r), NEW reason
    PROVE  /\ Good(AddReason(r, reason)) /\ Lessens(AddReason(r, reason), r)
           /\ KeysOf(AddReason(r, reason)) = KeysOf(r)
           /\ RetainedCount(AddReason(r, reason)) = RetainedCount(r)
           /\ SameSources(AddReason(r, reason), r) /\ AddReason(r, reason).meta = r.meta
           /\ AddReason(r, reason).bytes = r.bytes /\ AddReason(r, reason).counts = r.counts
<1>1. PICK x : x = AddReason(r, reason)
  OBVIOUS
<1>2. IsFiniteSet({reason})
  BY FS_Singleton
<1>3. x = [r EXCEPT !.reasons = @ \cup {reason}]
  BY <1>1 DEF AddReason
<1> QED
  BY <1>1, <1>2, <1>3, Reasoned

LEMMA MarkedAgain ==
    ASSUME NEW r, Good(r), NEW p
    PROVE  /\ Good(Marked(r, p)) /\ Lessens(Marked(r, p), r) /\ KeysOf(Marked(r, p)) = KeysOf(r)
           /\ RetainedCount(Marked(r, p)) = RetainedCount(r)
           /\ SameSources(Marked(r, p), r) /\ Marked(r, p).meta = r.meta
           /\ Marked(r, p).bytes = r.bytes /\ Marked(r, p).counts = r.counts
<1>1. PICK x : x = Marked(r, p)
  OBVIOUS
<1>2. PICK R : R = (IF TooMany(r) THEN {"capacity"} ELSE {}) \cup (IF TooHeavy(r, p) THEN {"bytes"} ELSE {})
  OBVIOUS
<1>3. IsFiniteSet(R)
  <2>1. IsFiniteSet(IF TooMany(r) THEN {"capacity"} ELSE {}) /\ IsFiniteSet(IF TooHeavy(r, p) THEN {"bytes"} ELSE {})
    BY FS_Singleton, FS_EmptySet
  <2> QED
    BY <1>2, <2>1, FS_Union
<1>4. r.reasons \cup R = (r.reasons \cup (IF TooMany(r) THEN {"capacity"} ELSE {}))
                            \cup (IF TooHeavy(r, p) THEN {"bytes"} ELSE {})
  BY <1>2
<1>5. x = [r EXCEPT !.reasons = @ \cup R]
  BY <1>1, <1>4 DEF Marked
<1> QED
  BY <1>1, <1>3, <1>5, Reasoned

-------------------------------------------------------------------------------
(* A drop: the last source path takes the place of the dropped one, and the index *)
(* follows.                                                                    *)

LEMMA GreatestOfOne == ASSUME NEW n \in Int PROVE Max({n}) = n
<1>1. \E x \in {n} : \A y \in {n} : x >= y
  OBVIOUS
<1>2. Max({n}) \in {n}
  BY <1>1, Zenon DEF Max
<1> QED
  BY <1>2

\* Building the index changes nothing that is retained.
LEMMA EnsuredIndex ==
    ASSUME NEW r, Good(r), NEW x, x = EnsureIndex(r)
    PROVE  /\ Good(x) /\ Lessens(x, r) /\ KeysOf(x) = KeysOf(r) /\ RetainedCount(x) = RetainedCount(r)
           /\ x.indexed = TRUE /\ Indexes(x.index, x.source) /\ SameBut(x, r, {"index", "indexed"})
           /\ (r.indexed => x = r)
<1>1. /\ Formed(r) /\ r.source \in Seq(Paths) /\ DOMAIN r.source = 1..Len(r.source) /\ Len(r.source) \in Nat
      /\ \A i \in DOMAIN r.source : r.source[i] \in Paths /\ r.source[i] \in Range(r.source)
      /\ \A p \in Range(r.source) : \E i \in DOMAIN r.source : p = r.source[i]
  BY GoodParts
<1>2. Distinct(r.source) /\ (r.indexed => Indexes(r.index, r.source)) /\ r.indexed \in BOOLEAN /\ IsFiniteSet(r.reasons)
  BY GoodAgrees
<1>3. CASE r.indexed
  <2>1. x = r
    BY <1>3 DEF EnsureIndex
  <2> QED
    BY <1>2, <1>3, <2>1, LessensItself DEF SameBut
<1>4. CASE ~r.indexed
  <2>1. PICK f : f = [k \in {Key[p] : p \in Range(r.source)} |-> Max(SourcePositions(r.source, k))]
    OBVIOUS
  <2>2. x = [r EXCEPT !.indexed = TRUE, !.index = f]
    BY <1>4, <2>1 DEF EnsureIndex
  <2>3. Formed(x) /\ x.indexed = TRUE /\ x.index = f /\ SameBut(x, r, {"index", "indexed"})
    BY <1>1, <2>2 DEF Formed, SameBut, RetFields
  <2>4. SameBut(x, r, {"index", "indexed", "reasons"}) /\ x.source = r.source /\ x.reasons = r.reasons
    BY <2>3 DEF SameBut, RetFields
  <2>5. Indexes(f, r.source)
    <3>1. DOMAIN f = {Key[p] : p \in Range(r.source)}
      BY <2>1
    <3>2. ASSUME NEW i \in DOMAIN r.source PROVE f[Key[r.source[i]]] = i
      <4>1. SourcePositions(r.source, Key[r.source[i]]) = {i}
        BY <1>2 DEF SourcePositions, Distinct
      <4>2. i \in Int
        BY <1>1
      <4>3. Key[r.source[i]] \in DOMAIN f
        BY <1>1, <3>1
      <4> QED
        BY <2>1, <4>1, <4>2, <4>3, GreatestOfOne
    <3> QED
      BY <3>1, <3>2 DEF Indexes
  <2>6. x.indexed \in BOOLEAN /\ (x.indexed => Indexes(x.index, x.source)) /\ IsFiniteSet(x.reasons)
    BY <1>2, <2>3, <2>4, <2>5
  <2>7. Good(x) /\ Lessens(x, r) /\ KeysOf(x) = KeysOf(r) /\ RetainedCount(x) = RetainedCount(r)
    BY <2>3, <2>4, <2>6, GoodAgain
  <2> QED
    BY <1>4, <2>3, <2>6, <2>7
<1> QED
  BY <1>2, <1>3, <1>4

\* The one entry under a key, and the metadata without it.
LEMMA Popped ==
    ASSUME NEW r, Good(r), NEW key, MetaPositions(r, key) # {}
    PROVE  \E i \in DOMAIN r.meta :
             /\ i = CHOOSE j \in MetaPositions(r, key) : TRUE
             /\ Key[r.meta[i].path] = key /\ r.meta[i] \in Range(r.meta) /\ r.meta[i] \in Entries
             /\ Formed(PopMeta(r, key)) /\ SameBut(PopMeta(r, key), r, {"meta"})
             /\ PopMeta(r, key).meta \in Seq(Entries)
             /\ Len(PopMeta(r, key).meta) = Len(r.meta) - 1
             /\ Range(PopMeta(r, key).meta) = Range(r.meta) \ {r.meta[i]}
             /\ MetaDistinct(PopMeta(r, key).meta)
<1>1. /\ Formed(r) /\ r.meta \in Seq(Entries) /\ DOMAIN r.meta = 1..Len(r.meta) /\ Len(r.meta) \in Nat
      /\ \A i \in DOMAIN r.meta : r.meta[i] \in Entries /\ r.meta[i] \in Range(r.meta)
  BY GoodParts
<1>2. MetaDistinct(r.meta)
  BY GoodAgrees
<1>3. PICK i : i = CHOOSE j \in MetaPositions(r, key) : TRUE
  OBVIOUS
<1>4. i \in DOMAIN r.meta /\ Key[r.meta[i].path] = key
  BY <1>3 DEF MetaPositions
<1>5. PICK t : t = RemoveAt(r.meta, i)
  OBVIOUS
<1>6. PICK d : d = PopMeta(r, key)
  OBVIOUS
<1>7. d = [r EXCEPT !.meta = t]
  BY <1>3, <1>5, <1>6 DEF PopMeta
<1>8. Formed(d) /\ SameBut(d, r, {"meta"}) /\ d.meta = t
  BY <1>1, <1>7 DEF Formed, SameBut, RetFields
<1>9. \A j \in DOMAIN r.meta : r.meta[j] = r.meta[i] => j = i
  BY <1>2, <1>4 DEF MetaDistinct
<1>10. /\ t \in Seq(Entries) /\ Len(t) = Len(r.meta) - 1 /\ Range(t) = Range(r.meta) \ {r.meta[i]}
       /\ \A j \in 1..Len(r.meta) - 1 : t[j] = r.meta[IF j < i THEN j ELSE j + 1]
  BY <1>1, <1>4, <1>5, <1>9, Removed, ZenonT(30)
<1>11. MetaDistinct(t)
  <2>1. PICK n \in Nat : n = Len(r.meta)
    BY <1>1
  <2>2. DOMAIN t = 1..n - 1 /\ i \in 1..n /\ DOMAIN r.meta = 1..n
    BY <1>1, <1>4, <1>10, <2>1
  <2>3. PICK m : m = r.meta
    OBVIOUS
  <2>4. \A a, b \in 1..n : Key[m[a].path] = Key[m[b].path] => a = b
    BY <1>2, <2>2, <2>3 DEF MetaDistinct
  <2>5. \A j \in 1..n - 1 : t[j] = m[IF j < i THEN j ELSE j + 1] /\ (IF j < i THEN j ELSE j + 1) \in 1..n
    BY <1>10, <2>1, <2>2, <2>3
  <2>6. ASSUME NEW a \in 1..n - 1, NEW b \in 1..n - 1, Key[t[a].path] = Key[t[b].path] PROVE a = b
    <3>1. (IF a < i THEN a ELSE a + 1) = (IF b < i THEN b ELSE b + 1)
      BY <2>4, <2>5, <2>6
    <3> QED
      BY <2>2, <3>1
  <2> QED
    BY <2>2, <2>6 DEF MetaDistinct
<1>12. r.meta[i] \in Range(r.meta) /\ r.meta[i] \in Entries
  BY <1>1, <1>4
<1> QED
  BY <1>3, <1>4, <1>6, <1>8, <1>10, <1>11, <1>12

LEMMA DroppedMeta ==
    ASSUME NEW r, Good(r), NEW key, MetaPositions(r, key) # {}, NEW d, d = Drop(r, key)
    PROVE  /\ Lessens(d, r) /\ SameSources(d, r) /\ KeepsOthers(d, r, key)
           /\ RetainedCount(d) = RetainedCount(r) - 1 /\ key \notin KeysOf(d)
<1>1. PICK i \in DOMAIN r.meta :
        /\ i = CHOOSE j \in MetaPositions(r, key) : TRUE
        /\ Key[r.meta[i].path] = key /\ r.meta[i] \in Range(r.meta) /\ r.meta[i] \in Entries
        /\ Formed(PopMeta(r, key)) /\ SameBut(PopMeta(r, key), r, {"meta"})
        /\ PopMeta(r, key).meta \in Seq(Entries)
        /\ Len(PopMeta(r, key).meta) = Len(r.meta) - 1
        /\ Range(PopMeta(r, key).meta) = Range(r.meta) \ {r.meta[i]}
        /\ MetaDistinct(PopMeta(r, key).meta)
  BY Popped
<1>2. PICK m \in Entries : m = r.meta[i]
  BY <1>1
<1>3. PICK x : x = PopMeta(r, key)
  OBVIOUS
<1>4. PICK o \in Int : o = IF m.critical THEN 0 ELSE 1
  OBVIOUS
<1>5. d = [x EXCEPT !.bytes = @ - Bytes[m.path],
                    !.ordinaryBytes = @ - o * Bytes[m.path],
                    !.ordinaryCount = @ - o,
                    !.counts = CountDown(@, m.sections)]
  BY <1>1, <1>2, <1>3, <1>4 DEF Drop
<1>6. /\ Formed(x) /\ x.meta \in Seq(Entries) /\ Len(x.meta) = Len(r.meta) - 1
      /\ Range(x.meta) = Range(r.meta) \ {m} /\ MetaDistinct(x.meta)
      /\ x.lim = r.lim /\ x.reasons = r.reasons /\ x.enforce = r.enforce /\ x.source = r.source
      /\ x.indexed = r.indexed /\ x.index = r.index /\ x.counts = r.counts /\ x.bytes = r.bytes
      /\ x.sourceBytes = r.sourceBytes /\ x.ordinaryBytes = r.ordinaryBytes
      /\ x.ordinaryCount = r.ordinaryCount /\ x.broken = r.broken
  BY <1>1, <1>2, <1>3 DEF SameBut, RetFields
<1>7. /\ Formed(d) /\ d.meta = x.meta
      /\ d.lim = r.lim /\ d.reasons = r.reasons /\ d.enforce = r.enforce /\ d.source = r.source
      /\ d.indexed = r.indexed /\ d.index = r.index /\ d.counts = CountDown(r.counts, m.sections)
      /\ d.bytes = r.bytes - Bytes[m.path]
      /\ d.sourceBytes = r.sourceBytes /\ d.ordinaryBytes = r.ordinaryBytes - o * Bytes[m.path]
      /\ d.ordinaryCount = r.ordinaryCount - o /\ d.broken = r.broken
  <2>1. /\ d.bytes = x.bytes - Bytes[m.path] /\ d.ordinaryBytes = x.ordinaryBytes - o * Bytes[m.path]
        /\ d.ordinaryCount = x.ordinaryCount - o /\ d.counts = CountDown(x.counts, m.sections)
    BY <1>5, <1>6 DEF Formed, RetFields
  <2>2. Formed(d) /\ SameBut(d, x, {"bytes", "ordinaryBytes", "ordinaryCount", "counts"})
    BY <1>5, <1>6 DEF Formed, RetFields, SameBut
  <2>3. /\ d.meta = x.meta /\ d.lim = x.lim /\ d.reasons = x.reasons /\ d.enforce = x.enforce
        /\ d.source = x.source /\ d.indexed = x.indexed /\ d.index = x.index
        /\ d.sourceBytes = x.sourceBytes /\ d.broken = x.broken
    BY <2>2 DEF RetFields, SameBut
  <2> QED
    BY <1>6, <2>1, <2>2, <2>3
<1>8. /\ Range(r.meta) \in SUBSET Entries /\ IsFiniteSet(Range(r.meta)) /\ m \in Range(r.meta)
      /\ \A a, b \in Range(r.meta) : Key[a.path] = Key[b.path] => a = b
      /\ r.source \in Seq(Paths) /\ Len(r.source) \in Nat /\ Len(r.meta) \in Nat
  BY <1>1, <1>2, GoodParts
<1>9. PICK M : M = Range(r.meta)
  OBVIOUS
<1>10. /\ BytesOf(PathsOf(M)) \in Int /\ Bytes[m.path] \in Int
       /\ BytesOf(PathsOf(M \ {m})) = BytesOf(PathsOf(M)) - Bytes[m.path]
       /\ BytesOf(PathsOf(OrdinaryOf(M))) \in Int
       /\ BytesOf(PathsOf(OrdinaryOf(M \ {m}))) =
            BytesOf(PathsOf(OrdinaryOf(M))) - (IF m.critical THEN 0 ELSE Bytes[m.path])
       /\ Cardinality(OrdinaryOf(M)) \in Nat
       /\ Cardinality(OrdinaryOf(M \ {m})) = Cardinality(OrdinaryOf(M)) - (IF m.critical THEN 0 ELSE 1)
       /\ \A s \in Sections :
            /\ Cardinality(OfSection(M, s)) \in Nat
            /\ Cardinality(OfSection(M \ {m}, s)) =
                 Cardinality(OfSection(M, s)) - (IF s \in m.sections THEN 1 ELSE 0)
  <2>1. /\ M \in SUBSET Entries /\ IsFiniteSet(M) /\ m \in M
        /\ \A a, b \in M : Key[a.path] = Key[b.path] => a = b
    BY <1>8, <1>9
  <2> QED
    BY <2>1, EntryDropped
<1>11. /\ r.broken = FALSE /\ Distinct(r.source) /\ Apart(Range(r.source), M)
       /\ Tallies(r, Range(r.source), Len(r.source), M)
       /\ (r.indexed => Indexes(r.index, r.source)) /\ Bounded(r)
       /\ r.indexed \in BOOLEAN /\ r.enforce \in BOOLEAN /\ IsFiniteSet(r.reasons)
       /\ r.bytes \in Int /\ r.sourceBytes \in Int /\ r.ordinaryBytes \in Int /\ r.ordinaryCount \in Int
       /\ r.counts \in [Sections -> Int]
       /\ r.lim.entries \in Nat /\ r.lim.capacity \in Nat /\ r.lim.bytes \in Nat
  BY <1>9, GoodAgrees
<1>12. /\ d.counts \in [Sections -> Int]
       /\ \A s \in Sections : d.counts[s] = r.counts[s] - (IF s \in m.sections THEN 1 ELSE 0)
       /\ \A s \in Sections : d.counts[s] <= r.counts[s]
  BY <1>7, <1>11 DEF CountDown
<1>13. o * Bytes[m.path] = (IF m.critical THEN 0 ELSE Bytes[m.path]) /\ o * Bytes[m.path] \in Int
  <2>1. m.critical \in BOOLEAN
    BY DEF Entries
  <2>2. CASE m.critical
    BY <1>4, <1>10, <2>2
  <2>3. CASE ~m.critical
    BY <1>4, <1>10, <2>3
  <2> QED
    BY <2>1, <2>2, <2>3
<1>14. d.bytes \in Int /\ d.sourceBytes \in Int /\ d.ordinaryBytes \in Int /\ d.ordinaryCount \in Int
  <2>1. r.bytes - Bytes[m.path] \in Int /\ r.ordinaryCount - o \in Int
    BY <1>4, <1>10, <1>11, SMTT(30)
  <2>2. r.ordinaryBytes - o * Bytes[m.path] \in Int
    BY <1>11, <1>13
  <2> QED
    BY <1>7, <1>11, <2>1, <2>2
<1>15. Tallies(d, Range(d.source), Len(d.source), Range(d.meta))
  <2>1. Range(d.meta) = M \ {m} /\ d.source = r.source
    BY <1>6, <1>7, <1>9
  <2>2. d.sourceBytes = BytesOf(Range(r.source))
    BY <1>7, <1>11 DEF Tallies
  <2>3. d.bytes = d.sourceBytes + BytesOf(PathsOf(M \ {m}))
    BY <1>7, <1>10, <1>11 DEF Tallies
  <2>4. d.ordinaryCount = Cardinality(OrdinaryOf(M \ {m}))
    BY <1>4, <1>7, <1>10, <1>11 DEF Tallies
  <2>5. d.ordinaryBytes = BytesOf(PathsOf(OrdinaryOf(M \ {m})))
    BY <1>7, <1>10, <1>11, <1>13 DEF Tallies
  <2>6. ASSUME NEW s \in Sections
        PROVE  d.counts[s] = Cardinality(OfSection(M \ {m}, s)) + (IF s = "files" THEN Len(r.source) ELSE 0)
    <3>1. r.counts[s] = Cardinality(OfSection(M, s)) + (IF s = "files" THEN Len(r.source) ELSE 0)
      BY <1>11 DEF Tallies
    <3>2. PICK c \in Nat : c = Cardinality(OfSection(M, s))
      BY <1>10
    <3>3. PICK e \in Nat : e = IF s = "files" THEN Len(r.source) ELSE 0
      BY <1>8
    <3>4. Cardinality(OfSection(M \ {m}, s)) = c - (IF s \in m.sections THEN 1 ELSE 0)
      BY <1>10, <3>2
    <3>5. d.counts[s] = r.counts[s] - (IF s \in m.sections THEN 1 ELSE 0)
      BY <1>12
    <3>6. r.counts[s] = c + e
      BY <3>1, <3>2, <3>3
    <3>7. CASE s \in m.sections
      <4>1. d.counts[s] = c + e - 1 /\ Cardinality(OfSection(M \ {m}, s)) = c - 1
        BY <3>4, <3>5, <3>6, <3>7
      <4>2. d.counts[s] = Cardinality(OfSection(M \ {m}, s)) + e
        BY <4>1
      <4> QED
        BY <3>3, <4>2
    <3>8. CASE s \notin m.sections
      <4>1. d.counts[s] = c + e /\ Cardinality(OfSection(M \ {m}, s)) = c
        BY <3>4, <3>5, <3>6, <3>8
      <4>2. d.counts[s] = Cardinality(OfSection(M \ {m}, s)) + e
        BY <4>1
      <4> QED
        BY <3>3, <4>2
    <3> QED
      BY <3>7, <3>8
  <2> QED
    BY <2>1, <2>2, <2>3, <2>4, <2>5, <2>6 DEF Tallies
<1>16. RetainedCount(d) = RetainedCount(r) - 1 /\ RetainedCount(r) \in Int
  <2>1. PICK a \in Nat, b \in Nat : a = Len(r.source) /\ b = Len(r.meta)
    BY <1>8
  <2>2. RetainedCount(r) = a + b
    BY <2>1 DEF RetainedCount
  <2>3. RetainedCount(d) = a + (b - 1)
    BY <1>6, <1>7, <2>1 DEF RetainedCount
  <2> QED
    BY <2>2, <2>3
<1>17. Bounded(d)
  <2>1. Bytes[m.path] \in Nat
    BY PathsAssumption DEF Entries
  <2>2. d.bytes <= d.lim.bytes /\ RetainedCount(d) <= d.lim.capacity
    <3>1. r.bytes <= r.lim.bytes /\ RetainedCount(r) <= r.lim.capacity
      BY <1>11 DEF Bounded
    <3>2. d.bytes = r.bytes - Bytes[m.path] /\ d.lim = r.lim
      BY <1>7
    <3>3. d.bytes <= r.lim.bytes
      BY <1>11, <2>1, <3>1, <3>2
    <3>4. RetainedCount(d) <= r.lim.capacity
      BY <1>11, <1>16, <3>1
    <3> QED
      BY <3>2, <3>3, <3>4
  <2>3. ASSUME d.enforce, NEW s \in Sections PROVE d.counts[s] <= d.lim.entries
    <3>1. r.counts[s] <= r.lim.entries /\ r.counts[s] \in Int /\ d.counts[s] \in Int
      BY <1>7, <1>11, <1>12, <2>3 DEF Bounded
    <3> QED
      BY <1>7, <1>11, <1>12, <3>1
  <2> QED
    BY <2>2, <2>3 DEF Bounded
<1>18. Apart(Range(d.source), Range(d.meta))
  BY <1>6, <1>7, <1>9, <1>11 DEF Apart
<1>19. Good(d)
  <2>1. d.source \in Seq(Paths) /\ d.meta \in Seq(Entries) /\ d.broken = FALSE /\ d.enforce \in BOOLEAN
        /\ d.indexed \in BOOLEAN /\ Distinct(d.source) /\ MetaDistinct(d.meta)
        /\ (d.indexed => Indexes(d.index, d.source)) /\ IsFiniteSet(d.reasons)
        /\ d.lim.entries \in Nat /\ d.lim.capacity \in Nat /\ d.lim.bytes \in Nat
    BY <1>6, <1>7, <1>8, <1>11
  <2> QED
    BY <1>7, <1>12, <1>14, <1>15, <1>17, <1>18, <2>1, GoodMade
<1>20. Lessens(d, r)
  BY <1>6, <1>7, <1>12, <1>19 DEF Lessens
<1>21. KeepsOthers(d, r, key)
  BY <1>1, <1>2, <1>6, <1>7 DEF KeepsOthers
<1>22. key \notin KeysOf(d)
  <2>1. \A a \in Range(d.meta) : Key[a.path] # key
    BY <1>1, <1>2, <1>6, <1>7, <1>8
  <2>2. \A p \in Range(d.source) : Key[p] # key
    BY <1>1, <1>2, <1>7, <1>8, <1>9, <1>11 DEF Apart
  <2> QED
    BY <2>1, <2>2 DEF KeysOf
<1> QED
  BY <1>7, <1>16, <1>20, <1>21, <1>22 DEF SameSources

LEMMA DroppedSource ==
    ASSUME NEW r, Good(r), NEW key, MetaPositions(r, key) = {}, key \in KeysOf(r), NEW d, d = Drop(r, key)
    PROVE  /\ Lessens(d, r) /\ KeepsOthers(d, r, key) /\ RetainedCount(d) = RetainedCount(r) - 1
           /\ key \notin KeysOf(d)
<1>1. PICK x : x = EnsureIndex(r)
  OBVIOUS
<1>2. /\ Good(x) /\ Lessens(x, r) /\ KeysOf(x) = KeysOf(r) /\ RetainedCount(x) = RetainedCount(r)
      /\ x.indexed = TRUE /\ Indexes(x.index, x.source) /\ SameBut(x, r, {"index", "indexed"})
  BY <1>1, EnsuredIndex
<1>3. /\ x.source = r.source /\ x.meta = r.meta /\ x.counts = r.counts /\ x.lim = r.lim /\ x.enforce = r.enforce
  BY <1>2 DEF SameBut, RetFields
<1>4. /\ Formed(x) /\ x.source \in Seq(Paths) /\ DOMAIN x.source = 1..Len(x.source) /\ Len(x.source) \in Nat
      /\ x.meta \in Seq(Entries) /\ Len(x.meta) \in Nat
      /\ IsFiniteSet(Range(x.source)) /\ Range(x.source) \in SUBSET Paths
      /\ \A j \in DOMAIN x.source : x.source[j] \in Paths /\ x.source[j] \in Range(x.source)
      /\ \A p \in Range(x.source) : \E j \in DOMAIN x.source : p = x.source[j]
      /\ \A m \in Range(x.meta) : \E j \in DOMAIN x.meta : m = x.meta[j]
  BY <1>2, GoodParts
<1>5. /\ x.broken = FALSE /\ Distinct(x.source) /\ MetaDistinct(x.meta)
      /\ Apart(Range(x.source), Range(x.meta))
      /\ Tallies(x, Range(x.source), Len(x.source), Range(x.meta)) /\ Bounded(x)
      /\ x.enforce \in BOOLEAN /\ IsFiniteSet(x.reasons)
      /\ x.bytes \in Int /\ x.sourceBytes \in Int /\ x.ordinaryBytes \in Int /\ x.ordinaryCount \in Int
      /\ x.counts \in [Sections -> Int]
      /\ x.lim.entries \in Nat /\ x.lim.capacity \in Nat /\ x.lim.bytes \in Nat
  BY <1>2, GoodAgrees
<1>6. key \in {Key[p] : p \in Range(x.source)}
  <2>1. \A m \in Range(x.meta) : Key[m.path] # key
    BY <1>3, <1>4 DEF MetaPositions
  <2> QED
    BY <1>2, <2>1 DEF KeysOf
<1>7. PICK i \in DOMAIN x.source : Key[x.source[i]] = key
  BY <1>4, <1>6
<1>8. x.index[key] = i /\ key \in DOMAIN x.index
  BY <1>2, <1>6, <1>7 DEF Indexes
<1>9. PICK p \in Paths : p = x.source[i]
  BY <1>4
<1>10. PICK t : t = Detach(x, i)
  OBVIOUS
<1>11. /\ t.source \in Seq(Paths) /\ Len(t.source) = Len(x.source) - 1
       /\ Range(t.source) = Range(x.source) \ {p}
       /\ Distinct(t.source) /\ Indexes(t.index, t.source) /\ Formed(t) /\ SameBut(t, x, {"source", "index"})
  <2>1. Shape(x) /\ (x.indexed => Indexes(x.index, x.source))
    BY <1>2 DEF Good
  <2> QED
    <3>1. /\ t.source \in Seq(Paths) /\ Len(t.source) = Len(x.source) - 1
          /\ Range(t.source) = Range(x.source) \ {x.source[i]}
          /\ Distinct(t.source) /\ (x.indexed => Indexes(t.index, t.source))
          /\ Formed(t) /\ SameBut(t, x, {"source", "index"})
      BY <1>5, <1>7, <1>10, <2>1, DetachedSource
    <3> QED
      BY <1>2, <1>9, <3>1
<1>12. /\ t.lim = x.lim /\ t.reasons = x.reasons /\ t.enforce = x.enforce /\ t.meta = x.meta
       /\ t.indexed = x.indexed /\ t.counts = x.counts /\ t.bytes = x.bytes /\ t.sourceBytes = x.sourceBytes
       /\ t.ordinaryBytes = x.ordinaryBytes /\ t.ordinaryCount = x.ordinaryCount /\ t.broken = x.broken
  BY <1>11 DEF SameBut, RetFields
<1>13. d = [t EXCEPT !.bytes = @ - Bytes[p], !.sourceBytes = @ - Bytes[p], !.counts = CountDown(@, {"files"})]
  BY <1>1, <1>8, <1>9, <1>10 DEF Drop
<1>14. /\ Formed(d) /\ SameBut(d, t, {"bytes", "sourceBytes", "counts"})
       /\ d.bytes = t.bytes - Bytes[p] /\ d.sourceBytes = t.sourceBytes - Bytes[p]
       /\ d.counts = CountDown(t.counts, {"files"})
  BY <1>11, <1>13 DEF Formed, SameBut, RetFields
<1>15. /\ d.lim = x.lim /\ d.reasons = x.reasons /\ d.enforce = x.enforce /\ d.meta = x.meta
       /\ d.source = t.source /\ d.index = t.index /\ d.indexed = x.indexed
       /\ d.ordinaryBytes = x.ordinaryBytes /\ d.ordinaryCount = x.ordinaryCount /\ d.broken = x.broken
  BY <1>12, <1>14 DEF SameBut, RetFields
<1>16. /\ BytesOf(Range(x.source)) \in Int /\ BytesOf(Range(x.source) \ {p}) = BytesOf(Range(x.source)) - Bytes[p]
       /\ Bytes[p] \in Nat
  <2>1. p \in Range(x.source)
    BY <1>4, <1>9
  <2> QED
    BY <1>4, <2>1, BytesAdd, PathsAssumption
<1>17. /\ d.counts \in [Sections -> Int]
       /\ \A s \in Sections : d.counts[s] = x.counts[s] - (IF s = "files" THEN 1 ELSE 0)
       /\ \A s \in Sections : d.counts[s] <= x.counts[s]
  BY <1>5, <1>12, <1>14 DEF CountDown
<1>18. PICK n \in Nat : n = Len(x.source) /\ Len(d.source) = n - 1
  BY <1>4, <1>11, <1>15
<1>19. d.bytes \in Int /\ d.sourceBytes \in Int
  BY <1>5, <1>12, <1>14, <1>16
<1>20. Tallies(d, Range(d.source), Len(d.source), Range(d.meta))
  <2>1. PICK M : M = Range(x.meta)
    OBVIOUS
  <2>2. Range(d.meta) = M /\ Range(d.source) = Range(x.source) \ {p}
    BY <1>11, <1>15, <2>1
  <2>3. x.sourceBytes = BytesOf(Range(x.source)) /\ x.bytes = x.sourceBytes + BytesOf(PathsOf(M))
    BY <1>5, <2>1 DEF Tallies
  <2>4. d.sourceBytes = BytesOf(Range(d.source))
    BY <1>12, <1>14, <1>16, <2>2, <2>3
  <2>5. d.bytes = d.sourceBytes + BytesOf(PathsOf(M))
    <3>1. BytesOf(PathsOf(M)) \in Int
      <4>1. IsFiniteSet(Range(x.meta)) /\ Range(x.meta) \in SUBSET Entries
        BY <1>2, GoodParts
      <4>2. IsFiniteSet(PathsOf(M)) /\ PathsOf(M) \in SUBSET Paths
        <5>1. PICK f : f = [m \in M |-> m.path]
          OBVIOUS
        <5>2. f \in Surjection(M, PathsOf(M))
          BY <5>1 DEF Surjection, PathsOf
        <5>3. PathsOf(M) \in SUBSET Paths
          BY <2>1, <4>1 DEF PathsOf, Entries
        <5> QED
          BY <2>1, <4>1, <5>2, <5>3, FS_Surjection
      <4> QED
        BY <4>2, BytesAdd
    <3> QED
      BY <1>5, <1>12, <1>14, <1>16, <2>3, <3>1
  <2>6. d.ordinaryCount = Cardinality(OrdinaryOf(M)) /\ d.ordinaryBytes = BytesOf(PathsOf(OrdinaryOf(M)))
    BY <1>5, <1>15, <2>1 DEF Tallies
  <2>7. ASSUME NEW s \in Sections
        PROVE  d.counts[s] = Cardinality(OfSection(M, s)) + (IF s = "files" THEN n - 1 ELSE 0)
    <3>1. x.counts[s] = Cardinality(OfSection(M, s)) + (IF s = "files" THEN n ELSE 0)
      BY <1>5, <1>18, <2>1 DEF Tallies
    <3>2. PICK c \in Nat : c = Cardinality(OfSection(M, s))
      <4>1. IsFiniteSet(M) /\ OfSection(M, s) \in SUBSET M
        BY <1>2, <2>1, GoodParts DEF OfSection
      <4> QED
        BY <4>1, FS_Subset, FS_CardinalityType
    <3>3. d.counts[s] = x.counts[s] - (IF s = "files" THEN 1 ELSE 0)
      BY <1>17
    <3> QED
      BY <3>1, <3>2, <3>3
  <2> QED
    BY <1>18, <2>2, <2>4, <2>5, <2>6, <2>7 DEF Tallies
<1>21. RetainedCount(d) = RetainedCount(x) - 1 /\ RetainedCount(x) \in Int
  <2>1. PICK b \in Nat : b = Len(x.meta)
    BY <1>4
  <2>2. RetainedCount(x) = n + b
    BY <1>18, <2>1 DEF RetainedCount
  <2>3. RetainedCount(d) = n - 1 + b
    BY <1>15, <1>18, <2>1 DEF RetainedCount
  <2> QED
    BY <2>2, <2>3
<1>22. Bounded(d)
  <2>1. d.bytes <= d.lim.bytes /\ RetainedCount(d) <= d.lim.capacity
    <3>1. x.bytes <= x.lim.bytes /\ RetainedCount(x) <= x.lim.capacity
      BY <1>5 DEF Bounded
    <3>2. d.bytes = x.bytes - Bytes[p] /\ d.lim = x.lim
      BY <1>12, <1>14, <1>15
    <3> QED
      BY <1>5, <1>16, <1>21, <3>1, <3>2, SMTT(30)
  <2>2. ASSUME d.enforce, NEW s \in Sections PROVE d.counts[s] <= d.lim.entries
    <3>1. x.counts[s] <= x.lim.entries /\ x.counts[s] \in Int /\ d.counts[s] \in Int
      BY <1>5, <1>15, <1>17, <2>2 DEF Bounded
    <3> QED
      BY <1>5, <1>15, <1>17, <3>1
  <2> QED
    BY <2>1, <2>2 DEF Bounded
<1>23. Apart(Range(d.source), Range(d.meta))
  BY <1>5, <1>11, <1>15 DEF Apart
<1>24. Good(d)
  <2>1. d.source \in Seq(Paths) /\ d.meta \in Seq(Entries) /\ d.broken = FALSE /\ d.enforce \in BOOLEAN
        /\ d.indexed \in BOOLEAN /\ Distinct(d.source) /\ MetaDistinct(d.meta)
        /\ (d.indexed => Indexes(d.index, d.source)) /\ IsFiniteSet(d.reasons)
        /\ d.lim.entries \in Nat /\ d.lim.capacity \in Nat /\ d.lim.bytes \in Nat
        /\ d.ordinaryBytes \in Int /\ d.ordinaryCount \in Int
    BY <1>2, <1>4, <1>5, <1>11, <1>15
  <2> QED
    BY <1>14, <1>17, <1>19, <1>20, <1>22, <1>23, <2>1, GoodMade
<1>25. Lessens(d, x)
  BY <1>11, <1>15, <1>17, <1>24 DEF Lessens
<1>26. KeepsOthers(d, r, key)
  BY <1>3, <1>7, <1>9, <1>11, <1>15 DEF KeepsOthers
<1>27. key \notin KeysOf(d)
  <2>1. \A a \in Range(d.meta) : Key[a.path] # key
    BY <1>3, <1>4, <1>15 DEF MetaPositions
  <2>2. \A q \in Range(d.source) : Key[q] # key
    <3>1. \A q \in Range(x.source) : Key[q] = key => q = p
      BY <1>4, <1>5, <1>7, <1>9, SMTT(30) DEF Distinct
    <3> QED
      BY <1>11, <1>15, <3>1
  <2> QED
    BY <2>1, <2>2 DEF KeysOf
<1> QED
  BY <1>2, <1>21, <1>25, <1>26, <1>27, LessensTwice

\* A drop removes one entry and its key, and keeps all that is retained under other
\* keys.
LEMMA Dropped ==
    ASSUME NEW r, Good(r), NEW key \in KeysOf(r), NEW d, d = Drop(r, key)
    PROVE  /\ Lessens(d, r) /\ KeepsOthers(d, r, key) /\ RetainedCount(d) = RetainedCount(r) - 1
           /\ key \notin KeysOf(d)
           /\ MetaPositions(r, key) # {} => SameSources(d, r)
  BY DroppedMeta, DroppedSource

LEMMA GreatestOf ==
    ASSUME NEW n \in Nat, NEW S \in SUBSET (1..n), S # {}
    PROVE  Max(S) \in S
<1> DEFINE HasOne(A) == \E x \in A : \A y \in A : x >= y
           T == {m \in Nat : \A A \in SUBSET (1..m) : A # {} => HasOne(A)}
<1>1. 0 \in T
  <2>1. \A A \in SUBSET (1..0) : A = {}
    <3>1. 1..0 = {}
      OBVIOUS
    <3> QED
      BY <3>1
  <2> QED
    BY <2>1
<1>2. ASSUME NEW m \in T PROVE m + 1 \in T
  <2>1. m \in Nat /\ m + 1 \in Nat
    OBVIOUS
  <2>2. ASSUME NEW A \in SUBSET (1..m + 1), A # {} PROVE HasOne(A)
    <3>1. CASE m + 1 \in A
      <4>1. \A y \in A : m + 1 >= y
        BY <2>1
      <4> QED
        BY <3>1, <4>1
    <3>2. CASE m + 1 \notin A
      <4>1. A \in SUBSET (1..m)
        BY <2>1, <3>2
      <4> QED
        BY <2>2, <4>1
    <3> QED
      BY <3>1, <3>2
  <2> QED
    BY <2>1, <2>2
<1>3. T = Nat
  <2> HIDE DEF T
  <2>1. T \subseteq Nat
    BY DEF T
  <2> QED
    BY <1>1, <1>2, <2>1, Induction
<1>4. HasOne(S)
  BY <1>3
<1> QED
  BY <1>4, Zenon DEF Max

-----------------------------------------------------------------------------
(* Making room in sections. *)

\* A candidate for displacement is retained, and is not the protected one.
LEMMA NoncriticalAre ==
    ASSUME NEW r, Good(r), NEW sections, NEW protected, NEW key \in NoncriticalKeys(r, sections, protected)
    PROVE  key \in KeysOf(r) /\ key # protected /\ ("files" \notin sections => MetaPositions(r, key) # {})
<1>1. PICK meta : meta = {i \in DOMAIN r.meta : /\ ~r.meta[i].critical
                                               /\ Key[r.meta[i].path] # protected
                                               /\ r.meta[i].sections \cap sections # {}}
  OBVIOUS
<1>2. PICK source : source = {i \in DOMAIN r.source : Key[r.source[i]] # protected}
  OBVIOUS
<1>3. key \in IF meta # {} THEN {Key[r.meta[Max(meta)].path]}
              ELSE IF "files" \in sections /\ source # {} THEN {Key[r.source[Max(source)]]}
              ELSE {}
  BY <1>1, <1>2 DEF NoncriticalKeys
<1>4. /\ DOMAIN r.source = 1..Len(r.source) /\ Len(r.source) \in Nat
      /\ DOMAIN r.meta = 1..Len(r.meta) /\ Len(r.meta) \in Nat
      /\ \A i \in DOMAIN r.source : r.source[i] \in Range(r.source)
      /\ \A i \in DOMAIN r.meta : r.meta[i] \in Range(r.meta)
  BY GoodParts
<1>5. CASE meta # {}
  <2>1. meta \in SUBSET (1..Len(r.meta))
    BY <1>1, <1>4
  <2>2. Max(meta) \in meta
    BY <1>4, <1>5, <2>1, GreatestOf
  <2>3. PICK i \in DOMAIN r.meta : key = Key[r.meta[i].path] /\ Key[r.meta[i].path] # protected
    BY <1>1, <1>3, <1>5, <2>2
  <2> QED
    BY <1>4, <2>3 DEF KeysOf, MetaPositions
<1>6. CASE meta = {}
  <2>1. "files" \in sections /\ source # {} /\ key = Key[r.source[Max(source)]]
    BY <1>3, <1>6
  <2>2. source \in SUBSET (1..Len(r.source))
    BY <1>2, <1>4
  <2>3. Max(source) \in source
    BY <1>4, <2>1, <2>2, GreatestOf
  <2> QED
    BY <1>2, <1>4, <2>1, <2>3 DEF KeysOf
<1> QED
  BY <1>5, <1>6

\* What is kept under the key stays.
KeepsOne(d, r, key) ==
  /\ \A p \in Range(r.source) : Key[p] = key => p \in Range(d.source)
  /\ \A m \in Range(r.meta) : Key[m.path] = key => m \in Range(d.meta)

\* What the loop has done to r.
RoomState(acc, r, sections, protected) ==
  /\ Lessens(acc.r, r) /\ KeepsOne(acc.r, r, protected)
  /\ "files" \notin sections => SameSources(acc.r, r)
  /\ acc.ok => \A s \in sections : acc.r.counts[s] < r.lim.entries

\* A round of making room keeps RoomState.
LEMMA RoomStep ==
    ASSUME NEW r, Good(r), NEW sections \in SUBSET Sections, NEW critical, NEW protected,
           NEW acc, RoomState(acc, r, sections, protected),
           NEW next, next = RoomRound(acc, sections, critical, protected)
    PROVE  RoomState(next, r, sections, protected)
<1>1. PICK x : x = acc.r
  OBVIOUS
<1>2. Good(x) /\ Lessens(x, r) /\ x.lim = r.lim
  BY <1>1 DEF RoomState, Lessens
<1>3. PICK saturated : saturated = {s \in sections : x.counts[s] >= x.lim.entries}
  OBVIOUS
<1>4. PICK keys : keys = NoncriticalKeys(x, saturated, protected)
  OBVIOUS
<1>5. next = IF acc.ended THEN acc
             ELSE IF x.broken \/ saturated = {} THEN [r |-> x, ok |-> ~x.broken, ended |-> TRUE]
             ELSE IF ~critical \/ keys = {} THEN [r |-> x, ok |-> FALSE, ended |-> TRUE]
             ELSE [r |-> Drop(AddReason(x, "entries"), CHOOSE k \in keys : TRUE), ok |-> FALSE, ended |-> FALSE]
  BY <1>1, <1>3, <1>4 DEF RoomRound
<1>6. CASE acc.ended
  BY <1>5, <1>6
<1>7. CASE ~acc.ended /\ saturated = {}
  <2>1. next.r = x
    BY <1>5, <1>7
  <2>2. \A s \in sections : x.counts[s] < r.lim.entries
    <3> TAKE s \in sections
    <3>1. x.counts[s] \in Int /\ x.lim.entries \in Int
      <4>1. x.counts \in [Sections -> Int] /\ x.lim.entries \in Nat
        BY <1>2, GoodAgrees
      <4> QED
        BY <4>1
    <3>2. ~(x.counts[s] >= x.lim.entries)
      BY <1>3, <1>7
    <3> QED
      BY <1>2, <3>1, <3>2
  <2> QED
    BY <1>1, <2>1, <2>2 DEF RoomState
<1>8. CASE ~acc.ended /\ saturated # {} /\ (x.broken \/ ~critical \/ keys = {})
  <2>1. x.broken = FALSE
    BY <1>2, GoodAgrees
  <2>2. next.r = x /\ next.ok = FALSE
    BY <1>5, <1>8, <2>1
  <2> QED
    BY <1>1, <2>2 DEF RoomState
<1>9. CASE ~acc.ended /\ saturated # {} /\ ~x.broken /\ critical /\ keys # {}
  <2>1. PICK k : k = CHOOSE key \in keys : TRUE
    OBVIOUS
  <2>2. k \in keys
    BY <1>9, <2>1
  <2>3. PICK y : y = AddReason(x, "entries")
    OBVIOUS
  <2>4. PICK d : d = Drop(y, k)
    OBVIOUS
  <2>5. next.r = d /\ next.ok = FALSE
    BY <1>5, <1>9, <2>1, <2>3, <2>4
  <2>6. k \in KeysOf(x) /\ k # protected /\ ("files" \notin saturated => MetaPositions(x, k) # {})
    BY <1>2, <1>4, <2>2, NoncriticalAre
  <2>7. Good(y) /\ Lessens(y, x) /\ KeysOf(y) = KeysOf(x) /\ SameSources(y, x) /\ y.meta = x.meta
    BY <1>2, <2>3, ReasonAdded
  <2>8. Lessens(d, y) /\ KeepsOthers(d, y, k) /\ (MetaPositions(y, k) # {} => SameSources(d, y))
    BY <2>4, <2>6, <2>7, Dropped
  <2>9. Lessens(d, r)
    BY <1>2, <2>7, <2>8, LessensTwice
  <2>10. KeepsOne(d, r, protected)
    <3>1. KeepsOne(x, r, protected)
      BY <1>1 DEF RoomState
    <3>2. y.source = x.source /\ y.meta = x.meta
      BY <2>7 DEF SameSources
    <3> QED
      BY <2>6, <2>8, <3>1, <3>2 DEF KeepsOne, KeepsOthers
  <2>11. ASSUME "files" \notin sections PROVE SameSources(d, r)
    <3>1. "files" \notin saturated
      BY <1>3, <2>11
    <3>2. MetaPositions(y, k) # {}
      BY <2>6, <2>7, <3>1 DEF MetaPositions
    <3>3. SameSources(x, r)
      BY <1>1, <2>11 DEF RoomState
    <3> QED
      BY <2>7, <2>8, <3>2, <3>3 DEF SameSources
  <2> QED
    BY <2>5, <2>9, <2>10, <2>11 DEF RoomState
<1> QED
  BY <1>6, <1>7, <1>8, <1>9

RoomTrace(g, n, base, sections, critical, protected) ==
  g = [i \in 0..n |-> IF i = 0 THEN base ELSE RoomRound(g[i - 1], sections, critical, protected)]

\* The rounds exist.
LEMMA RoomRounds ==
    ASSUME NEW base, NEW sections, NEW critical, NEW protected, NEW n \in Nat
    PROVE  \E g : RoomTrace(g, n, base, sections, critical, protected)
<1> DEFINE Is(g, m) == g = [i \in 0..m |-> IF i = 0 THEN base ELSE RoomRound(g[i - 1], sections, critical, protected)]
           T == {m \in Nat : \E g : Is(g, m)}
<1>1. 0 \in T
  <2>1. PICK g : g = [i \in 0..0 |-> base]
    OBVIOUS
  <2>2. Is(g, 0)
    BY <2>1
  <2> QED
    BY <2>2
<1>2. ASSUME NEW m \in T PROVE m + 1 \in T
  <2>1. m \in Nat /\ m + 1 \in Nat
    OBVIOUS
  <2>2. PICK g : Is(g, m)
    OBVIOUS
  <2>3. PICK h : h = [i \in 0..m + 1 |-> IF i \in 0..m THEN g[i] ELSE RoomRound(g[m], sections, critical, protected)]
    OBVIOUS
  <2>4. ASSUME NEW i \in 0..m + 1
        PROVE  h[i] = IF i = 0 THEN base ELSE RoomRound(h[i - 1], sections, critical, protected)
    <3>1. CASE i = 0
      BY <2>1, <2>2, <2>3, <3>1
    <3>2. CASE i \in 1..m
      <4>1. i - 1 \in 0..m /\ i \in 0..m /\ i # 0
        BY <2>1, <3>2
      <4>2. h[i] = g[i] /\ h[i - 1] = g[i - 1] /\ g[i] = RoomRound(g[i - 1], sections, critical, protected)
        BY <2>1, <2>2, <2>3, <4>1
      <4> QED
        BY <4>1, <4>2
    <3>3. CASE i = m + 1
      <4>1. i - 1 = m /\ i \notin 0..m /\ m \in 0..m /\ i # 0
        BY <2>1, <3>3
      <4>2. h[i] = RoomRound(g[m], sections, critical, protected) /\ h[m] = g[m]
        BY <2>1, <2>3, <4>1
      <4> QED
        BY <4>1, <4>2
    <3> QED
      BY <2>1, <3>1, <3>2, <3>3
  <2>5. Is(h, m + 1)
    BY <2>3, <2>4
  <2> QED
    BY <2>1, <2>5
<1>3. T = Nat
  <2> HIDE DEF T
  <2>1. T \subseteq Nat
    BY DEF T
  <2> QED
    BY <1>1, <1>2, <2>1, Induction
<1> QED
  BY <1>3 DEF RoomTrace

LEMMA RoundsAre == ASSUME NEW r, Good(r) PROVE RoundsOf(r) \in Nat /\ RetainedCount(r) \in Nat
<1>1. PICK a \in Nat, b \in Nat : a = Len(r.source) /\ b = Len(r.meta)
  BY GoodParts
<1>2. RetainedCount(r) = a + b
  BY <1>1 DEF RetainedCount
<1> QED
  BY <1>2 DEF RoundsOf

\* So do all rounds.
LEMMA RoomLoop ==
    ASSUME NEW r, Good(r), NEW sections \in SUBSET Sections, NEW critical, NEW protected, NEW n \in Nat,
           NEW base, base = [r |-> r, ok |-> FALSE, ended |-> FALSE],
           NEW g, RoomTrace(g, n, base, sections, critical, protected)
    PROVE  RoomState(g[n], r, sections, protected)
<1> DEFINE T == {i \in Nat : i \in 0..n => RoomState(g[i], r, sections, protected)}
<1>1. 0 \in T
  <2>1. g[0] = base
    BY DEF RoomTrace
  <2>2. RoomState(base, r, sections, protected)
    BY LessensItself DEF RoomState, KeepsOne, SameSources
  <2> QED
    BY <2>1, <2>2
<1>2. ASSUME NEW i \in T PROVE i + 1 \in T
  <2>1. i \in Nat /\ i + 1 \in Nat
    OBVIOUS
  <2>2. ASSUME i + 1 \in 0..n PROVE RoomState(g[i + 1], r, sections, protected)
    <3>1. i \in 0..n /\ i + 1 # 0 /\ (i + 1) - 1 = i
      BY <2>1, <2>2
    <3>2. g[i + 1] = RoomRound(g[i], sections, critical, protected)
      BY <2>2, <3>1 DEF RoomTrace
    <3>3. RoomState(g[i], r, sections, protected)
      BY <3>1
    <3> QED
      BY <3>2, <3>3, RoomStep
  <2> QED
    BY <2>1, <2>2
<1>3. T = Nat
  <2> HIDE DEF T
  <2>1. T \subseteq Nat
    BY DEF T
  <2> QED
    BY <1>1, <1>2, <2>1, Induction
<1>4. n \in 0..n
  OBVIOUS
<1>5. n \in T
  <2> HIDE DEF T
  <2> QED
    BY <1>3
<1> QED
  BY <1>4, <1>5

\* What _make_room leaves: a retention in order, with the protected path and, when it
\* succeeds, room in every section.
LEMMA RoomMade ==
    ASSUME NEW r, Good(r), NEW sections \in SUBSET Sections, NEW critical, NEW protected,
           NEW room, room = MakeRoom(r, sections, critical, protected)
    PROVE  /\ Good(room.r) /\ Lessens(room.r, r) /\ KeepsOne(room.r, r, protected)
           /\ "files" \notin sections => SameSources(room.r, r)
           /\ r.enforce /\ room.ok => \A s \in sections : room.r.counts[s] < r.lim.entries
<1>1. r.enforce \in BOOLEAN
  BY GoodAgrees
<1>2. CASE ~r.enforce
  <2>1. room.r = r
    BY <1>2 DEF MakeRoom
  <2> QED
    BY <1>2, <2>1, LessensItself DEF KeepsOne, SameSources
<1>3. CASE r.enforce
  <2>1. PICK n \in Nat : n = RoundsOf(r)
    BY RoundsAre
  <2>2. PICK base : base = [r |-> r, ok |-> FALSE, ended |-> FALSE]
    OBVIOUS
  <2>3. PICK f : f = CHOOSE h : RoomTrace(h, n, base, sections, critical, protected)
    OBVIOUS
  <2>4. room = [ok |-> f[n].ok, r |-> f[n].r]
    BY <1>3, <2>1, <2>2, <2>3 DEF MakeRoom, RoomTrace
  <2>5. RoomTrace(f, n, base, sections, critical, protected)
    BY <2>3, RoomRounds, Zenon
  <2>6. RoomState(f[n], r, sections, protected)
    BY <2>2, <2>5, RoomLoop
  <2> QED
    BY <2>4, <2>6 DEF RoomState, Lessens
<1> QED
  BY <1>1, <1>2, <1>3

-------------------------------------------------------------------------------
(* Making capacity.                                                            *)

LEMMA CapacityAre ==
    ASSUME NEW r, Good(r), NEW critical, NEW isMeta, NEW ep, NEW bp,
           NEW key \in CapacityKeys(r, critical, isMeta, ep, bp)
    PROVE  key \in KeysOf(r)
<1>1. /\ DOMAIN r.source = 1..Len(r.source) /\ Len(r.source) \in Nat /\ r.source \in Seq(Paths)
      /\ DOMAIN r.meta = 1..Len(r.meta) /\ Len(r.meta) \in Nat
      /\ \A i \in DOMAIN r.source : r.source[i] \in Range(r.source)
      /\ \A i \in DOMAIN r.meta : r.meta[i] \in Range(r.meta)
  BY GoodParts
<1>2. PICK ordinary : ordinary = {i \in DOMAIN r.meta : ~r.meta[i].critical}
  OBVIOUS
<1>3. CASE critical
  <2>1. key \in NoncriticalKeys(r, Sections, "none")
    BY <1>3 DEF CapacityKeys
  <2> QED
    BY <2>1, NoncriticalAre
<1>4. CASE ~critical /\ isMeta
  <2>1. r.source # << >> /\ key = Key[Last(r.source)]
    BY <1>4 DEF CapacityKeys
  <2>2. Len(r.source) \in DOMAIN r.source
    BY <1>1, <2>1
  <2>3. Last(r.source) \in Range(r.source)
    BY <1>1, <2>2 DEF Last
  <2> QED
    BY <2>1, <2>3 DEF KeysOf
<1>5. CASE ~critical /\ ~isMeta
  <2>1. ordinary # {} /\ key = Key[r.meta[Max(ordinary)].path]
    BY <1>2, <1>5 DEF CapacityKeys
  <2>2. ordinary \in SUBSET (1..Len(r.meta))
    BY <1>1, <1>2
  <2>3. Max(ordinary) \in ordinary
    BY <1>1, <2>1, <2>2, GreatestOf
  <2>4. r.meta[Max(ordinary)] \in Range(r.meta)
    BY <1>1, <1>2, <2>3
  <2> QED
    BY <2>1, <2>4 DEF KeysOf
<1> QED
  BY <1>3, <1>4, <1>5

\* A round of making capacity keeps a part of what was there.
LEMMA CapacityStep ==
    ASSUME NEW r, Good(r), NEW p, NEW critical, NEW isMeta, NEW acc, Lessens(acc.r, r),
           NEW next, next = CapacityRound(acc, p, critical, isMeta)
    PROVE  Lessens(next.r, r)
<1>1. PICK x : x = acc.r
  OBVIOUS
<1>2. PICK y : y = Marked(x, p)
  OBVIOUS
<1>3. PICK keys : keys = CapacityKeys(y, critical, isMeta, TooMany(y), TooHeavy(y, p))
  OBVIOUS
<1>4. \/ next.r = x \/ next.r = y
      \/ keys # {} /\ next.r = Drop(y, CHOOSE k \in keys : TRUE)
  BY <1>1, <1>2, <1>3 DEF CapacityRound
<1>5. Good(x) /\ Lessens(x, r)
  BY <1>1 DEF Lessens
<1>6. Good(y) /\ Lessens(y, x)
  BY <1>2, <1>5, MarkedAgain
<1>7. Lessens(y, r)
  BY <1>5, <1>6, LessensTwice
<1>8. ASSUME keys # {}, next.r = Drop(y, CHOOSE k \in keys : TRUE)
      PROVE  Lessens(next.r, r)
  <2>1. PICK k \in keys : k = CHOOSE key \in keys : TRUE
    BY <1>8
  <2>2. k \in KeysOf(y)
    BY <1>3, <1>6, CapacityAre
  <2>3. Lessens(next.r, y)
    BY <1>6, <1>8, <2>1, <2>2, Dropped
  <2> QED
    BY <1>7, <2>3, LessensTwice
<1> QED
  BY <1>4, <1>5, <1>7, <1>8

CapacityTrace(g, n, base, p, critical, isMeta) ==
  g = [i \in 0..n |-> IF i = 0 THEN base ELSE CapacityRound(g[i - 1], p, critical, isMeta)]

\* The rounds exist.
LEMMA CapacityRounds ==
    ASSUME NEW base, NEW p, NEW critical, NEW isMeta, NEW n \in Nat
    PROVE  \E g : CapacityTrace(g, n, base, p, critical, isMeta)
<1> DEFINE Is(g, m) == g = [i \in 0..m |-> IF i = 0 THEN base ELSE CapacityRound(g[i - 1], p, critical, isMeta)]
           T == {m \in Nat : \E g : Is(g, m)}
<1>1. 0 \in T
  <2>1. PICK g : g = [i \in 0..0 |-> base]
    OBVIOUS
  <2>2. Is(g, 0)
    BY <2>1
  <2> QED
    BY <2>2
<1>2. ASSUME NEW m \in T PROVE m + 1 \in T
  <2>1. m \in Nat /\ m + 1 \in Nat
    OBVIOUS
  <2>2. PICK g : Is(g, m)
    OBVIOUS
  <2>3. PICK h : h = [i \in 0..m + 1 |-> IF i \in 0..m THEN g[i] ELSE CapacityRound(g[m], p, critical, isMeta)]
    OBVIOUS
  <2>4. ASSUME NEW i \in 0..m + 1
        PROVE  h[i] = IF i = 0 THEN base ELSE CapacityRound(h[i - 1], p, critical, isMeta)
    <3>1. CASE i = 0
      BY <2>1, <2>2, <2>3, <3>1
    <3>2. CASE i \in 1..m
      <4>1. i - 1 \in 0..m /\ i \in 0..m /\ i # 0
        BY <2>1, <3>2
      <4>2. h[i] = g[i] /\ h[i - 1] = g[i - 1] /\ g[i] = CapacityRound(g[i - 1], p, critical, isMeta)
        BY <2>1, <2>2, <2>3, <4>1
      <4> QED
        BY <4>1, <4>2
    <3>3. CASE i = m + 1
      <4>1. i - 1 = m /\ i \notin 0..m /\ m \in 0..m /\ i # 0
        BY <2>1, <3>3
      <4>2. h[i] = CapacityRound(g[m], p, critical, isMeta) /\ h[m] = g[m]
        BY <2>1, <2>3, <4>1
      <4> QED
        BY <4>1, <4>2
    <3> QED
      BY <2>1, <3>1, <3>2, <3>3
  <2>5. Is(h, m + 1)
    BY <2>3, <2>4
  <2> QED
    BY <2>1, <2>5
<1>3. T = Nat
  <2> HIDE DEF T
  <2>1. T \subseteq Nat
    BY DEF T
  <2> QED
    BY <1>1, <1>2, <2>1, Induction
<1> QED
  BY <1>3 DEF CapacityTrace

\* So do all rounds.
LEMMA CapacityLoop ==
    ASSUME NEW r, Good(r), NEW p, NEW critical, NEW isMeta, NEW n \in Nat,
           NEW base, base = [r |-> r, ended |-> FALSE],
           NEW g, CapacityTrace(g, n, base, p, critical, isMeta)
    PROVE  Lessens(g[n].r, r)
<1> DEFINE T == {i \in Nat : i \in 0..n => Lessens(g[i].r, r)}
<1>1. 0 \in T
  <2>1. g[0] = base
    BY DEF CapacityTrace
  <2> QED
    BY <2>1, LessensItself
<1>2. ASSUME NEW i \in T PROVE i + 1 \in T
  <2>1. i \in Nat /\ i + 1 \in Nat
    OBVIOUS
  <2>2. ASSUME i + 1 \in 0..n PROVE Lessens(g[i + 1].r, r)
    <3>1. i \in 0..n /\ i + 1 # 0 /\ (i + 1) - 1 = i
      BY <2>1, <2>2
    <3>2. g[i + 1] = CapacityRound(g[i], p, critical, isMeta)
      BY <2>2, <3>1 DEF CapacityTrace
    <3>3. Lessens(g[i].r, r)
      BY <3>1
    <3> QED
      BY <3>2, <3>3, CapacityStep
  <2> QED
    BY <2>1, <2>2
<1>3. T = Nat
  <2> HIDE DEF T
  <2>1. T \subseteq Nat
    BY DEF T
  <2> QED
    BY <1>1, <1>2, <2>1, Induction
<1>4. n \in 0..n
  OBVIOUS
<1>5. n \in T
  <2> HIDE DEF T
  <2> QED
    BY <1>3
<1> QED
  BY <1>4, <1>5

\* What _make_capacity leaves: a retention in order with room for one more, when it
\* succeeds.
LEMMA CapacityMade ==
    ASSUME NEW r, Good(r), NEW p \in Paths, NEW critical, NEW isMeta,
           NEW space, space = MakeCapacity(r, p, critical, isMeta)
    PROVE  /\ Good(space.r) /\ Lessens(space.r, r)
           /\ space.ok => RetainedCount(space.r) < r.lim.capacity /\ space.r.bytes + Bytes[p] <= r.lim.bytes
<1>1. PICK n \in Nat : n = RoundsOf(r)
  BY RoundsAre
<1>2. PICK base : base = [r |-> r, ended |-> FALSE]
  OBVIOUS
<1>3. PICK f : f = CHOOSE h : CapacityTrace(h, n, base, p, critical, isMeta)
  OBVIOUS
<1>4. PICK end : end = f[n].r
  OBVIOUS
<1>5. space = [ok |-> ~end.broken /\ ~TooMany(end) /\ ~TooHeavy(end, p), r |-> Marked(end, p)]
  BY <1>1, <1>2, <1>3, <1>4 DEF MakeCapacity, CapacityTrace
<1>6. CapacityTrace(f, n, base, p, critical, isMeta)
  BY <1>3, CapacityRounds, Zenon
<1>7. Lessens(end, r)
  BY <1>2, <1>4, <1>6, CapacityLoop
<1>8. Good(end) /\ end.lim = r.lim
  BY <1>7 DEF Lessens
<1>9. PICK y : y = Marked(end, p)
  OBVIOUS
<1>10. Good(y) /\ Lessens(y, end) /\ RetainedCount(y) = RetainedCount(end) /\ y.bytes = end.bytes
  BY <1>8, <1>9, MarkedAgain
<1>11. Lessens(y, r)
  BY <1>7, <1>10, LessensTwice
<1>12. ASSUME ~TooMany(end), ~TooHeavy(end, p)
       PROVE  RetainedCount(y) < r.lim.capacity /\ y.bytes + Bytes[p] <= r.lim.bytes
  <2>1. RetainedCount(end) \in Int /\ end.bytes \in Int /\ Bytes[p] \in Int
        /\ r.lim.capacity \in Int /\ r.lim.bytes \in Int
    <3>1. end.bytes \in Int /\ r.lim.capacity \in Int /\ r.lim.bytes \in Int
      <4>1. end.bytes \in Int /\ end.lim.capacity \in Nat /\ end.lim.bytes \in Nat
        BY <1>8, GoodAgrees
      <4> QED
        BY <1>8, <4>1
    <3>2. RetainedCount(end) \in Int
      BY <1>8, RoundsAre
    <3>3. Bytes[p] \in Int
      BY PathsAssumption
    <3> QED
      BY <3>1, <3>2, <3>3
  <2> QED
    BY <1>8, <1>10, <1>12, <2>1 DEF TooMany, TooHeavy
<1>13. space.r = y /\ (space.ok => ~TooMany(end) /\ ~TooHeavy(end, p))
  <2>1. PICK fits : fits = (~end.broken /\ ~TooMany(end) /\ ~TooHeavy(end, p))
    OBVIOUS
  <2>2. fits => ~TooMany(end) /\ ~TooHeavy(end, p)
    BY <2>1, Zenon
  <2>3. space = [ok |-> fits, r |-> y]
    BY <1>5, <1>9, <2>1, Zenon
  <2>4. space.ok = fits /\ space.r = y
    BY <2>3
  <2> QED
    BY <2>2, <2>4, Zenon
<1> QED
  BY <1>10, <1>11, <1>12, <1>13

-----------------------------------------------------------------------------
(* A path that is new is placed. *)

PlacedAsMeta(x, p, sections, critical) ==
  LET ordinary == IF critical THEN 0 ELSE 1
  IN [x EXCEPT !.meta = Append(@, [path |-> p, sections |-> sections, critical |-> critical]),
               !.bytes = @ + Bytes[p],
               !.ordinaryBytes = @ + ordinary * Bytes[p],
               !.ordinaryCount = @ + ordinary,
               !.counts = CountUp(@, sections)]

PlacedAsSource(x, p) ==
  [x EXCEPT !.source = Append(@, p),
            !.index = IF ~x.indexed THEN @
                      ELSE [k \in DOMAIN @ \cup {Key[p]} |-> IF k = Key[p] THEN Len(x.source) + 1 ELSE @[k]],
            !.bytes = @ + Bytes[p],
            !.sourceBytes = @ + Bytes[p],
            !.counts = CountUp(@, {"files"})]

\* There is a place for p in these sections.
HasPlace(x, p, sections) ==
  /\ RetainedCount(x) < x.lim.capacity /\ x.bytes + Bytes[p] <= x.lim.bytes
  /\ x.enforce => \A s \in sections : x.counts[s] < x.lim.entries

\* The retention d is in order and has no other key than those of r and this one.
Grows(d, r, key) ==
  /\ Good(d) /\ d.lim = r.lim /\ d.enforce = r.enforce
  /\ KeysOf(d) \subseteq KeysOf(r) \cup {key}

\* The counters of the entries when one more is added.
LEMMA EntryAdded ==
    ASSUME NEW M \in SUBSET Entries, IsFiniteSet(M), NEW m \in Entries,
           \A a, b \in M : Key[a.path] = Key[b.path] => a = b,
           \A a \in M : Key[a.path] # Key[m.path]
    PROVE  /\ BytesOf(PathsOf(M)) \in Int /\ Bytes[m.path] \in Int
           /\ BytesOf(PathsOf(M \cup {m})) = BytesOf(PathsOf(M)) + Bytes[m.path]
           /\ BytesOf(PathsOf(OrdinaryOf(M))) \in Int
           /\ BytesOf(PathsOf(OrdinaryOf(M \cup {m}))) =
                BytesOf(PathsOf(OrdinaryOf(M))) + (IF m.critical THEN 0 ELSE Bytes[m.path])
           /\ Cardinality(OrdinaryOf(M)) \in Int
           /\ Cardinality(OrdinaryOf(M \cup {m})) = Cardinality(OrdinaryOf(M)) + (IF m.critical THEN 0 ELSE 1)
           /\ \A s \in Sections :
                /\ Cardinality(OfSection(M, s)) \in Int
                /\ Cardinality(OfSection(M \cup {m}, s)) =
                     Cardinality(OfSection(M, s)) + (IF s \in m.sections THEN 1 ELSE 0)
<1>1. PICK N : N = M \cup {m}
  OBVIOUS
<1>2. N \in SUBSET Entries /\ m \in N /\ N \ {m} = M
  BY <1>1
<1>3. IsFiniteSet(N)
  BY <1>1, FS_AddElement
<1>4. \A a, b \in N : Key[a.path] = Key[b.path] => a = b
  BY <1>1
<1>5. /\ BytesOf(PathsOf(N)) \in Int /\ Bytes[m.path] \in Int
      /\ BytesOf(PathsOf(M)) = BytesOf(PathsOf(N)) - Bytes[m.path]
      /\ BytesOf(PathsOf(OrdinaryOf(N))) \in Int
      /\ BytesOf(PathsOf(OrdinaryOf(M))) =
           BytesOf(PathsOf(OrdinaryOf(N))) - (IF m.critical THEN 0 ELSE Bytes[m.path])
      /\ Cardinality(OrdinaryOf(N)) \in Nat
      /\ Cardinality(OrdinaryOf(M)) = Cardinality(OrdinaryOf(N)) - (IF m.critical THEN 0 ELSE 1)
      /\ \A s \in Sections :
           /\ Cardinality(OfSection(N, s)) \in Nat
           /\ Cardinality(OfSection(M, s)) =
                Cardinality(OfSection(N, s)) - (IF s \in m.sections THEN 1 ELSE 0)
  <2>1. /\ BytesOf(PathsOf(N)) \in Int /\ Bytes[m.path] \in Int
        /\ BytesOf(PathsOf(N \ {m})) = BytesOf(PathsOf(N)) - Bytes[m.path]
        /\ BytesOf(PathsOf(OrdinaryOf(N))) \in Int
        /\ BytesOf(PathsOf(OrdinaryOf(N \ {m}))) =
             BytesOf(PathsOf(OrdinaryOf(N))) - (IF m.critical THEN 0 ELSE Bytes[m.path])
        /\ Cardinality(OrdinaryOf(N)) \in Nat
        /\ Cardinality(OrdinaryOf(N \ {m})) = Cardinality(OrdinaryOf(N)) - (IF m.critical THEN 0 ELSE 1)
        /\ \A s \in Sections :
             /\ Cardinality(OfSection(N, s)) \in Nat
             /\ Cardinality(OfSection(N \ {m}, s)) =
                  Cardinality(OfSection(N, s)) - (IF s \in m.sections THEN 1 ELSE 0)
    BY <1>2, <1>3, <1>4, EntryDropped
  <2> QED
    BY <1>2, <2>1
<1>6. m.critical \in BOOLEAN
  BY DEF Entries
<1>7. /\ BytesOf(PathsOf(OrdinaryOf(M))) \in Int /\ Cardinality(OrdinaryOf(M)) \in Int
      /\ BytesOf(PathsOf(OrdinaryOf(N))) =
           BytesOf(PathsOf(OrdinaryOf(M))) + (IF m.critical THEN 0 ELSE Bytes[m.path])
      /\ Cardinality(OrdinaryOf(N)) = Cardinality(OrdinaryOf(M)) + (IF m.critical THEN 0 ELSE 1)
  BY <1>5, <1>6
<1>8. ASSUME NEW s \in Sections
      PROVE  /\ Cardinality(OfSection(M, s)) \in Int
             /\ Cardinality(OfSection(N, s)) = Cardinality(OfSection(M, s)) + (IF s \in m.sections THEN 1 ELSE 0)
  <2>1. CASE s \in m.sections
    BY <1>5, <2>1
  <2>2. CASE s \notin m.sections
    BY <1>5, <2>2
  <2> QED
    BY <2>1, <2>2
<1>9. BytesOf(PathsOf(M)) \in Int /\ BytesOf(PathsOf(N)) = BytesOf(PathsOf(M)) + Bytes[m.path]
  BY <1>5
<1> QED
  BY <1>1, <1>5, <1>7, <1>8, <1>9

\* A path placed as metadata.
LEMMA MetaPlaced ==
    ASSUME NEW x, Good(x), NEW p \in Paths, NEW sections \in SUBSET Sections, NEW critical \in BOOLEAN,
           Key[p] \notin KeysOf(x), HasPlace(x, p, sections),
           NEW d, d = PlacedAsMeta(x, p, sections, critical)
    PROVE  Grows(d, x, Key[p])
<1>1. PICK m \in Entries : m = [path |-> p, sections |-> sections, critical |-> critical]
  BY DEF Entries
<1>2. m.path = p /\ m.sections = sections /\ m.critical = critical
  BY <1>1
<1>3. PICK o \in Int : o = IF m.critical THEN 0 ELSE 1
  OBVIOUS
<1>4. d = [x EXCEPT !.meta = Append(@, m), !.bytes = @ + Bytes[p],
                    !.ordinaryBytes = @ + o * Bytes[p], !.ordinaryCount = @ + o,
                    !.counts = CountUp(@, m.sections)]
  BY <1>1, <1>2, <1>3 DEF PlacedAsMeta
<1>5. /\ Formed(x) /\ x.source \in Seq(Paths) /\ x.meta \in Seq(Entries)
      /\ DOMAIN x.meta = 1..Len(x.meta) /\ Len(x.meta) \in Nat /\ Len(x.source) \in Nat
      /\ IsFiniteSet(Range(x.meta)) /\ Range(x.meta) \in SUBSET Entries
      /\ \A i \in DOMAIN x.meta : x.meta[i] \in Entries /\ x.meta[i] \in Range(x.meta)
      /\ \A a, b \in Range(x.meta) : Key[a.path] = Key[b.path] => a = b
  BY GoodParts
<1>6. /\ x.broken = FALSE /\ Distinct(x.source) /\ MetaDistinct(x.meta)
      /\ Apart(Range(x.source), Range(x.meta))
      /\ Tallies(x, Range(x.source), Len(x.source), Range(x.meta))
      /\ (x.indexed => Indexes(x.index, x.source)) /\ Bounded(x)
      /\ x.indexed \in BOOLEAN /\ x.enforce \in BOOLEAN /\ IsFiniteSet(x.reasons)
      /\ x.bytes \in Int /\ x.sourceBytes \in Int /\ x.ordinaryBytes \in Int /\ x.ordinaryCount \in Int
      /\ x.counts \in [Sections -> Int]
      /\ x.lim.entries \in Nat /\ x.lim.capacity \in Nat /\ x.lim.bytes \in Nat
  BY GoodAgrees
<1>7. /\ Formed(d) /\ SameBut(d, x, {"meta", "bytes", "ordinaryBytes", "ordinaryCount", "counts"})
      /\ d.meta = Append(x.meta, m) /\ d.bytes = x.bytes + Bytes[p]
      /\ d.ordinaryBytes = x.ordinaryBytes + o * Bytes[p] /\ d.ordinaryCount = x.ordinaryCount + o
      /\ d.counts = CountUp(x.counts, m.sections)
  BY <1>4, <1>5 DEF Formed, SameBut, RetFields
<1>8. /\ d.lim = x.lim /\ d.reasons = x.reasons /\ d.enforce = x.enforce /\ d.source = x.source
      /\ d.indexed = x.indexed /\ d.index = x.index /\ d.sourceBytes = x.sourceBytes /\ d.broken = x.broken
  BY <1>7 DEF SameBut, RetFields
<1>9. PICK n \in Nat : n = Len(x.meta)
  BY <1>5
<1>10. /\ d.meta \in Seq(Entries) /\ Len(d.meta) = n + 1 /\ DOMAIN d.meta = 1..n + 1
       /\ \A i \in 1..n : d.meta[i] = x.meta[i]
       /\ d.meta[n + 1] = m /\ Range(d.meta) = Range(x.meta) \cup {m}
  BY <1>5, <1>7, <1>9, Appended
<1>11. \A a \in Range(x.meta) : Key[a.path] # Key[m.path]
  BY <1>2 DEF KeysOf
<1>12. MetaDistinct(d.meta)
  <2>1. \A i, j \in 1..n : Key[x.meta[i].path] = Key[x.meta[j].path] => i = j
    BY <1>5, <1>6, <1>9 DEF MetaDistinct
  <2>2. \A i \in 1..n : Key[x.meta[i].path] # Key[m.path]
    BY <1>5, <1>9, <1>11
  <2>3. \A i \in 1..n + 1 : i \in 1..n \/ i = n + 1
    OBVIOUS
  <2> QED
    BY <1>10, <2>1, <2>2, <2>3 DEF MetaDistinct
<1>13. PICK M : M = Range(x.meta)
  OBVIOUS
<1>14. /\ BytesOf(PathsOf(M)) \in Int /\ Bytes[p] \in Int
       /\ BytesOf(PathsOf(M \cup {m})) = BytesOf(PathsOf(M)) + Bytes[p]
       /\ BytesOf(PathsOf(OrdinaryOf(M))) \in Int
       /\ BytesOf(PathsOf(OrdinaryOf(M \cup {m}))) =
            BytesOf(PathsOf(OrdinaryOf(M))) + (IF m.critical THEN 0 ELSE Bytes[p])
       /\ Cardinality(OrdinaryOf(M)) \in Int
       /\ Cardinality(OrdinaryOf(M \cup {m})) = Cardinality(OrdinaryOf(M)) + (IF m.critical THEN 0 ELSE 1)
       /\ \A s \in Sections :
            /\ Cardinality(OfSection(M, s)) \in Int
            /\ Cardinality(OfSection(M \cup {m}, s)) =
                 Cardinality(OfSection(M, s)) + (IF s \in m.sections THEN 1 ELSE 0)
  <2>1. /\ M \in SUBSET Entries /\ IsFiniteSet(M) /\ \A a, b \in M : Key[a.path] = Key[b.path] => a = b
        /\ \A a \in M : Key[a.path] # Key[m.path]
    BY <1>5, <1>11, <1>13
  <2> QED
    BY <1>2, <2>1, EntryAdded
<1>15. o * Bytes[p] = (IF m.critical THEN 0 ELSE Bytes[p]) /\ o * Bytes[p] \in Int
  <2>1. CASE m.critical
    BY <1>3, <1>14, <2>1
  <2>2. CASE ~m.critical
    BY <1>3, <1>14, <2>2
  <2> QED
    BY <2>1, <2>2
<1>16. /\ d.counts \in [Sections -> Int]
       /\ \A s \in Sections : d.counts[s] = x.counts[s] + (IF s \in m.sections THEN 1 ELSE 0)
  BY <1>6, <1>7 DEF CountUp
<1>17. d.bytes \in Int /\ d.sourceBytes \in Int /\ d.ordinaryBytes \in Int /\ d.ordinaryCount \in Int
  <2>1. x.bytes + Bytes[p] \in Int /\ x.ordinaryCount + o \in Int
    BY <1>3, <1>6, <1>14
  <2>2. x.ordinaryBytes + o * Bytes[p] \in Int
    BY <1>6, <1>15
  <2> QED
    BY <1>6, <1>7, <1>8, <2>1, <2>2
<1>18. Tallies(d, Range(d.source), Len(d.source), Range(d.meta))
  <2>1. Range(d.meta) = M \cup {m} /\ d.source = x.source
    BY <1>8, <1>10, <1>13
  <2>2. d.sourceBytes = BytesOf(Range(x.source))
    BY <1>6, <1>8 DEF Tallies
  <2>3. d.bytes = d.sourceBytes + BytesOf(PathsOf(M \cup {m}))
    BY <1>6, <1>7, <1>8, <1>13, <1>14 DEF Tallies
  <2>4. d.ordinaryCount = Cardinality(OrdinaryOf(M \cup {m}))
    BY <1>3, <1>6, <1>7, <1>13, <1>14 DEF Tallies
  <2>5. d.ordinaryBytes = BytesOf(PathsOf(OrdinaryOf(M \cup {m})))
    BY <1>6, <1>7, <1>13, <1>14, <1>15 DEF Tallies
  <2>6. ASSUME NEW s \in Sections
        PROVE  d.counts[s] = Cardinality(OfSection(M \cup {m}, s)) + (IF s = "files" THEN Len(x.source) ELSE 0)
    <3>1. PICK e \in Nat : e = IF s = "files" THEN Len(x.source) ELSE 0
      BY <1>5
    <3>2. PICK c \in Int : c = Cardinality(OfSection(M, s))
      BY <1>14
    <3>3. x.counts[s] = c + e
      BY <1>6, <1>13, <3>1, <3>2 DEF Tallies
    <3>4. CASE s \in m.sections
      <4>1. d.counts[s] = c + e + 1 /\ Cardinality(OfSection(M \cup {m}, s)) = c + 1
        BY <1>14, <1>16, <3>2, <3>3, <3>4
      <4>2. d.counts[s] = Cardinality(OfSection(M \cup {m}, s)) + e
        BY <4>1
      <4> QED
        BY <3>1, <4>2
    <3>5. CASE s \notin m.sections
      <4>1. d.counts[s] = c + e /\ Cardinality(OfSection(M \cup {m}, s)) = c
        <5>1. d.counts[s] = x.counts[s] + 0 /\ x.counts[s] \in Int
          BY <1>6, <1>16, <3>5
        <5>2. Cardinality(OfSection(M \cup {m}, s)) = c + 0
          BY <1>14, <3>2, <3>5
        <5> QED
          BY <3>3, <5>1, <5>2
      <4>2. d.counts[s] = Cardinality(OfSection(M \cup {m}, s)) + e
        BY <4>1
      <4> QED
        BY <3>1, <4>2
    <3> QED
      BY <3>4, <3>5
  <2> QED
    BY <2>1, <2>2, <2>3, <2>4, <2>5, <2>6 DEF Tallies
<1>19. Bounded(d)
  <2>1. PICK a \in Nat : a = Len(x.source)
    BY <1>5
  <2>2. RetainedCount(x) = a + n /\ RetainedCount(d) = a + (n + 1)
    BY <1>8, <1>9, <1>10, <2>1 DEF RetainedCount
  <2>3. d.bytes <= d.lim.bytes /\ RetainedCount(d) <= d.lim.capacity
    BY <1>6, <1>7, <1>8, <2>2 DEF HasPlace
  <2>4. ASSUME d.enforce, NEW s \in Sections PROVE d.counts[s] <= d.lim.entries
    <3>1. x.counts[s] <= x.lim.entries /\ (s \in m.sections => x.counts[s] < x.lim.entries)
      BY <1>2, <1>6, <1>8, <2>4 DEF Bounded, HasPlace
    <3>2. x.counts[s] \in Int
      BY <1>6
    <3> QED
      BY <1>6, <1>8, <1>16, <3>1, <3>2
  <2> QED
    BY <2>3, <2>4 DEF Bounded
<1>20. Apart(Range(d.source), Range(d.meta))
  <2>1. \A q \in Range(x.source) : Key[q] # Key[m.path]
    BY <1>2 DEF KeysOf
  <2> QED
    BY <1>6, <1>8, <1>10, <2>1 DEF Apart
<1>21. Good(d)
  <2>1. d.source \in Seq(Paths) /\ d.meta \in Seq(Entries) /\ d.broken = FALSE /\ d.enforce \in BOOLEAN
        /\ d.indexed \in BOOLEAN /\ Distinct(d.source) /\ MetaDistinct(d.meta)
        /\ (d.indexed => Indexes(d.index, d.source)) /\ IsFiniteSet(d.reasons)
        /\ d.lim.entries \in Nat /\ d.lim.capacity \in Nat /\ d.lim.bytes \in Nat
    BY <1>5, <1>6, <1>8, <1>10, <1>12
  <2> QED
    BY <1>7, <1>16, <1>17, <1>18, <1>19, <1>20, <2>1, GoodMade
<1>22. KeysOf(d) \subseteq KeysOf(x) \cup {Key[p]}
  BY <1>2, <1>8, <1>10 DEF KeysOf
<1> QED
  BY <1>8, <1>21, <1>22 DEF Grows

LEMMA SourcePlaced ==
    ASSUME NEW x, Good(x), NEW p \in Paths,
           Key[p] \notin KeysOf(x), HasPlace(x, p, {"files"}),
           NEW d, d = PlacedAsSource(x, p)
    PROVE  Grows(d, x, Key[p])
<1>1. PICK n \in Nat : n = Len(x.source)
  BY GoodParts
<1>2. PICK index : index = IF ~x.indexed THEN x.index
                           ELSE [k \in DOMAIN x.index \cup {Key[p]} |-> IF k = Key[p] THEN n + 1 ELSE x.index[k]]
  OBVIOUS
<1>3. d = [x EXCEPT !.source = Append(@, p), !.index = index, !.bytes = @ + Bytes[p],
                    !.sourceBytes = @ + Bytes[p], !.counts = CountUp(@, {"files"})]
  BY <1>1, <1>2 DEF PlacedAsSource
<1>4. /\ Formed(x) /\ x.source \in Seq(Paths) /\ x.meta \in Seq(Entries) /\ Len(x.meta) \in Nat
      /\ DOMAIN x.source = 1..n
      /\ IsFiniteSet(Range(x.source)) /\ Range(x.source) \in SUBSET Paths
      /\ IsFiniteSet(Range(x.meta)) /\ Range(x.meta) \in SUBSET Entries
      /\ \A i \in DOMAIN x.source : x.source[i] \in Paths /\ x.source[i] \in Range(x.source)
  BY <1>1, GoodParts
<1>5. /\ x.broken = FALSE /\ Distinct(x.source) /\ MetaDistinct(x.meta)
      /\ Apart(Range(x.source), Range(x.meta))
      /\ Tallies(x, Range(x.source), n, Range(x.meta))
      /\ (x.indexed => Indexes(x.index, x.source)) /\ Bounded(x)
      /\ x.indexed \in BOOLEAN /\ x.enforce \in BOOLEAN /\ IsFiniteSet(x.reasons)
      /\ x.bytes \in Int /\ x.sourceBytes \in Int /\ x.ordinaryBytes \in Int /\ x.ordinaryCount \in Int
      /\ x.counts \in [Sections -> Int]
      /\ x.lim.entries \in Nat /\ x.lim.capacity \in Nat /\ x.lim.bytes \in Nat
  BY <1>1, GoodAgrees
<1>6. /\ Formed(d) /\ SameBut(d, x, {"source", "index", "bytes", "sourceBytes", "counts"})
      /\ d.source = Append(x.source, p) /\ d.index = index /\ d.bytes = x.bytes + Bytes[p]
      /\ d.sourceBytes = x.sourceBytes + Bytes[p] /\ d.counts = CountUp(x.counts, {"files"})
  BY <1>3, <1>4 DEF Formed, SameBut, RetFields
<1>7. /\ d.lim = x.lim /\ d.reasons = x.reasons /\ d.enforce = x.enforce /\ d.meta = x.meta
      /\ d.indexed = x.indexed /\ d.ordinaryBytes = x.ordinaryBytes
      /\ d.ordinaryCount = x.ordinaryCount /\ d.broken = x.broken
  BY <1>6 DEF SameBut, RetFields
<1>8. /\ d.source \in Seq(Paths) /\ Len(d.source) = n + 1 /\ DOMAIN d.source = 1..n + 1
      /\ \A i \in 1..n : d.source[i] = x.source[i]
      /\ d.source[n + 1] = p /\ Range(d.source) = Range(x.source) \cup {p}
  BY <1>1, <1>4, <1>6, Appended
<1>9. \A q \in Range(x.source) : Key[q] # Key[p]
  BY DEF KeysOf
<1>10. \A i \in 1..n + 1 : i \in 1..n \/ i = n + 1
  OBVIOUS
<1>11. Distinct(d.source)
  <2>1. \A i, j \in 1..n : Key[x.source[i]] = Key[x.source[j]] => i = j
    BY <1>4, <1>5 DEF Distinct
  <2>2. \A i \in 1..n : Key[x.source[i]] # Key[p]
    BY <1>4, <1>9
  <2> QED
    BY <1>8, <1>10, <2>1, <2>2 DEF Distinct
<1>12. ASSUME d.indexed PROVE Indexes(d.index, d.source)
  <2>1. /\ d.index = [k \in DOMAIN x.index \cup {Key[p]} |-> IF k = Key[p] THEN n + 1 ELSE x.index[k]]
        /\ DOMAIN x.index = {Key[q] : q \in Range(x.source)}
        /\ \A i \in 1..n : x.index[Key[x.source[i]]] = i
    BY <1>2, <1>4, <1>5, <1>6, <1>7, <1>12 DEF Indexes
  <2>2. DOMAIN d.index = {Key[q] : q \in Range(d.source)}
    BY <1>8, <2>1
  <2>3. ASSUME NEW i \in 1..n + 1 PROVE d.index[Key[d.source[i]]] = i
    <3>1. CASE i \in 1..n
      <4>1. d.source[i] = x.source[i] /\ Key[x.source[i]] # Key[p] /\ Key[x.source[i]] \in DOMAIN x.index
        BY <1>4, <1>8, <1>9, <2>1, <3>1
      <4> QED
        BY <2>1, <3>1, <4>1
    <3>2. CASE i = n + 1
      BY <1>8, <2>1, <3>2
    <3> QED
      BY <1>10, <3>1, <3>2
  <2> QED
    BY <1>8, <2>2, <2>3 DEF Indexes
<1>13. /\ BytesOf(Range(x.source)) \in Int /\ BytesOf(Range(x.source) \cup {p}) = BytesOf(Range(x.source)) + Bytes[p]
       /\ Bytes[p] \in Int
  <2>1. p \in Paths \ Range(x.source)
    BY <1>9
  <2>2. Bytes[p] \in Int
    BY PathsAssumption
  <2> QED
    BY <1>4, <2>1, <2>2, BytesAdd
<1>14. /\ d.counts \in [Sections -> Int]
       /\ \A s \in Sections : d.counts[s] = x.counts[s] + (IF s = "files" THEN 1 ELSE 0)
  BY <1>5, <1>6 DEF CountUp
<1>15. d.bytes \in Int /\ d.sourceBytes \in Int
  BY <1>5, <1>6, <1>13, SMTT(30)
<1>16. PICK M : M = Range(x.meta)
  OBVIOUS
<1>17. BytesOf(PathsOf(M)) \in Int
  <2>1. PICK f : f = [m \in M |-> m.path]
    OBVIOUS
  <2>2. f \in Surjection(M, PathsOf(M))
    BY <2>1 DEF Surjection, PathsOf
  <2>3. PathsOf(M) \in SUBSET Paths
    BY <1>4, <1>16 DEF PathsOf, Entries
  <2>4. IsFiniteSet(PathsOf(M))
    BY <1>4, <1>16, <2>2, FS_Surjection
  <2> QED
    BY <2>3, <2>4, BytesAdd
<1>18. Tallies(d, Range(d.source), Len(d.source), Range(d.meta))
  <2>1. Range(d.source) = Range(x.source) \cup {p} /\ Range(d.meta) = M
    BY <1>7, <1>8, <1>16
  <2>2. x.sourceBytes = BytesOf(Range(x.source)) /\ x.bytes = x.sourceBytes + BytesOf(PathsOf(M))
    BY <1>5, <1>16 DEF Tallies
  <2>3. d.sourceBytes = BytesOf(Range(d.source))
    BY <1>6, <1>13, <2>1, <2>2
  <2>4. d.bytes = d.sourceBytes + BytesOf(PathsOf(M))
    BY <1>5, <1>6, <1>13, <1>17, <2>2
  <2>5. d.ordinaryCount = Cardinality(OrdinaryOf(M)) /\ d.ordinaryBytes = BytesOf(PathsOf(OrdinaryOf(M)))
    BY <1>5, <1>7, <1>16 DEF Tallies
  <2>6. ASSUME NEW s \in Sections
        PROVE  d.counts[s] = Cardinality(OfSection(M, s)) + (IF s = "files" THEN n + 1 ELSE 0)
    <3>1. x.counts[s] = Cardinality(OfSection(M, s)) + (IF s = "files" THEN n ELSE 0)
      BY <1>5, <1>16 DEF Tallies
    <3>2. PICK c \in Nat : c = Cardinality(OfSection(M, s))
      <4>1. IsFiniteSet(M) /\ OfSection(M, s) \in SUBSET M
        BY <1>4, <1>16 DEF OfSection
      <4> QED
        BY <4>1, FS_Subset, FS_CardinalityType
    <3>3. d.counts[s] = x.counts[s] + (IF s = "files" THEN 1 ELSE 0)
      BY <1>14
    <3> QED
      BY <3>1, <3>2, <3>3
  <2> QED
    BY <1>8, <2>1, <2>3, <2>4, <2>5, <2>6 DEF Tallies
<1>19. Bounded(d)
  <2>1. PICK b \in Nat : b = Len(x.meta)
    BY <1>4
  <2>2. RetainedCount(x) = n + b /\ RetainedCount(d) = n + 1 + b
    BY <1>1, <1>7, <1>8, <2>1 DEF RetainedCount
  <2>3. d.bytes <= d.lim.bytes /\ RetainedCount(d) <= d.lim.capacity
    BY <1>5, <1>6, <1>7, <2>2 DEF HasPlace
  <2>4. ASSUME d.enforce, NEW s \in Sections PROVE d.counts[s] <= d.lim.entries
    <3>1. x.counts[s] <= x.lim.entries /\ (s = "files" => x.counts[s] < x.lim.entries)
      BY <1>5, <1>7, <2>4 DEF Bounded, HasPlace
    <3>2. x.counts[s] \in Int
      BY <1>5
    <3> QED
      BY <1>5, <1>7, <1>14, <3>1, <3>2
  <2> QED
    BY <2>3, <2>4 DEF Bounded
<1>20. Apart(Range(d.source), Range(d.meta))
  <2>1. \A m \in Range(x.meta) : Key[p] # Key[m.path]
    BY DEF KeysOf
  <2> QED
    BY <1>5, <1>7, <1>8, <2>1 DEF Apart
<1>21. Good(d)
  <2>1. d.source \in Seq(Paths) /\ d.meta \in Seq(Entries) /\ d.broken = FALSE /\ d.enforce \in BOOLEAN
        /\ d.indexed \in BOOLEAN /\ MetaDistinct(d.meta) /\ IsFiniteSet(d.reasons)
        /\ d.lim.entries \in Nat /\ d.lim.capacity \in Nat /\ d.lim.bytes \in Nat
        /\ d.ordinaryBytes \in Int /\ d.ordinaryCount \in Int
    BY <1>4, <1>5, <1>7, <1>8
  <2> QED
    BY <1>6, <1>11, <1>12, <1>14, <1>15, <1>18, <1>19, <1>20, <2>1, GoodMade
<1>22. KeysOf(d) \subseteq KeysOf(x) \cup {Key[p]}
  BY <1>7, <1>8 DEF KeysOf
<1> QED
  BY <1>7, <1>21, <1>22 DEF Grows

LEMMA GrowsLess ==
    ASSUME NEW r, Good(r), NEW x, Lessens(x, r), NEW key
    PROVE  Grows(x, r, key) /\ \A d : Grows(d, x, key) => Grows(d, r, key)
<1>1. KeysOf(x) \subseteq KeysOf(r) /\ Good(x) /\ x.lim = r.lim /\ x.enforce = r.enforce
  BY FewerKeys DEF Lessens
<1> QED
  BY <1>1 DEF Grows

\* Records of these fields that differ in no field are the same.
LEMMA SameRecords ==
    ASSUME NEW a, NEW b, Formed(a), Formed(b), SameBut(a, b, {})
    PROVE  a = b
  BY DEF Formed, SameBut

\* Whatever a new path displaces, the retention after it is in order.
LEMMA Inserted ==
    ASSUME NEW r, Good(r), NEW p \in Paths, NEW force \in BOOLEAN, Key[p] \notin KeysOf(r),
           NEW added, added = Insert(r, p, force)
    PROVE  Grows(added.r, r, Key[p])
<1>1. PICK sections : sections = SectionsOf(p, force)
  OBVIOUS
<1>2. PICK critical \in BOOLEAN : critical = Critical(p, force)
  BY DEF Critical
<1>3. PICK isMeta \in BOOLEAN : isMeta <=> sections # {"files"}
  OBVIOUS
<1>4. sections \in SUBSET Sections
  BY <1>1 DEF SectionsOf
<1>5. PICK room : room = MakeRoom(r, sections, critical, "none")
  OBVIOUS
<1>6. /\ Good(room.r) /\ Lessens(room.r, r)
      /\ r.enforce /\ room.ok => \A s \in sections : room.r.counts[s] < r.lim.entries
  BY <1>4, <1>5, RoomMade
<1>7. PICK space : space = MakeCapacity(room.r, p, critical, sections # {"files"})
  OBVIOUS
<1>8. PICK x : x = space.r
  OBVIOUS
<1>9. /\ Good(x) /\ Lessens(x, room.r)
      /\ space.ok => RetainedCount(x) < room.r.lim.capacity /\ x.bytes + Bytes[p] <= room.r.lim.bytes
  BY <1>6, <1>7, <1>8, CapacityMade
<1>10. Lessens(x, r)
  BY <1>6, <1>9, LessensTwice
<1>11. PICK o : o = IF isMeta /\ ~critical THEN 1 ELSE 0
  OBVIOUS
<1>12. PICK d : d = Placed(x, p, sections, critical)
  OBVIOUS
<1>13. added = IF ~room.ok THEN [ok |-> FALSE, r |-> AddReason(room.r, "entries")]
               ELSE IF ~space.ok THEN space ELSE [space EXCEPT !.r = d]
  BY <1>1, <1>2, <1>5, <1>7, <1>8, <1>12 DEF Insert
<1>14. CASE ~room.ok
  <2>1. added.r = AddReason(room.r, "entries")
    BY <1>13, <1>14
  <2>2. Lessens(added.r, room.r)
    BY <1>6, <2>1, ReasonAdded
  <2>3. Lessens(added.r, r)
    BY <1>6, <2>2, LessensTwice
  <2> QED
    BY <2>3, GrowsLess
<1>15. CASE room.ok /\ ~space.ok
  <2>1. added.r = x
    BY <1>8, <1>13, <1>15
  <2> QED
    BY <1>10, <2>1, GrowsLess
<1>16. CASE room.ok /\ space.ok
  <2>1. added.r = d
    <3>1. added = [space EXCEPT !.r = d]
      BY <1>13, <1>16
    <3>2. "r" \in DOMAIN space
      BY <1>7 DEF MakeCapacity
    <3> QED
      BY <3>1, <3>2
  <2>2. HasPlace(x, p, sections)
    <3>1. x.lim = room.r.lim /\ x.lim = r.lim /\ x.enforce = r.enforce
      BY <1>9, <1>10 DEF Lessens
    <3>2. ASSUME x.enforce, NEW s \in sections PROVE x.counts[s] < x.lim.entries
      <4>1. room.r.counts[s] < r.lim.entries /\ x.counts[s] <= room.r.counts[s]
        BY <1>4, <1>6, <1>9, <1>16, <3>1, <3>2 DEF Lessens
      <4>2. x.counts \in [Sections -> Int] /\ room.r.counts \in [Sections -> Int] /\ x.lim.entries \in Nat
        BY <1>6, <1>9, GoodAgrees
      <4>3. x.counts[s] \in Int /\ room.r.counts[s] \in Int
        BY <1>4, <4>2
      <4> QED
        BY <3>1, <4>1, <4>2, <4>3
    <3> QED
      BY <1>9, <1>16, <3>1, <3>2 DEF HasPlace
  <2>3. Key[p] \notin KeysOf(x)
    BY <1>10, FewerKeys
  <2>4. Formed(x) /\ x.ordinaryBytes \in Int /\ x.ordinaryCount \in Int /\ Bytes[p] \in Int
    <3>1. Formed(x)
      BY <1>9, GoodParts
    <3>2. x.ordinaryBytes \in Int /\ x.ordinaryCount \in Int
      BY <1>9, GoodAgrees
    <3>3. Bytes[p] \in Int
      BY PathsAssumption
    <3> QED
      BY <3>1, <3>2, <3>3
  <2>5. CASE isMeta
    <3>1. PICK e : e = PlacedAsMeta(x, p, sections, critical)
      OBVIOUS
    <3>2. d = e
      <4>1. o = IF critical THEN 0 ELSE 1
        BY <1>11, <2>5
      <4>2. Formed(d) /\ Formed(e)
        BY <1>12, <2>4, <3>1 DEF Formed, RetFields, Placed, PlacedAsMeta
      <4>3. SameBut(d, e, {})
        BY <1>3, <1>11, <1>12, <2>4, <2>5, <3>1, <4>1 DEF Formed, SameBut, RetFields, Placed, PlacedAsMeta
      <4> QED
        BY <4>2, <4>3, SameRecords
    <3>3. Grows(e, x, Key[p])
      BY <1>4, <1>9, <2>2, <2>3, <3>1, MetaPlaced
    <3> QED
      BY <1>10, <2>1, <3>2, <3>3, GrowsLess
  <2>6. CASE ~isMeta
    <3>1. sections = {"files"}
      BY <1>3, <2>6
    <3>2. PICK e : e = PlacedAsSource(x, p)
      OBVIOUS
    <3>3. d = e
      <4>1. o = 0 /\ x.ordinaryBytes + o * Bytes[p] = x.ordinaryBytes /\ x.ordinaryCount + o = x.ordinaryCount
        BY <1>11, <2>4, <2>6
      <4>2. Formed(d) /\ Formed(e)
        BY <1>12, <2>4, <3>2 DEF Formed, RetFields, Placed, PlacedAsSource
      <4>3. SameBut(d, e, {})
        BY <1>11, <1>12, <2>4, <2>6, <3>1, <3>2, <4>1 DEF Formed, SameBut, RetFields, Placed, PlacedAsSource
      <4> QED
        BY <4>2, <4>3, SameRecords
    <3>4. Grows(e, x, Key[p])
      BY <1>9, <2>2, <2>3, <3>1, <3>2, SourcePlaced
    <3> QED
      BY <1>10, <2>1, <3>3, <3>4, GrowsLess
  <2> QED
    BY <2>5, <2>6
<1> QED
  BY <1>14, <1>15, <1>16

-------------------------------------------------------------------------------
(* A path that is offered again: it is merged with what is retained.           *)

LEMMA CountsMove ==
    ASSUME NEW c \in [Sections -> Int], NEW A \in SUBSET Sections, NEW B \in SUBSET Sections, A \cap B = {}
    PROVE  CountUp(CountDown(c, A), A \cup B) = CountUp(c, B)
<1>1. ASSUME NEW s \in Sections
      PROVE  CountUp(CountDown(c, A), A \cup B)[s] = CountUp(c, B)[s]
  <2>1. c[s] \in Int /\ CountDown(c, A)[s] = IF s \in A THEN c[s] - 1 ELSE c[s]
    BY DEF CountDown
  <2> QED
    BY <2>1 DEF CountUp
<1> QED
  BY <1>1 DEF CountUp

\* The path p is taken out, with the sections it was in.
TakenOut(z, y, p, own) ==
  /\ Key[p] \in KeysOf(y) /\ z = Drop(y, Key[p])
  /\ z.bytes + Bytes[p] = y.bytes /\ z.counts = CountDown(y.counts, own)
HasRoom(y, added) == y.enforce => \A s \in added : y.counts[s] < y.lim.entries

\* What is taken out and placed as metadata, with other sections added.
LEMMA Replaced ==
    ASSUME NEW x, Good(x), NEW y, Lessens(y, x), NEW p \in Paths, NEW own \in SUBSET Sections,
           NEW z, TakenOut(z, y, p, own), NEW added \in SUBSET Sections, HasRoom(y, added),
           NEW critical \in BOOLEAN
    PROVE  Grows(PlacedAsMeta(z, p, own \cup added, critical), x, Key[p])
<1> DEFINE key == Key[p]
<1>0. /\ key \in KeysOf(y) /\ z = Drop(y, key)
      /\ z.bytes + Bytes[p] = y.bytes /\ z.counts = CountDown(y.counts, own)
      /\ (y.enforce => \A s \in added : y.counts[s] < y.lim.entries)
  BY DEF TakenOut, HasRoom
<1> HIDE DEF key
<1>1. Good(y) /\ y.lim = x.lim /\ y.enforce = x.enforce
  BY DEF Lessens
<1>2. Lessens(z, y) /\ key \notin KeysOf(z) /\ RetainedCount(z) = RetainedCount(y) - 1
  BY <1>0, <1>1, Dropped
<1>3. Good(z) /\ z.lim = y.lim /\ z.enforce = y.enforce
  BY <1>2 DEF Lessens
<1>4. /\ y.counts \in [Sections -> Int] /\ Bounded(y)
      /\ y.lim.entries \in Nat /\ y.lim.capacity \in Nat /\ y.lim.bytes \in Nat
  BY <1>1, GoodAgrees
<1>5. RetainedCount(y) \in Nat
  BY <1>1, RoundsAre
<1>6. ASSUME z.enforce, NEW s \in own \cup added PROVE z.counts[s] < z.lim.entries
  <2>1. y.counts[s] \in Int /\ z.counts[s] = IF s \in own THEN y.counts[s] - 1 ELSE y.counts[s]
    BY <1>0, <1>4 DEF CountDown
  <2>2. y.counts[s] <= y.lim.entries
    BY <1>3, <1>4, <1>6 DEF Bounded
  <2>3. s \notin own => y.counts[s] < y.lim.entries
    BY <1>0, <1>3, <1>6
  <2> QED
    BY <1>3, <1>4, <2>1, <2>2, <2>3
<1>7. HasPlace(z, p, own \cup added)
  BY <1>0, <1>2, <1>3, <1>4, <1>5, <1>6 DEF HasPlace, Bounded
<1>8. Grows(PlacedAsMeta(z, p, own \cup added, critical), z, Key[p])
  BY <1>2, <1>3, <1>7, MetaPlaced DEF key
<1>9. Lessens(z, x)
  BY <1>2, LessensTwice
<1> QED
  BY <1>8, <1>9, GrowsLess

\* A path that was retained as metadata is merged.
LEMMA MergedMeta ==
    ASSUME NEW x, Good(x), NEW p \in Paths, NEW force \in BOOLEAN, MetaPositions(x, Key[p]) # {},
           NEW old, old = x.meta[CHOOSE i \in MetaPositions(x, Key[p]) : TRUE],
           NEW out, out = MergeOld(x, p, force, old, TRUE)
    PROVE  Grows(out.r, x, Key[p])
<1>1. PICK key : key = Key[p]
  OBVIOUS
<1>2. PICK critical \in BOOLEAN : critical <=> Critical(p, force) \/ old.critical
  OBVIOUS
<1>3. PICK added \in SUBSET Sections : added = SectionsOf(p, force) \ old.sections
  BY DEF SectionsOf
<1>4. old \in Entries /\ old \in Range(x.meta) /\ Key[old.path] = key
  BY <1>1, Popped
<1>5. PICK room : room = MakeRoom(x, added, Critical(p, force) \/ old.critical, key)
  OBVIOUS
<1>6. PICK y : y = room.r
  OBVIOUS
<1>7. /\ Good(y) /\ Lessens(y, x) /\ KeepsOne(y, x, key)
      /\ x.enforce /\ room.ok => \A s \in added : y.counts[s] < x.lim.entries
  BY <1>5, <1>6, RoomMade
<1>8. PICK o : o = IF ~old.critical /\ (Critical(p, force) \/ old.critical) THEN 1 ELSE 0
  OBVIOUS
<1>9. PICK d : d = [PopMeta(y, key) EXCEPT
                      !.meta = Append(@, [path |-> old.path, sections |-> old.sections \cup added,
                                          critical |-> Critical(p, force) \/ old.critical]),
                      !.ordinaryBytes = @ - o * Bytes[old.path],
                      !.ordinaryCount = @ - o,
                      !.counts = CountUp(@, added)]
  OBVIOUS
<1>10. \/ out.r = x \/ out.r = AddReason(y, "entries")
       \/ room.ok /\ out.r = d
  BY <1>1, <1>3, <1>5, <1>6, <1>8, <1>9 DEF MergeOld
<1>11. Grows(x, x, key)
  BY LessensItself, GrowsLess
<1>12. Grows(AddReason(y, "entries"), x, key)
  <2>1. Lessens(AddReason(y, "entries"), y)
    BY <1>7, ReasonAdded
  <2>2. Lessens(AddReason(y, "entries"), x)
    BY <1>7, <2>1, LessensTwice
  <2> QED
    BY <2>2, GrowsLess
<1>13. ASSUME room.ok PROVE Grows(d, x, key)
  <2>1. old \in Range(y.meta) /\ key \in KeysOf(y)
    BY <1>4, <1>7 DEF KeepsOne, KeysOf
  <2>2. MetaPositions(y, key) # {}
    <3>1. PICK i \in DOMAIN y.meta : old = y.meta[i]
      BY <1>7, <2>1, GoodParts
    <3> QED
      BY <1>4, <3>1 DEF MetaPositions
  <2>3. PICK i \in DOMAIN y.meta :
          /\ i = CHOOSE j \in MetaPositions(y, key) : TRUE
          /\ Key[y.meta[i].path] = key /\ y.meta[i] \in Range(y.meta)
          /\ Formed(PopMeta(y, key)) /\ SameBut(PopMeta(y, key), y, {"meta"})
    BY <1>7, <2>2, Popped
  <2>4. y.meta[i] = old
    BY <1>4, <1>7, <2>1, <2>3, GoodParts
  <2>5. PICK w : w = PopMeta(y, key)
    OBVIOUS
  <2>6. Formed(w) /\ w.bytes = y.bytes /\ w.ordinaryBytes = y.ordinaryBytes /\ w.counts = y.counts
        /\ w.ordinaryCount = y.ordinaryCount
    BY <2>3, <2>5 DEF SameBut, RetFields
  <2>7. PICK z : z = Drop(y, key)
    OBVIOUS
  <2>8. PICK oo : oo = IF old.critical THEN 0 ELSE 1
    OBVIOUS
  <2>9. z = [w EXCEPT !.bytes = @ - Bytes[old.path], !.ordinaryBytes = @ - oo * Bytes[old.path],
                      !.ordinaryCount = @ - oo, !.counts = CountDown(@, old.sections)]
    BY <2>2, <2>3, <2>4, <2>5, <2>7, <2>8 DEF Drop
  <2>10. /\ Formed(z) /\ SameBut(z, w, {"bytes", "ordinaryBytes", "ordinaryCount", "counts"})
         /\ z.bytes = y.bytes - Bytes[old.path] /\ z.ordinaryBytes = y.ordinaryBytes - oo * Bytes[old.path]
         /\ z.ordinaryCount = y.ordinaryCount - oo /\ z.counts = CountDown(y.counts, old.sections)
    BY <2>6, <2>9 DEF Formed, SameBut, RetFields
  <2>11. y.bytes \in Int /\ y.ordinaryBytes \in Int /\ y.ordinaryCount \in Int /\ y.counts \in [Sections -> Int]
    BY <1>7, GoodAgrees
  <2>12. old.path \in Paths /\ Bytes[old.path] \in Int /\ old.sections \in SUBSET Sections /\ old.critical \in BOOLEAN
    BY <1>4, PathsAssumption DEF Entries
  <2>13. z.bytes + Bytes[old.path] = y.bytes
    BY <2>10, <2>11, <2>12
  <2>14. PICK e : e = PlacedAsMeta(z, old.path, old.sections \cup added, critical)
    OBVIOUS
  <2>15. Grows(e, x, key)
    <3>1. y.enforce => \A s \in added : y.counts[s] < y.lim.entries
      BY <1>7, <1>13 DEF Lessens
    <3>2. HasRoom(y, added)
      BY <3>1 DEF HasRoom
    <3>3. TakenOut(z, y, old.path, old.sections)
      BY <1>4, <2>1, <2>7, <2>10, <2>13 DEF TakenOut
    <3>4. Grows(PlacedAsMeta(z, old.path, old.sections \cup added, critical), x, Key[old.path])
      BY <1>7, <2>12, <3>2, <3>3, Replaced
    <3> QED
      BY <1>4, <2>14, <3>4
  <2>16. d = e
    <3>1. PICK on : on = IF critical THEN 0 ELSE 1
      OBVIOUS
    <3>2. e = [z EXCEPT !.meta = Append(@, [path |-> old.path, sections |-> old.sections \cup added, critical |-> critical]),
                        !.bytes = @ + Bytes[old.path],
                        !.ordinaryBytes = @ + on * Bytes[old.path],
                        !.ordinaryCount = @ + on,
                        !.counts = CountUp(@, old.sections \cup added)]
      BY <2>14, <3>1 DEF PlacedAsMeta
    <3>3. /\ z.ordinaryCount + on = y.ordinaryCount - o
          /\ z.ordinaryBytes + on * Bytes[old.path] = y.ordinaryBytes - o * Bytes[old.path]
      <4>1. CASE old.critical
        <5>1. critical /\ o = 0 /\ oo = 0 /\ on = 0
          BY <1>2, <1>8, <2>8, <3>1, <4>1
        <5> QED
          BY <2>10, <2>11, <2>12, <5>1, SMTT(30)
      <4>2. CASE ~old.critical /\ critical
        <5>1. o = 1 /\ oo = 1 /\ on = 0
          BY <1>2, <1>8, <2>8, <3>1, <4>2
        <5> QED
          BY <2>10, <2>11, <2>12, <5>1, SMTT(30)
      <4>3. CASE ~old.critical /\ ~critical
        <5>1. o = 0 /\ oo = 1 /\ on = 1
          BY <1>2, <1>8, <2>8, <3>1, <4>3
        <5> QED
          BY <2>10, <2>11, <2>12, <5>1, SMTT(30)
      <4> QED
        BY <4>1, <4>2, <4>3
    <3>4. CountUp(z.counts, old.sections \cup added) = CountUp(y.counts, added)
      <4>1. old.sections \cap added = {}
        BY <1>3
      <4> QED
        BY <2>10, <2>11, <2>12, <4>1, CountsMove
    <3>5. critical = (Critical(p, force) \/ old.critical)
      <4>1. Critical(p, force) \in BOOLEAN
        BY DEF Critical
      <4> QED
        BY <1>2, <2>12, <4>1
    <3>6. Formed(d) /\ Formed(e)
      BY <1>9, <2>5, <2>6, <2>10, <3>2 DEF Formed, RetFields
    <3>7. SameBut(e, z, {"meta", "bytes", "ordinaryBytes", "ordinaryCount", "counts"})
      BY <2>10, <3>2 DEF Formed, RetFields, SameBut
    <3>8. SameBut(d, w, {"meta", "ordinaryBytes", "ordinaryCount", "counts"})
      BY <1>9, <2>5, <2>6 DEF Formed, RetFields, SameBut
    <3>9. /\ d.meta = Append(w.meta, [path |-> old.path, sections |-> old.sections \cup added,
                                      critical |-> Critical(p, force) \/ old.critical])
          /\ d.ordinaryBytes = y.ordinaryBytes - o * Bytes[old.path]
          /\ d.ordinaryCount = y.ordinaryCount - o /\ d.counts = CountUp(y.counts, added)
      BY <1>9, <2>5, <2>6 DEF Formed, RetFields
    <3>10. /\ e.meta = Append(z.meta, [path |-> old.path, sections |-> old.sections \cup added, critical |-> critical])
           /\ e.bytes = z.bytes + Bytes[old.path]
           /\ e.ordinaryBytes = z.ordinaryBytes + on * Bytes[old.path]
           /\ e.ordinaryCount = z.ordinaryCount + on /\ e.counts = CountUp(z.counts, old.sections \cup added)
      BY <2>10, <3>2 DEF Formed, RetFields
    <3>11. z.meta = w.meta
      BY <2>10 DEF SameBut, RetFields
    <3>12. /\ d.meta = e.meta /\ d.ordinaryBytes = e.ordinaryBytes /\ d.ordinaryCount = e.ordinaryCount
           /\ d.counts = e.counts
      BY <3>3, <3>4, <3>5, <3>9, <3>10, <3>11
    <3>13. d.bytes = e.bytes
      <4>1. d.bytes = w.bytes
        BY <3>8 DEF SameBut, RetFields
      <4> QED
        BY <2>6, <2>13, <3>10, <4>1
    <3>14. SameBut(d, e, {})
      BY <2>10, <3>7, <3>8, <3>12, <3>13 DEF SameBut, RetFields
    <3> QED
      BY <3>6, <3>14, SameRecords
  <2> QED
    BY <2>15, <2>16
<1> QED
  BY <1>1, <1>10, <1>11, <1>12, <1>13

LEMMA MergedSource ==
    ASSUME NEW x, Good(x), x.indexed = TRUE, NEW p \in Paths, NEW force \in BOOLEAN, Critical(p, force),
           MetaPositions(x, Key[p]) = {}, Key[p] \in KeysOf(x),
           NEW old, old = [path |-> x.source[x.index[Key[p]]], sections |-> {"files"}, critical |-> FALSE],
           NEW out, out = MergeOld(x, p, force, old, FALSE)
    PROVE  Grows(out.r, x, Key[p])
<1>1. PICK key : key = Key[p]
  OBVIOUS
<1>2. PICK added \in SUBSET Sections : added = SectionsOf(p, force) \ {"files"}
  BY DEF SectionsOf
<1>3. old.sections = {"files"} /\ old.critical = FALSE
  OBVIOUS
<1>4. PICK room : room = MakeRoom(x, added, Critical(p, force) \/ old.critical, key)
  OBVIOUS
<1>5. PICK y : y = room.r
  OBVIOUS
<1>6. /\ Good(y) /\ Lessens(y, x) /\ SameSources(y, x)
      /\ x.enforce /\ room.ok => \A s \in added : y.counts[s] < x.lim.entries
  BY <1>2, <1>4, <1>5, RoomMade
<1>15. \A m \in Range(x.meta) : Key[m.path] # key
  <2>1. \A m \in Range(x.meta) : \E j \in DOMAIN x.meta : m = x.meta[j]
    BY GoodParts
  <2> QED
    BY <1>1, <2>1 DEF MetaPositions
<1>7. PICK i \in DOMAIN x.source : Key[x.source[i]] = key /\ x.index[key] = i
  <2>1. key \in {Key[q] : q \in Range(x.source)}
    BY <1>1, <1>15 DEF KeysOf
  <2>2. PICK i \in DOMAIN x.source : Key[x.source[i]] = key
    <3>1. \A r \in Range(x.source) : \E j \in DOMAIN x.source : r = x.source[j]
      BY GoodParts
    <3> QED
      BY <2>1, <3>1
  <2>3. Indexes(x.index, x.source)
    BY GoodAgrees
  <2>4. x.index[key] = i
    BY <2>2, <2>3 DEF Indexes
  <2> QED
    BY <2>2, <2>4
<1>8. PICK q \in Paths : q = x.source[i] /\ Key[q] = key /\ old.path = q
  BY <1>1, <1>7, GoodParts
<1>9. PICK t : t = Detach(y, i)
  OBVIOUS
<1>10. PICK d : d = [[t EXCEPT !.sourceBytes = @ - Bytes[q]] EXCEPT
                      !.meta = Append(@, [path |-> old.path, sections |-> old.sections \cup added,
                                          critical |-> Critical(p, force) \/ old.critical]),
                      !.ordinaryBytes = @ - 0 * Bytes[q],
                      !.ordinaryCount = @ - 0,
                      !.counts = CountUp(@, added)]
  OBVIOUS
<1>11. \/ out.r = x \/ out.r = AddReason(y, "entries")
       \/ room.ok /\ out.r = d
  <2>1. added = SectionsOf(p, force) \ old.sections
    BY <1>2, <1>3
  <2>2. t = Detach(y, x.index[Key[p]])
    BY <1>1, <1>7, <1>9
  <2> QED
    BY <1>1, <1>4, <1>5, <1>8, <1>10, <2>1, <2>2 DEF MergeOld
<1>12. Grows(x, x, key)
  BY LessensItself, GrowsLess
<1>13. Grows(AddReason(y, "entries"), x, key)
  <2>1. Lessens(AddReason(y, "entries"), y)
    BY <1>6, ReasonAdded
  <2>2. Lessens(AddReason(y, "entries"), x)
    BY <1>6, <2>1, LessensTwice
  <2> QED
    BY <2>2, GrowsLess
<1>14. ASSUME room.ok PROVE Grows(d, x, key)
  <2>1. y.source = x.source /\ y.indexed = TRUE /\ y.index = x.index
    BY <1>6 DEF SameSources
  <2>2. key \in KeysOf(y) /\ i \in DOMAIN y.source /\ q \in Range(y.source)
    BY <1>7, <1>8, <2>1, GoodParts DEF KeysOf
  <2>3. MetaPositions(y, key) = {}
    <3>1. Range(y.meta) \subseteq Range(x.meta)
      BY <1>6 DEF Lessens
    <3>3. \A j \in DOMAIN y.meta : y.meta[j] \in Range(y.meta)
      BY <1>6, GoodParts
    <3> QED
      BY <1>15, <3>1, <3>3 DEF MetaPositions
  <2>4. EnsureIndex(y) = y /\ key \in DOMAIN y.index /\ y.index[key] = i /\ y.source[i] = q
    <3>1. Indexes(y.index, y.source)
      BY <1>6, <2>1, GoodAgrees
    <3> QED
      BY <1>7, <1>8, <2>1, <2>2, <3>1 DEF EnsureIndex, Indexes
  <2>5. PICK z : z = Drop(y, key)
    OBVIOUS
  <2>6. z = [t EXCEPT !.bytes = @ - Bytes[q], !.sourceBytes = @ - Bytes[q], !.counts = CountDown(@, {"files"})]
    BY <1>9, <2>3, <2>4, <2>5 DEF Drop
  <2>7. Formed(t) /\ SameBut(t, y, {"source", "index"})
    <3>1. Shape(y) /\ Distinct(y.source) /\ (y.indexed => Indexes(y.index, y.source))
      BY <1>6, GoodAgrees DEF Good
    <3> QED
      BY <1>9, <2>2, <3>1, DetachedSource
  <2>8. /\ t.bytes = y.bytes /\ t.ordinaryBytes = y.ordinaryBytes /\ t.counts = y.counts
        /\ t.ordinaryCount = y.ordinaryCount
    BY <2>7 DEF SameBut, RetFields
  <2>9. /\ Formed(z) /\ SameBut(z, t, {"bytes", "sourceBytes", "counts"})
        /\ z.bytes = y.bytes - Bytes[q] /\ z.sourceBytes = t.sourceBytes - Bytes[q]
        /\ z.counts = CountDown(y.counts, {"files"})
    BY <2>6, <2>7, <2>8 DEF Formed, SameBut, RetFields
  <2>10. y.bytes \in Int /\ y.ordinaryBytes \in Int /\ y.ordinaryCount \in Int /\ y.counts \in [Sections -> Int]
    BY <1>6, GoodAgrees
  <2>11. Bytes[q] \in Int /\ {"files"} \in SUBSET Sections
    BY PathsAssumption DEF Sections
  <2>12. PICK e : e = PlacedAsMeta(z, q, {"files"} \cup added, TRUE)
    OBVIOUS
  <2>13. Grows(e, x, key)
    <3>1. HasRoom(y, added)
      BY <1>6, <1>14 DEF HasRoom, Lessens
    <3>2. z.bytes + Bytes[q] = y.bytes
      BY <2>9, <2>10, <2>11
    <3>3. TakenOut(z, y, q, {"files"})
      BY <1>8, <2>2, <2>5, <2>9, <3>2 DEF TakenOut
    <3>4. Grows(PlacedAsMeta(z, q, {"files"} \cup added, TRUE), x, Key[q])
      BY <1>6, <2>11, <3>1, <3>3, Replaced
    <3> QED
      BY <1>8, <2>12, <3>4
  <2>14. d = e
    <3>1. e = [z EXCEPT !.meta = Append(@, [path |-> q, sections |-> {"files"} \cup added, critical |-> TRUE]),
                        !.bytes = @ + Bytes[q],
                        !.ordinaryBytes = @ + 0 * Bytes[q],
                        !.ordinaryCount = @ + 0,
                        !.counts = CountUp(@, {"files"} \cup added)]
      BY <2>12 DEF PlacedAsMeta
    <3>2. CountUp(z.counts, {"files"} \cup added) = CountUp(y.counts, added)
      <4>1. {"files"} \cap added = {}
        BY <1>2
      <4> QED
        BY <2>9, <2>10, <2>11, <4>1, CountsMove
    <3>3. (Critical(p, force) \/ old.critical) = TRUE
      BY <1>3
    <3>4. Formed(d) /\ Formed(e)
      BY <1>10, <2>7, <2>9, <3>1 DEF Formed, RetFields
    <3>5. SameBut(e, z, {"meta", "bytes", "ordinaryBytes", "ordinaryCount", "counts"})
      BY <2>9, <3>1 DEF Formed, RetFields, SameBut
    <3>6. SameBut(d, t, {"meta", "sourceBytes", "ordinaryBytes", "ordinaryCount", "counts"})
      BY <1>10, <2>7 DEF Formed, RetFields, SameBut
    <3>7. /\ d.meta = Append(t.meta, [path |-> old.path, sections |-> old.sections \cup added,
                                      critical |-> Critical(p, force) \/ old.critical])
          /\ d.sourceBytes = t.sourceBytes - Bytes[q]
          /\ d.ordinaryBytes = y.ordinaryBytes - 0 * Bytes[q]
          /\ d.ordinaryCount = y.ordinaryCount - 0 /\ d.counts = CountUp(y.counts, added)
      BY <1>10, <2>7, <2>8 DEF Formed, RetFields
    <3>8. /\ e.meta = Append(z.meta, [path |-> q, sections |-> {"files"} \cup added, critical |-> TRUE])
          /\ e.bytes = z.bytes + Bytes[q]
          /\ e.ordinaryBytes = z.ordinaryBytes + 0 * Bytes[q]
          /\ e.ordinaryCount = z.ordinaryCount + 0 /\ e.counts = CountUp(z.counts, {"files"} \cup added)
      BY <2>9, <3>1 DEF Formed, RetFields
    <3>9. z.meta = t.meta /\ z.ordinaryBytes = y.ordinaryBytes /\ z.ordinaryCount = y.ordinaryCount
      BY <2>8, <2>9 DEF SameBut, RetFields
    <3>10. d.meta = e.meta
      BY <1>3, <1>8, <3>3, <3>7, <3>8, <3>9
    <3>11. d.ordinaryBytes = e.ordinaryBytes /\ d.ordinaryCount = e.ordinaryCount /\ d.counts = e.counts
      BY <2>10, <2>11, <3>2, <3>7, <3>8, <3>9
    <3>12. d.bytes = e.bytes
      <4>1. d.bytes = t.bytes
        BY <3>6 DEF SameBut, RetFields
      <4> QED
        BY <2>8, <2>9, <2>10, <2>11, <3>8, <4>1
    <3>13. d.sourceBytes = e.sourceBytes
      <4>1. e.sourceBytes = z.sourceBytes
        BY <3>5 DEF SameBut, RetFields
      <4> QED
        BY <2>9, <3>7, <4>1
    <3>14. SameBut(d, e, {})
      BY <2>9, <3>5, <3>6, <3>10, <3>11, <3>12, <3>13 DEF SameBut, RetFields
    <3> QED
      BY <3>4, <3>14, SameRecords
  <2> QED
    BY <2>13, <2>14
<1> QED
  BY <1>1, <1>11, <1>12, <1>13, <1>14

-------------------------------------------------------------------------------
(* All paths that one step adds, one after the other.                          *)

LEMMA MergedAgain ==
    ASSUME NEW r, Good(r), NEW p \in Paths, NEW force \in BOOLEAN, NEW out, out = Merge(r, p, force),
           MetaPositions(r, Key[p]) # {} \/ (Critical(p, force) /\ Key[p] \in KeysOf(r))
    PROVE  Grows(out.r, r, Key[p])
<1>1. CASE MetaPositions(r, Key[p]) # {}
  <2>1. out = MergeOld(r, p, force, r.meta[CHOOSE i \in MetaPositions(r, Key[p]) : TRUE], TRUE)
    BY <1>1 DEF Merge
  <2> QED
    BY <1>1, <2>1, MergedMeta
<1>2. CASE MetaPositions(r, Key[p]) = {}
  <2>1. PICK x : x = EnsureIndex(r)
    OBVIOUS
  <2>2. PICK old : old = [path |-> x.source[x.index[Key[p]]], sections |-> {"files"}, critical |-> FALSE]
    OBVIOUS
  <2>3. out = MergeOld(x, p, force, old, FALSE)
    BY <1>2, <2>1, <2>2 DEF Merge
  <2>4. /\ Good(x) /\ Lessens(x, r) /\ KeysOf(x) = KeysOf(r) /\ x.indexed = TRUE
        /\ SameBut(x, r, {"index", "indexed"})
    BY <2>1, EnsuredIndex
  <2>5. x.meta = r.meta
    BY <2>4 DEF SameBut, RetFields
  <2>6. MetaPositions(x, Key[p]) = {}
    BY <1>2, <2>5 DEF MetaPositions
  <2>7. Critical(p, force) /\ Key[p] \in KeysOf(x)
    BY <1>2, <2>4
  <2>8. Grows(out.r, x, Key[p])
    BY <2>2, <2>3, <2>4, <2>6, <2>7, MergedSource
  <2> QED
    BY <2>4, <2>8, GrowsLess
<1> QED
  BY <1>1, <1>2

\* A path that is offered again must be a critical one, or be known as metadata.
LEMMA Added ==
    ASSUME NEW r, Good(r), NEW p \in Paths, NEW force \in BOOLEAN,
           Critical(p, force) \/ Key[p] \notin KeysOf(r),
           NEW added, added = Add(r, p, force)
    PROVE  Grows(added.r, r, Key[p])
<1>1. PICK x : x = IF Critical(p, force) THEN EnsureIndex(r) ELSE r
  OBVIOUS
<1>2. /\ Good(x) /\ Lessens(x, r) /\ KeysOf(x) = KeysOf(r) /\ x.meta = r.meta
      /\ Critical(p, force) => Indexes(x.index, x.source)
  <2>1. CASE Critical(p, force)
    <3>1. x = EnsureIndex(r)
      BY <1>1, <2>1
    <3>2. /\ Good(x) /\ Lessens(x, r) /\ KeysOf(x) = KeysOf(r) /\ Indexes(x.index, x.source)
          /\ SameBut(x, r, {"index", "indexed"})
      BY <3>1, EnsuredIndex
    <3>3. x.meta = r.meta
      BY <3>2 DEF SameBut, RetFields
    <3> QED
      BY <3>2, <3>3
  <2>2. CASE ~Critical(p, force)
    BY <1>1, <2>2, LessensItself
  <2> QED
    BY <2>1, <2>2
<1>3. CASE r.broken \/ SectionsOf(p, force) = {}
  <2>1. added.r = r
    BY <1>3 DEF Add
  <2> QED
    BY <2>1, LessensItself, GrowsLess
<1>4. CASE ~(r.broken \/ SectionsOf(p, force) = {})
  <2>1. CASE MetaPositions(r, Key[p]) # {} \/ (Critical(p, force) /\ Key[p] \in DOMAIN x.index)
    <3>1. added = Merge(r, p, force)
      BY <1>1, <1>4, <2>1 DEF Add
    <3>2. ASSUME Critical(p, force), Key[p] \in DOMAIN x.index PROVE Key[p] \in KeysOf(r)
      <4>1. Key[p] \in KeysOf(x)
        BY <1>2, <3>2 DEF Indexes, KeysOf
      <4> QED
        BY <1>2, <4>1
    <3> QED
      BY <2>1, <3>1, <3>2, MergedAgain
  <2>2. CASE MetaPositions(r, Key[p]) = {} /\ ~(Critical(p, force) /\ Key[p] \in DOMAIN x.index)
    <3>1. added = Insert(x, p, force)
      BY <1>1, <1>4, <2>2 DEF Add
    <3>2. Key[p] \notin KeysOf(x)
      <4>1. CASE Critical(p, force)
        <5>1. \A q \in Range(x.source) : Key[q] # Key[p]
          BY <1>2, <2>2, <4>1 DEF Indexes
        <5>2. \A m \in Range(r.meta) : \E j \in DOMAIN r.meta : m = r.meta[j]
          BY GoodParts
        <5>3. \A m \in Range(x.meta) : Key[m.path] # Key[p]
          BY <1>2, <2>2, <5>2 DEF MetaPositions
        <5> QED
          BY <5>1, <5>3 DEF KeysOf
      <4>2. CASE ~Critical(p, force)
        BY <1>2, <4>2
      <4> QED
        BY <4>1, <4>2
    <3>3. Grows(added.r, x, Key[p])
      BY <1>2, <3>1, <3>2, Inserted
    <3> QED
      BY <1>2, <3>3, GrowsLess
  <2> QED
    BY <2>1, <2>2
<1> QED
  BY <1>3, <1>4

AddTrace(g, r, ps, forced, n) ==
  g = [i \in 0..n |-> IF i = 0 THEN r ELSE Add(g[i - 1], ps[i], Key[ps[i]] \in forced).r]

\* The rounds exist.
LEMMA AddRounds ==
    ASSUME NEW r, NEW ps, NEW forced, NEW n \in Nat
    PROVE  \E g : AddTrace(g, r, ps, forced, n)
<1> DEFINE Is(g, m) == g = [i \in 0..m |-> IF i = 0 THEN r ELSE Add(g[i - 1], ps[i], Key[ps[i]] \in forced).r]
           T == {m \in Nat : \E g : Is(g, m)}
<1>1. 0 \in T
  <2>1. PICK g : g = [i \in 0..0 |-> r]
    OBVIOUS
  <2>2. Is(g, 0)
    BY <2>1
  <2> QED
    BY <2>2
<1>2. ASSUME NEW m \in T PROVE m + 1 \in T
  <2>1. m \in Nat /\ m + 1 \in Nat
    OBVIOUS
  <2>2. PICK g : Is(g, m)
    OBVIOUS
  <2>3. PICK h : h = [i \in 0..m + 1 |-> IF i \in 0..m THEN g[i] ELSE Add(g[m], ps[m + 1], Key[ps[m + 1]] \in forced).r]
    OBVIOUS
  <2>4. ASSUME NEW i \in 0..m + 1
        PROVE  h[i] = IF i = 0 THEN r ELSE Add(h[i - 1], ps[i], Key[ps[i]] \in forced).r
    <3>1. CASE i = 0
      BY <2>1, <2>2, <2>3, <3>1
    <3>2. CASE i \in 1..m
      <4>1. i - 1 \in 0..m /\ i \in 0..m /\ i # 0
        BY <2>1, <3>2
      <4>2. h[i] = g[i] /\ h[i - 1] = g[i - 1] /\ g[i] = Add(g[i - 1], ps[i], Key[ps[i]] \in forced).r
        BY <2>1, <2>2, <2>3, <4>1
      <4> QED
        BY <4>1, <4>2
    <3>3. CASE i = m + 1
      <4>1. i - 1 = m /\ i \notin 0..m /\ m \in 0..m /\ i # 0
        BY <2>1, <3>3
      <4>2. h[i] = Add(g[m], ps[m + 1], Key[ps[m + 1]] \in forced).r /\ h[m] = g[m]
        BY <2>1, <2>3, <4>1
      <4> QED
        BY <3>3, <4>1, <4>2
    <3> QED
      BY <2>1, <3>1, <3>2, <3>3
  <2>5. Is(h, m + 1)
    BY <2>3, <2>4
  <2> QED
    BY <2>1, <2>5
<1>3. T = Nat
  <2> HIDE DEF T
  <2>1. T \subseteq Nat
    BY DEF T
  <2> QED
    BY <1>1, <1>2, <2>1, Induction
<1> QED
  BY <1>3 DEF AddTrace

\* Paths that are all new are added one after the other.
LEMMA AddedEach ==
    ASSUME NEW r, Good(r), NEW ps \in Seq(Paths), Distinct(ps), NEW forced,
           \A i \in DOMAIN ps : Key[ps[i]] \notin KeysOf(r)
    PROVE  /\ Good(AddEach(r, ps, forced))
           /\ KeysOf(AddEach(r, ps, forced)) \subseteq KeysOf(r) \cup {Key[p] : p \in Range(ps)}
<1>1. PICK n \in Nat : n = Len(ps) /\ DOMAIN ps = 1..n
  OBVIOUS
<1>2. PICK g : g = CHOOSE h : AddTrace(h, r, ps, forced, n)
  OBVIOUS
<1>3. AddTrace(g, r, ps, forced, n)
  BY <1>2, AddRounds, Zenon
<1>4. AddEach(r, ps, forced) = g[n]
  BY <1>1, <1>2 DEF AddEach, AddTrace
<1> DEFINE First(k) == {Key[ps[i]] : i \in 1..k}
           Fine(k) == Good(g[k]) /\ KeysOf(g[k]) \subseteq KeysOf(r) \cup First(k)
           T == {k \in Nat : k \in 0..n => Fine(k)}
<1>5. 0 \in T
  <2>1. g[0] = r
    BY <1>1, <1>3 DEF AddTrace
  <2> QED
    BY <2>1
<1>6. ASSUME NEW k \in T PROVE k + 1 \in T
  <2>1. k \in Nat /\ k + 1 \in Nat
    OBVIOUS
  <2>2. ASSUME k + 1 \in 0..n PROVE Fine(k + 1)
    <3>1. k \in 0..n /\ k + 1 # 0 /\ (k + 1) - 1 = k /\ k + 1 \in 1..n /\ k + 1 \notin 1..k
      BY <1>1, <2>1, <2>2
    <3>2. PICK p \in Paths : p = ps[k + 1]
      BY <1>1, <3>1
    <3>3. (Key[p] \in forced) \in BOOLEAN
      <4>1. \A a, S : (a \in S) \in BOOLEAN
        BY SMT
      <4> QED
        BY <4>1, Zenon
    <3>4. g[k + 1] = Add(g[k], p, Key[p] \in forced).r
      BY <1>3, <2>2, <3>1, <3>2 DEF AddTrace
    <3>5. Good(g[k]) /\ KeysOf(g[k]) \subseteq KeysOf(r) \cup First(k)
      BY <3>1
    <3>6. Key[p] \notin KeysOf(g[k])
      <4>1. Key[p] \notin KeysOf(r)
        BY <1>1, <3>1, <3>2
      <4>2. Key[p] \notin First(k)
        <5>1. \A i \in 1..k : i \in 1..n /\ i # k + 1
          BY <1>1, <2>1, <3>1
        <5> QED
          BY <1>1, <3>1, <3>2, <5>1 DEF Distinct
      <4> QED
        BY <3>5, <4>1, <4>2
    <3>7. Grows(g[k + 1], g[k], Key[p])
      BY <3>2, <3>3, <3>4, <3>5, <3>6, Added, Zenon
    <3>8. First(k) \subseteq First(k + 1) /\ Key[p] \in First(k + 1)
      <4>1. 1..k \subseteq 1..k + 1 /\ k + 1 \in 1..k + 1
        BY <2>1
      <4> QED
        BY <3>2, <4>1
    <3> HIDE DEF First
    <3> QED
      BY <3>5, <3>7, <3>8 DEF Grows
  <2> QED
    BY <2>1, <2>2
<1>7. T = Nat
  <2> HIDE DEF T
  <2>1. T \subseteq Nat
    BY DEF T
  <2> QED
    BY <1>5, <1>6, <2>1, Induction
<1>8. n \in 0..n
  OBVIOUS
<1>9. n \in T
  <2> HIDE DEF T
  <2> QED
    BY <1>7
<1>10. Fine(n)
  BY <1>8, <1>9
<1>11. First(n) = {Key[p] : p \in Range(ps)}
  BY <1>1 DEF Range
<1> QED
  BY <1>4, <1>10, <1>11

-------------------------------------------------------------------------------
(* The lists that are read off a retention, and the supplied one.              *)

ThoseTrace(g, s, S, n) ==
  g = [i \in 0..n |-> IF i = 0 THEN << >> ELSE IF s[i] \in S THEN Append(g[i - 1], s[i]) ELSE g[i - 1]]

\* The rounds exist.
LEMMA ThoseRounds ==
    ASSUME NEW s, NEW S, NEW n \in Nat
    PROVE  \E g : ThoseTrace(g, s, S, n)
<1> DEFINE Is(g, m) ==
             g = [i \in 0..m |-> IF i = 0 THEN << >> ELSE IF s[i] \in S THEN Append(g[i - 1], s[i]) ELSE g[i - 1]]
           T == {m \in Nat : \E g : Is(g, m)}
<1>1. 0 \in T
  <2>1. PICK g : g = [i \in 0..0 |-> << >>]
    OBVIOUS
  <2>2. Is(g, 0)
    BY <2>1
  <2> QED
    BY <2>2
<1>2. ASSUME NEW m \in T PROVE m + 1 \in T
  <2>1. m \in Nat /\ m + 1 \in Nat
    OBVIOUS
  <2>2. PICK g : Is(g, m)
    OBVIOUS
  <2>3. PICK next : next = IF s[m + 1] \in S THEN Append(g[m], s[m + 1]) ELSE g[m]
    OBVIOUS
  <2>4. PICK h : h = [i \in 0..m + 1 |-> IF i \in 0..m THEN g[i] ELSE next]
    OBVIOUS
  <2>5. ASSUME NEW i \in 0..m + 1
        PROVE  h[i] = IF i = 0 THEN << >> ELSE IF s[i] \in S THEN Append(h[i - 1], s[i]) ELSE h[i - 1]
    <3>1. CASE i = 0
      BY <2>1, <2>2, <2>4, <3>1
    <3>2. CASE i \in 1..m
      <4>1. i - 1 \in 0..m /\ i \in 0..m /\ i # 0
        BY <2>1, <3>2
      <4>2. h[i] = g[i] /\ h[i - 1] = g[i - 1]
        <5>1. i - 1 \in 0..m + 1
          BY <2>1, <3>2
        <5> QED
          BY <2>4, <4>1, <5>1
      <4>3. g[i] = IF s[i] \in S THEN Append(g[i - 1], s[i]) ELSE g[i - 1]
        BY <2>2, <4>1
      <4> QED
        BY <4>1, <4>2, <4>3
    <3>3. CASE i = m + 1
      <4>1. i - 1 = m /\ i \notin 0..m /\ m \in 0..m /\ i # 0
        BY <2>1, <3>3
      <4>2. h[i] = next /\ h[m] = g[m]
        BY <2>1, <2>4, <4>1
      <4> QED
        BY <2>3, <3>3, <4>1, <4>2
    <3> QED
      BY <2>1, <3>1, <3>2, <3>3
  <2>6. Is(h, m + 1)
    BY <2>4, <2>5
  <2> QED
    BY <2>1, <2>6
<1>3. T = Nat
  <2> HIDE DEF T
  <2>1. T \subseteq Nat
    BY DEF T
  <2> QED
    BY <1>1, <1>2, <2>1, Induction
<1> QED
  BY <1>3 DEF ThoseTrace

\* A part of a list without repetitions has none.
LEMMA ThoseKept ==
    ASSUME NEW s \in Seq(Paths), NEW S, NEW t, t = Those(s, S)
    PROVE  t \in Seq(Paths) /\ (Distinct(s) => Distinct(t))
<1>1. PICK n \in Nat : n = Len(s) /\ DOMAIN s = 1..n
  OBVIOUS
<1>2. PICK g : g = CHOOSE h : ThoseTrace(h, s, S, n)
  OBVIOUS
<1>3. ThoseTrace(g, s, S, n)
  BY <1>2, ThoseRounds, Zenon
<1>4. t = g[n]
  BY <1>1, <1>2 DEF Those, ThoseTrace
<1> DEFINE First(k) == {s[i] : i \in 1..k}
           Fine(k) == /\ g[k] \in Seq(Paths) /\ Range(g[k]) \subseteq First(k)
                      /\ Distinct(s) => Distinct(g[k])
           T == {k \in Nat : k \in 0..n => Fine(k)}
<1>5. 0 \in T
  <2>1. g[0] = << >>
    BY <1>1, <1>3 DEF ThoseTrace
  <2>2. Range(g[0]) = {} /\ g[0] \in Seq(Paths) /\ DOMAIN g[0] = {}
    BY <2>1 DEF Range
  <2> QED
    BY <2>2 DEF Distinct
<1>6. ASSUME NEW k \in T PROVE k + 1 \in T
  <2>1. k \in Nat /\ k + 1 \in Nat
    OBVIOUS
  <2>2. ASSUME k + 1 \in 0..n PROVE Fine(k + 1)
    <3>1. k \in 0..n /\ k + 1 # 0 /\ (k + 1) - 1 = k /\ k + 1 \in 1..n /\ k + 1 \notin 1..k
      BY <1>1, <2>1, <2>2
    <3>2. PICK p \in Paths : p = s[k + 1]
      BY <1>1, <3>1
    <3>3. g[k + 1] = IF p \in S THEN Append(g[k], p) ELSE g[k]
      BY <1>3, <2>2, <3>1, <3>2 DEF ThoseTrace
    <3>4. g[k] \in Seq(Paths) /\ Range(g[k]) \subseteq First(k) /\ (Distinct(s) => Distinct(g[k]))
      BY <3>1
    <3>5. First(k) \subseteq First(k + 1) /\ p \in First(k + 1)
      <4>1. 1..k \subseteq 1..k + 1 /\ k + 1 \in 1..k + 1
        BY <2>1
      <4> QED
        BY <3>2, <4>1
    <3>6. ASSUME Distinct(s) PROVE \A q \in First(k) : Key[q] # Key[p]
      <4>1. \A i \in 1..k : i \in 1..n /\ i # k + 1
        BY <1>1, <2>1, <3>1
      <4> QED
        BY <1>1, <3>1, <3>2, <3>6, <4>1 DEF Distinct
    <3>7. CASE p \in S
      <4>1. PICK a : a = g[k + 1]
        OBVIOUS
      <4>2. PICK b : b = g[k]
        OBVIOUS
      <4>3. a = Append(b, p)
        BY <3>3, <3>7, <4>1, <4>2
      <4>4. b \in Seq(Paths) /\ Range(b) \subseteq First(k) /\ (Distinct(s) => Distinct(b))
        BY <3>4, <4>2
      <4>5. /\ a \in Seq(Paths) /\ Len(a) = Len(b) + 1 /\ DOMAIN a = 1..Len(b) + 1
            /\ (\A i \in 1..Len(b) : a[i] = b[i]) /\ a[Len(b) + 1] = p /\ Range(a) = Range(b) \cup {p}
        BY <4>3, <4>4, Appended
      <4>6. DOMAIN b = 1..Len(b) /\ Len(b) \in Nat /\ \A i \in DOMAIN b : b[i] \in Range(b)
        BY <4>4, RangeIsFinite
      <4>7. ASSUME Distinct(s) PROVE \A i \in DOMAIN b : Key[b[i]] # Key[p]
        BY <3>6, <4>4, <4>6, <4>7
      <4>8. Distinct(s) => Distinct(a)
        <5> SUFFICES ASSUME Distinct(s), NEW i \in DOMAIN a, NEW j \in DOMAIN a, Key[a[i]] = Key[a[j]] PROVE i = j
          BY DEF Distinct
        <5>0. Distinct(b) /\ \A l \in DOMAIN b : Key[b[l]] # Key[p]
          BY <4>4, <4>7
        <5>1. i \in 1..Len(b) \/ i = Len(b) + 1
          BY <4>5, <4>6
        <5>2. j \in 1..Len(b) \/ j = Len(b) + 1
          BY <4>5, <4>6
        <5> QED
          BY <4>5, <4>6, <5>0, <5>1, <5>2 DEF Distinct
      <4> HIDE DEF First
      <4>9. Range(a) \subseteq First(k + 1)
        BY <3>5, <4>4, <4>5
      <4> QED
        BY <4>1, <4>5, <4>8, <4>9
    <3>8. CASE p \notin S
      <4>1. g[k + 1] = g[k]
        BY <3>3, <3>8
      <4> HIDE DEF First
      <4> QED
        BY <3>4, <3>5, <4>1
    <3> QED
      BY <3>7, <3>8
  <2> QED
    BY <2>1, <2>2
<1>7. T = Nat
  <2> HIDE DEF T
  <2>1. T \subseteq Nat
    BY DEF T
  <2> QED
    BY <1>5, <1>6, <2>1, Induction
<1>8. n \in 0..n
  OBVIOUS
<1>9. n \in T
  <2> HIDE DEF T
  <2> QED
    BY <1>7
<1>10. Fine(n)
  BY <1>8, <1>9
<1> QED
  BY <1>4, <1>10

\* Nor has its beginning.
LEMMA UptoKept ==
    ASSUME NEW s \in Seq(Paths), Distinct(s), NEW n \in Nat, NEW t, t = Upto(s, n)
    PROVE  t \in Seq(Paths) /\ Distinct(t)
<1>1. PICK m \in Nat : m = Len(s) /\ DOMAIN s = 1..m
  OBVIOUS
<1>2. PICK k \in 0..m : k = IF n < m THEN n ELSE m
  OBVIOUS
<1>3. t = SubSeq(s, 1, k)
  BY <1>1, <1>2 DEF Upto
<1>4. t \in Seq(Paths) /\ DOMAIN t = 1..k /\ \A i \in 1..k : t[i] = s[i]
  BY <1>1, <1>3
<1>5. 1..k \subseteq 1..m
  OBVIOUS
<1> QED
  BY <1>1, <1>4, <1>5 DEF Distinct

\* Nor has the list of what is retained.
LEMMA RetainedPaths ==
    ASSUME NEW r, Good(r), NEW t, t = RetainedSeq(r)
    PROVE  t \in Seq(Paths) /\ Distinct(t)
<1>1. /\ r.source \in Seq(Paths) /\ DOMAIN r.source = 1..Len(r.source) /\ Len(r.source) \in Nat
      /\ r.meta \in Seq(Entries) /\ DOMAIN r.meta = 1..Len(r.meta) /\ Len(r.meta) \in Nat
      /\ \A i \in DOMAIN r.source : r.source[i] \in Paths /\ r.source[i] \in Range(r.source)
      /\ \A i \in DOMAIN r.meta : r.meta[i] \in Entries /\ r.meta[i] \in Range(r.meta)
  BY GoodParts
<1>2. Distinct(r.source) /\ MetaDistinct(r.meta) /\ Apart(Range(r.source), Range(r.meta))
  BY AgreeParts DEF Good
<1>3. PICK a \in Seq(Paths) : a = r.source
  BY <1>1
<1>4. PICK n \in Nat, m \in Nat : n = Len(r.source) /\ m = Len(r.meta)
  BY <1>1
<1>5. PICK b : b = [i \in DOMAIN r.meta |-> r.meta[i].path]
  OBVIOUS
<1>6. b \in Seq(Paths) /\ Len(b) = m /\ DOMAIN b = 1..m /\ \A i \in 1..m : b[i] = r.meta[i].path
  BY <1>1, <1>4, <1>5 DEF Entries
<1>7. t = a \o b
  BY <1>3, <1>5 DEF RetainedSeq
<1>8. /\ t \in Seq(Paths) /\ DOMAIN t = 1..n + m
      /\ \A i \in 1..n + m : t[i] = IF i <= n THEN a[i] ELSE b[i - n]
  <2>1. Len(a) = n /\ DOMAIN a = 1..n
    BY <1>1, <1>3, <1>4
  <2>2. t \in Seq(Paths)
    BY <1>6, <1>7
  <2>3. Len(t) = n + m
    <3>1. \A x, y \in Seq(Paths) : Len(x \o y) = Len(x) + Len(y)
      OBVIOUS
    <3>2. Len(t) = Len(a) + Len(b)
      BY <1>6, <1>7, <3>1
    <3> QED
      BY <1>6, <2>1, <3>2
  <2>4. DOMAIN t = 1..n + m
    BY <2>2, <2>3
  <2>5. \A i \in 1..n + m : t[i] = IF i <= n THEN a[i] ELSE b[i - n]
    BY <1>6, <1>7, <2>1
  <2> QED
    BY <2>2, <2>4, <2>5
<1>9. \A i \in 1..n, j \in 1..m : Key[a[i]] # Key[b[j]]
  <2> TAKE i \in 1..n, j \in 1..m
  <2>1. r.source[i] \in Range(r.source) /\ a[i] = r.source[i]
    BY <1>1, <1>3, <1>4
  <2>2. r.meta[j] \in Range(r.meta) /\ b[j] = r.meta[j].path
    BY <1>1, <1>4, <1>6
  <2> QED
    BY <1>2, <2>1, <2>2 DEF Apart
<1>10. \A i, j \in 1..n : Key[a[i]] = Key[a[j]] => i = j
  BY <1>1, <1>2, <1>3, <1>4 DEF Distinct
<1>11. \A i, j \in 1..m : Key[b[i]] = Key[b[j]] => i = j
  <2>1. \A i \in 1..m : i \in DOMAIN r.meta /\ b[i] = r.meta[i].path
    BY <1>1, <1>4, <1>6
  <2> QED
    BY <1>2, <2>1 DEF MetaDistinct
<1>12. ASSUME NEW i \in 1..n + m, NEW j \in 1..n + m, Key[t[i]] = Key[t[j]] PROVE i = j
  <2>1. CASE i <= n /\ j <= n
    BY <1>8, <1>10, <1>12, <2>1
  <2>2. CASE i <= n /\ ~(j <= n)
    BY <1>8, <1>9, <1>12, <2>2
  <2>3. CASE ~(i <= n) /\ j <= n
    BY <1>8, <1>9, <1>12, <2>3
  <2>4. CASE ~(i <= n) /\ ~(j <= n)
    <3>1. i - n \in 1..m /\ j - n \in 1..m
      BY <2>4
    <3>2. Key[b[i - n]] = Key[b[j - n]]
      BY <1>8, <1>12, <2>4
    <3>3. i - n = j - n
      BY <1>11, <3>1, <3>2
    <3> QED
      BY <3>3
  <2> QED
    BY <2>1, <2>2, <2>3, <2>4
<1> QED
  BY <1>8, <1>12 DEF Distinct

\* The retention as it is made.
LEMMA EmptyIsGood ==
    ASSUME NEW l, l.entries \in Nat, l.capacity \in Nat, l.bytes \in Nat,
           NEW reasons, IsFiniteSet(reasons), NEW enforce \in BOOLEAN,
           NEW r, r = EmptyRetention(l, reasons, enforce)
    PROVE  Good(r) /\ KeysOf(r) = {} /\ r.lim = l /\ r.enforce = enforce
<1>1. /\ DOMAIN r = RetFields /\ r = [f \in RetFields |-> r[f]]
      /\ r.lim = l /\ r.reasons = reasons /\ r.enforce = enforce
      /\ r.source = << >> /\ r.indexed = FALSE /\ r.index = << >> /\ r.meta = << >>
      /\ r.counts = [s \in Sections |-> 0]
      /\ r.bytes = 0 /\ r.sourceBytes = 0 /\ r.ordinaryBytes = 0 /\ r.ordinaryCount = 0
      /\ r.broken = FALSE
  BY DEF EmptyRetention, RetFields
<1>2. Shape(r)
  <2>1. Formed(r)
    BY <1>1 DEF Formed
  <2>2. r.source \in Seq(Paths) /\ r.meta \in Seq(Entries)
    <3>1. r.source = << >> /\ r.meta = << >>
      BY <1>1
    <3>2. << >> \in Seq(Paths) /\ << >> \in Seq(Entries)
      OBVIOUS
    <3> QED
      BY <3>1, <3>2
  <2>3. r.counts \in [Sections -> Int]
    BY <1>1
  <2>4. r.lim.entries \in Nat /\ r.lim.capacity \in Nat /\ r.lim.bytes \in Nat /\ IsFiniteSet(r.reasons)
    BY <1>1
  <2>5. r.enforce \in BOOLEAN /\ r.indexed \in BOOLEAN /\ r.broken \in BOOLEAN
    BY <1>1
  <2>6. r.bytes \in Int /\ r.sourceBytes \in Int /\ r.ordinaryBytes \in Int /\ r.ordinaryCount \in Int
    BY <1>1
  <2> QED
    BY <2>1, <2>2, <2>3, <2>4, <2>5, <2>6 DEF Shape
<1>3. Range(r.source) = {} /\ Range(r.meta) = {} /\ Len(r.source) = 0 /\ Len(r.meta) = 0
  BY <1>1 DEF Range
<1>4. Distinct(r.source) /\ MetaDistinct(r.meta) /\ Apart({}, {})
  <2>1. DOMAIN r.source = {} /\ DOMAIN r.meta = {}
    BY <1>1
  <2> QED
    BY <2>1 DEF Distinct, MetaDistinct, Apart
<1>5. BytesOf({}) = 0 /\ Cardinality({}) = 0
  BY BytesAdd, FS_EmptySet
<1>6. PathsOf({}) = {} /\ OrdinaryOf({}) = {} /\ \A s \in Sections : OfSection({}, s) = {}
  BY DEF PathsOf, OrdinaryOf, OfSection
<1>7. Tallies(r, {}, 0, {})
  <2>1. ASSUME NEW s \in Sections PROVE r.counts[s] = Cardinality(OfSection({}, s)) + (IF s = "files" THEN 0 ELSE 0)
    <3>1. r.counts[s] = 0
      BY <1>1
    <3>2. Cardinality(OfSection({}, s)) = 0
      BY <1>5, <1>6
    <3> QED
      BY <3>1, <3>2
  <2>2. r.sourceBytes = BytesOf({}) /\ r.bytes = r.sourceBytes + BytesOf(PathsOf({}))
    <3>1. r.sourceBytes = 0 /\ r.bytes = 0
      BY <1>1
    <3>2. BytesOf({}) = 0 /\ BytesOf(PathsOf({})) = 0
      BY <1>5, <1>6
    <3> QED
      BY <3>1, <3>2
  <2>3. r.ordinaryCount = Cardinality(OrdinaryOf({})) /\ r.ordinaryBytes = BytesOf(PathsOf(OrdinaryOf({})))
    BY <1>1, <1>5, <1>6
  <2> QED
    BY <2>1, <2>2, <2>3 DEF Tallies
<1>8. Bounded(r)
  <2>1. RetainedCount(r) = 0
    BY <1>3 DEF RetainedCount
  <2>2. \A s \in Sections : r.counts[s] = 0
    BY <1>1
  <2>3. r.bytes <= r.lim.bytes /\ 0 <= r.lim.capacity /\ 0 <= r.lim.entries
    BY <1>1
  <2> QED
    BY <2>1, <2>2, <2>3 DEF Bounded
<1>9. CountersAgree(r)
  BY <1>1, <1>3, <1>4, <1>7, <1>8, AgreeParts
<1> QED
  BY <1>1, <1>2, <1>3, <1>9 DEF Good, KeysOf

-------------------------------------------------------------------------------
(* Part two, the inventory.  The walk: nothing it still has to list is retained yet. *)

\* A directory that the walk knows: the root, or an entry at a place it has passed
\* (seen[d] are the places of the entries of d that were passed).
Found(seen, d) ==
  d = RootDir \/ \E e \in Dirs : \E i \in seen[e] : i \in DOMAIN Tree[e] /\ Tree[e][i] = d

\* The walk has passed each entry once: what is left of the directory now, from place
\* n + 1 on, and all that is in the directories still to be read is new.
InWalkOrder(seen, now, n, entries, dirs, keys) ==
  /\ seen \in [Dirs -> SUBSET Nat] /\ now \in Dirs /\ n \in Nat
  /\ entries \in Seq(Dirs \cup Paths)
  /\ \A j \in DOMAIN entries : /\ n + j \in DOMAIN Tree[now] /\ entries[j] = Tree[now][n + j]
                               /\ n + j \notin seen[now]
  /\ dirs \in Seq(Dirs) /\ \A i, j \in DOMAIN dirs : dirs[i] = dirs[j] => i = j
  /\ \A i \in DOMAIN dirs : seen[dirs[i]] = {} /\ (entries # << >> => dirs[i] # now)
  /\ Found(seen, now) /\ \A i \in DOMAIN dirs : Found(seen, dirs[i])
  /\ \A d \in Dirs : seen[d] # {} => Found(seen, d)
  /\ \A k \in keys : \E d \in Dirs : \E i \in seen[d] :
       i \in DOMAIN Tree[d] /\ Tree[d][i] \in Paths /\ k = Key[Tree[d][i]]

\* The walk starts in order.
LEMMA WalkStarts ==
    ASSUME NEW n \in Nat
    PROVE  \E seen : InWalkOrder(seen, RootDir, n, << >>, <<RootDir>>, {})
<1>1. PICK seen : seen = [d \in Dirs |-> {}]
  OBVIOUS
<1>2. RootDir \in Dirs
  BY ListingAssumption
<1>3. seen \in [Dirs -> SUBSET Nat] /\ seen[RootDir] = {} /\ \A d \in Dirs : seen[d] = {}
  BY <1>1, <1>2
<1>4. <<RootDir>> \in Seq(Dirs) /\ DOMAIN <<RootDir>> = {1} /\ <<RootDir>>[1] = RootDir
  BY <1>2
<1>5. << >> \in Seq(Dirs \cup Paths) /\ DOMAIN << >> = {}
  OBVIOUS
<1> QED
  BY <1>2, <1>3, <1>4, <1>5 DEF InWalkOrder, Found

\* The directory tree lists every path once.
LEMMA Trees ==
    /\ RootDir \in Dirs /\ \A d \in Dirs : Tree[d] \in Seq(Dirs \cup Paths)
    /\ \A d \in Dirs : DOMAIN Tree[d] = 1..Len(Tree[d]) /\ Len(Tree[d]) \in Nat
    /\ \A d \in Dirs : \A i \in DOMAIN Tree[d] : Tree[d][i] # RootDir
    /\ \A d, e \in Dirs : \A i \in DOMAIN Tree[d], j \in DOMAIN Tree[e] :
         Tree[d][i] = Tree[e][j] => d = e /\ i = j
    /\ \A d, e \in Dirs : \A i \in DOMAIN Tree[d], j \in DOMAIN Tree[e] :
         Tree[d][i] \in Paths /\ Tree[e][j] \in Paths /\ Key[Tree[d][i]] = Key[Tree[e][j]] => d = e /\ i = j
<1>1. RootDir \in Dirs /\ \A d \in Dirs : Tree[d] \in Seq(Dirs \cup Paths)
  BY ListingAssumption
<1>2. \A d \in Dirs : DOMAIN Tree[d] = 1..Len(Tree[d]) /\ Len(Tree[d]) \in Nat
  BY <1>1
<1>3. ASSUME NEW d \in Dirs, NEW e \in Dirs, NEW i \in DOMAIN Tree[d], NEW j \in DOMAIN Tree[e]
      PROVE  /\ Tree[d][i] # RootDir
             /\ Tree[d][i] = Tree[e][j] => d = e /\ i = j
             /\ Tree[d][i] \in Paths /\ Tree[e][j] \in Paths /\ Key[Tree[d][i]] = Key[Tree[e][j]] => d = e /\ i = j
  BY ListingAssumption
<1> QED
  BY <1>1, <1>2, <1>3

\* The last of the directories is opened, or cannot be read.
LEMMA WalkOpened ==
    ASSUME NEW seen, NEW now, NEW n, NEW dirs, NEW keys,
           InWalkOrder(seen, now, n, << >>, dirs, keys), dirs # << >>
    PROVE  /\ InWalkOrder(seen, Last(dirs), 0, Tree[Last(dirs)], Front(dirs), keys)
           /\ InWalkOrder(seen, now, n, << >>, Front(dirs), keys)
<1>1. /\ seen \in [Dirs -> SUBSET Nat] /\ now \in Dirs /\ n \in Nat
      /\ dirs \in Seq(Dirs) /\ \A i, j \in DOMAIN dirs : dirs[i] = dirs[j] => i = j
      /\ \A i \in DOMAIN dirs : seen[dirs[i]] = {}
      /\ Found(seen, now) /\ \A i \in DOMAIN dirs : Found(seen, dirs[i])
      /\ \A d \in Dirs : seen[d] # {} => Found(seen, d)
      /\ \A k \in keys : \E d \in Dirs : \E i \in seen[d] :
           i \in DOMAIN Tree[d] /\ Tree[d][i] \in Paths /\ k = Key[Tree[d][i]]
  BY DEF InWalkOrder
<1>2. PICK m \in Nat : m = Len(dirs) /\ DOMAIN dirs = 1..m /\ m > 0
  BY <1>1
<1>3. PICK front : front = Front(dirs)
  OBVIOUS
<1>4. front \in Seq(Dirs) /\ DOMAIN front = 1..m - 1 /\ \A i \in 1..m - 1 : front[i] = dirs[i]
  BY <1>1, <1>2, <1>3 DEF Front
<1>5. PICK d \in Dirs : d = Last(dirs) /\ d = dirs[m] /\ m \in 1..m
  BY <1>1, <1>2 DEF Last
<1>6. \A i \in 1..m - 1 : i \in 1..m /\ i # m
  OBVIOUS
<1>7. /\ \A i, j \in DOMAIN front : front[i] = front[j] => i = j
      /\ \A i \in DOMAIN front : seen[front[i]] = {} /\ front[i] # d /\ Found(seen, front[i])
  BY <1>1, <1>2, <1>4, <1>5, <1>6, ZenonT(30)
<1>8. seen[d] = {} /\ Found(seen, d)
  BY <1>1, <1>2, <1>5
<1>9. Tree[d] \in Seq(Dirs \cup Paths) /\ \A j \in DOMAIN Tree[d] : 0 + j = j
  BY Trees
<1>10. InWalkOrder(seen, d, 0, Tree[d], front, keys)
  BY <1>1, <1>4, <1>7, <1>8, <1>9 DEF InWalkOrder
<1>11. << >> \in Seq(Dirs \cup Paths) /\ DOMAIN << >> = {}
  OBVIOUS
<1>12. InWalkOrder(seen, now, n, << >>, front, keys)
  BY <1>1, <1>4, <1>7, <1>11 DEF InWalkOrder
<1> QED
  BY <1>3, <1>5, <1>10, <1>12

\* The parts of the order of a walk.
LEMMA WalkParts ==
    ASSUME NEW seen, NEW now, NEW n, NEW entries, NEW dirs, NEW keys,
           InWalkOrder(seen, now, n, entries, dirs, keys)
    PROVE  /\ seen \in [Dirs -> SUBSET Nat] /\ now \in Dirs /\ n \in Nat
           /\ entries \in Seq(Dirs \cup Paths)
           /\ \A j \in DOMAIN entries : /\ n + j \in DOMAIN Tree[now] /\ entries[j] = Tree[now][n + j]
                                        /\ n + j \notin seen[now]
           /\ dirs \in Seq(Dirs) /\ \A i, j \in DOMAIN dirs : dirs[i] = dirs[j] => i = j
           /\ \A i \in DOMAIN dirs : seen[dirs[i]] = {} /\ (entries # << >> => dirs[i] # now)
           /\ Found(seen, now) /\ \A i \in DOMAIN dirs : Found(seen, dirs[i])
           /\ \A d \in Dirs : seen[d] # {} => Found(seen, d)
           /\ \A k \in keys : \E d \in Dirs : \E i \in seen[d] :
                i \in DOMAIN Tree[d] /\ Tree[d][i] \in Paths /\ k = Key[Tree[d][i]]
  BY DEF InWalkOrder

\* The next entry of the directory that is read, a new one, is passed.
LEMMA WalkPassed ==
    ASSUME NEW seen, NEW now, NEW n, NEW entries, NEW dirs, NEW keys,
           InWalkOrder(seen, now, n, entries, dirs, keys), entries # << >>,
           NEW e, e = Head(entries)
    PROVE  \E next : /\ InWalkOrder(next, now, n + 1, Tail(entries), dirs, keys)
                     /\ InWalkOrder(next, now, n + 1, << >>, dirs, keys)
                     /\ e \in Dirs => InWalkOrder(next, now, n + 1, Tail(entries), Append(dirs, e), keys)
                     /\ e \in Paths => /\ Key[e] \notin keys
                                       /\ InWalkOrder(next, now, n + 1, Tail(entries), dirs, keys \cup {Key[e]})
<1>1. /\ seen \in [Dirs -> SUBSET Nat] /\ now \in Dirs /\ n \in Nat
      /\ entries \in Seq(Dirs \cup Paths)
      /\ \A j \in DOMAIN entries : /\ n + j \in DOMAIN Tree[now] /\ entries[j] = Tree[now][n + j]
                                   /\ n + j \notin seen[now]
      /\ dirs \in Seq(Dirs) /\ \A i, j \in DOMAIN dirs : dirs[i] = dirs[j] => i = j
      /\ \A i \in DOMAIN dirs : seen[dirs[i]] = {} /\ dirs[i] # now
      /\ Found(seen, now) /\ \A i \in DOMAIN dirs : Found(seen, dirs[i])
      /\ \A d \in Dirs : seen[d] # {} => Found(seen, d)
      /\ \A k \in keys : \E d \in Dirs : \E i \in seen[d] :
           i \in DOMAIN Tree[d] /\ Tree[d][i] \in Paths /\ k = Key[Tree[d][i]]
  BY WalkParts
<1>2. PICK m \in Nat : m = Len(entries) /\ DOMAIN entries = 1..m /\ m > 0
  BY <1>1
<1>3. PICK rest : rest = Tail(entries)
  OBVIOUS
<1>4. rest \in Seq(Dirs \cup Paths) /\ DOMAIN rest = 1..m - 1 /\ \A j \in 1..m - 1 : rest[j] = entries[j + 1]
  BY <1>1, <1>2, <1>3
<1>5. PICK at1 \in Nat : at1 = n + 1
  BY <1>1
<1>6. at1 \in DOMAIN Tree[now] /\ e = Tree[now][at1] /\ at1 \notin seen[now]
  <2>1. 1 \in DOMAIN entries /\ e = entries[1]
    BY <1>1, <1>2
  <2> QED
    BY <1>1, <1>5, <2>1
<1>7. PICK next : next = [d \in Dirs |-> IF d = now THEN seen[d] \cup {at1} ELSE seen[d]]
  OBVIOUS
<1>8. /\ next \in [Dirs -> SUBSET Nat] /\ next[now] = seen[now] \cup {at1}
      /\ \A d \in Dirs : d # now => next[d] = seen[d]
      /\ \A d \in Dirs : seen[d] \subseteq next[d]
  BY <1>1, <1>5, <1>7
<1>9. \A d : Found(seen, d) => Found(next, d)
  BY <1>8 DEF Found
<1>10. Found(next, e)
  BY <1>1, <1>6, <1>8 DEF Found
<1>11. ~Found(seen, e)
  <2>1. e # RootDir
    BY <1>1, <1>6, Trees
  <2>2. ASSUME NEW d \in Dirs, NEW i \in seen[d], i \in DOMAIN Tree[d], Tree[d][i] = e PROVE FALSE
    <3>1. d = now /\ i = at1
      BY <1>1, <1>6, <2>2, Trees
    <3> QED
      BY <1>6, <2>2, <3>1
  <2> QED
    BY <2>1, <2>2 DEF Found
<1>12. \A i \in DOMAIN dirs : next[dirs[i]] = {} /\ dirs[i] # now /\ dirs[i] # e /\ Found(next, dirs[i])
  <2> TAKE i \in DOMAIN dirs
  <2>1. dirs[i] \in Dirs
    BY <1>1
  <2> QED
    BY <1>1, <1>8, <1>9, <1>11, <2>1
<1>13. \A j \in DOMAIN rest : /\ at1 + j \in DOMAIN Tree[now] /\ rest[j] = Tree[now][at1 + j]
                              /\ at1 + j \notin next[now]
  <2> TAKE j \in DOMAIN rest
  <2>1. j \in 1..m - 1 /\ j + 1 \in 1..m /\ n + (j + 1) = at1 + j /\ at1 + j # at1
    BY <1>1, <1>2, <1>4, <1>5
  <2>2. /\ n + (j + 1) \in DOMAIN Tree[now] /\ entries[j + 1] = Tree[now][n + (j + 1)]
        /\ n + (j + 1) \notin seen[now]
    BY <1>1, <1>2, <2>1
  <2> QED
    BY <1>4, <1>8, <2>1, <2>2
<1>14. \A d \in Dirs : next[d] # {} => Found(next, d)
  BY <1>1, <1>8, <1>9
<1>15. \A k \in keys : \E d \in Dirs : \E i \in next[d] :
         i \in DOMAIN Tree[d] /\ Tree[d][i] \in Paths /\ k = Key[Tree[d][i]]
  BY <1>1, <1>8
<1>16. << >> \in Seq(Dirs \cup Paths) /\ DOMAIN << >> = {}
  OBVIOUS
<1>17. InWalkOrder(next, now, at1, rest, dirs, keys) /\ InWalkOrder(next, now, at1, << >>, dirs, keys)
  BY <1>1, <1>4, <1>8, <1>9, <1>12, <1>13, <1>14, <1>15, <1>16 DEF InWalkOrder
<1>18. ASSUME e \in Dirs PROVE InWalkOrder(next, now, at1, rest, Append(dirs, e), keys)
  <2>1. PICK more : more = Append(dirs, e)
    OBVIOUS
  <2>2. PICK l \in Nat : l = Len(dirs) /\ DOMAIN dirs = 1..l
    BY <1>1
  <2>3. /\ more \in Seq(Dirs) /\ DOMAIN more = 1..l + 1 /\ more[l + 1] = e
        /\ \A i \in 1..l : more[i] = dirs[i]
    BY <1>1, <1>18, <2>1, <2>2, Appended
  <2>4. next[e] = {} /\ e # now
    BY <1>1, <1>8, <1>11, <1>18
  <2>5. \A i, j \in DOMAIN more : more[i] = more[j] => i = j
    <3> TAKE i, j \in DOMAIN more
    <3>1. (i \in 1..l \/ i = l + 1) /\ (j \in 1..l \/ j = l + 1)
      BY <2>2, <2>3
    <3> QED
      BY <1>1, <1>12, <2>2, <2>3, <3>1
  <2>6. \A i \in DOMAIN more : next[more[i]] = {} /\ more[i] # now /\ Found(next, more[i])
    <3> TAKE i \in DOMAIN more
    <3>1. i \in 1..l \/ i = l + 1
      BY <2>2, <2>3
    <3> QED
      BY <1>10, <1>12, <2>2, <2>3, <2>4, <3>1
  <2>7. InWalkOrder(next, now, at1, rest, more, keys)
    BY <1>1, <1>4, <1>8, <1>9, <1>13, <1>14, <1>15, <2>3, <2>5, <2>6 DEF InWalkOrder
  <2> QED
    BY <2>1, <2>7
<1>19. ASSUME e \in Paths
       PROVE  Key[e] \notin keys /\ InWalkOrder(next, now, at1, rest, dirs, keys \cup {Key[e]})
  <2>1. ASSUME Key[e] \in keys PROVE FALSE
    <3>1. PICK d \in Dirs : \E i \in seen[d] :
            i \in DOMAIN Tree[d] /\ Tree[d][i] \in Paths /\ Key[e] = Key[Tree[d][i]]
      BY <1>1, <2>1
    <3>2. PICK i \in seen[d] : i \in DOMAIN Tree[d] /\ Tree[d][i] \in Paths /\ Key[e] = Key[Tree[d][i]]
      BY <3>1
    <3>3. d = now /\ i = at1
      BY <1>1, <1>6, <1>19, <3>2, Trees, SMTT(30)
    <3> QED
      BY <1>6, <3>2, <3>3
  <2>2. \A k \in keys \cup {Key[e]} : \E d \in Dirs : \E i \in next[d] :
          i \in DOMAIN Tree[d] /\ Tree[d][i] \in Paths /\ k = Key[Tree[d][i]]
    <3> TAKE k \in keys \cup {Key[e]}
    <3>1. CASE k \in keys
      BY <1>15, <3>1
    <3>2. CASE k = Key[e]
      <4>1. at1 \in next[now]
        BY <1>8
      <4> QED
        BY <1>1, <1>6, <1>19, <3>2, <4>1
    <3> QED
      BY <3>1, <3>2
  <2>3. InWalkOrder(next, now, at1, rest, dirs, keys \cup {Key[e]})
    BY <1>1, <1>4, <1>8, <1>9, <1>12, <1>13, <1>14, <2>2 DEF InWalkOrder
  <2> QED
    BY <2>1, <2>3
<1> QED
  BY <1>3, <1>5, <1>17, <1>18, <1>19, Zenon

\* An order stays when less is retained.
LEMMA WalkFewer ==
    ASSUME NEW seen, NEW now, NEW n, NEW entries, NEW dirs, NEW keys,
           InWalkOrder(seen, now, n, entries, dirs, keys), NEW fewer, fewer \subseteq keys
    PROVE  InWalkOrder(seen, now, n, entries, dirs, fewer)
  BY DEF InWalkOrder

-------------------------------------------------------------------------------
(* Git's list: nothing that is still to come, in the output, with the reader or in *)
(* the queue, is retained yet.                                                 *)

\* A path that is not kept, and that Git does not list any more.
IsNew(p, sent, out, keys) ==
  Key[p] \notin keys /\ \A m \in DOMAIN out : m > sent => Key[out[m]] # Key[p]

\* What the reader has in hand and in the queue is new, and so is what Git lists later.
InGitOrder(queue, chunk, sent, out, keys) ==
  /\ queue \in Seq(Paths \cup {NoPath}) /\ chunk \in Paths \cup {NoPath} /\ sent \in Nat
  /\ \A i, j \in DOMAIN queue :
       queue[i] # NoPath /\ queue[j] # NoPath /\ Key[queue[i]] = Key[queue[j]] => i = j
  /\ \A i \in DOMAIN queue : queue[i] # NoPath =>
       IsNew(queue[i], sent, out, keys) /\ (chunk # NoPath => Key[queue[i]] # Key[chunk])
  /\ chunk # NoPath => IsNew(chunk, sent, out, keys)
  /\ \A m \in DOMAIN out : m > sent => Key[out[m]] \notin keys

\* Git's list starts in order, with nothing read.
LEMMA GitListStarts ==
    ASSUME NEW out
    PROVE  InGitOrder(<< >>, NoPath, 0, out, {})
<1>1. << >> \in Seq(Paths \cup {NoPath}) /\ DOMAIN << >> = {}
  OBVIOUS
<1> QED
  BY <1>1 DEF InGitOrder

\* The reader reads the next path,
LEMMA GitListReads ==
    ASSUME NEW queue, NEW chunk, NEW sent, NEW out \in Seq(Paths), NEW keys, Distinct(out),
           InGitOrder(queue, chunk, sent, out, keys), sent < Len(out)
    PROVE  InGitOrder(queue, out[sent + 1], sent + 1, out, keys)
<1>1. /\ queue \in Seq(Paths \cup {NoPath}) /\ sent \in Nat
      /\ \A i, j \in DOMAIN queue :
           queue[i] # NoPath /\ queue[j] # NoPath /\ Key[queue[i]] = Key[queue[j]] => i = j
      /\ \A i \in DOMAIN queue : queue[i] # NoPath => IsNew(queue[i], sent, out, keys)
      /\ \A m \in DOMAIN out : m > sent => Key[out[m]] \notin keys
  BY DEF InGitOrder
<1>2. PICK n \in Nat : n = Len(out) /\ DOMAIN out = 1..n
  OBVIOUS
<1>3. sent + 1 \in DOMAIN out /\ sent + 1 > sent /\ sent + 1 \in Nat
  BY <1>1, <1>2
<1>4. PICK p \in Paths : p = out[sent + 1]
  BY <1>3
<1>5. \A m \in DOMAIN out : m > sent + 1 => m > sent /\ m # sent + 1
  BY <1>1, <1>2
<1>6. IsNew(p, sent + 1, out, keys)
  BY <1>1, <1>3, <1>4, <1>5 DEF IsNew, Distinct
<1>7. \A i \in DOMAIN queue : queue[i] # NoPath => IsNew(queue[i], sent + 1, out, keys) /\ Key[queue[i]] # Key[p]
  BY <1>1, <1>3, <1>4, <1>5 DEF IsNew
<1>8. \A m \in DOMAIN out : m > sent + 1 => Key[out[m]] \notin keys
  BY <1>1, <1>5
<1> QED
  BY <1>1, <1>3, <1>4, <1>6, <1>7, <1>8 DEF InGitOrder

\* forgets the one it holds,
LEMMA GitListForgets ==
    ASSUME NEW queue, NEW chunk, NEW sent, NEW out, NEW keys, InGitOrder(queue, chunk, sent, out, keys)
    PROVE  InGitOrder(queue, NoPath, sent, out, keys)
  BY DEF InGitOrder

\* puts it in the queue,
LEMMA GitListPuts ==
    ASSUME NEW queue, NEW chunk, NEW sent, NEW out, NEW keys, InGitOrder(queue, chunk, sent, out, keys)
    PROVE  InGitOrder(Append(queue, chunk), NoPath, sent, out, keys)
<1>1. /\ queue \in Seq(Paths \cup {NoPath}) /\ chunk \in Paths \cup {NoPath} /\ sent \in Nat
      /\ \A i, j \in DOMAIN queue :
           queue[i] # NoPath /\ queue[j] # NoPath /\ Key[queue[i]] = Key[queue[j]] => i = j
      /\ \A i \in DOMAIN queue : queue[i] # NoPath =>
           IsNew(queue[i], sent, out, keys) /\ (chunk # NoPath => Key[queue[i]] # Key[chunk])
      /\ chunk # NoPath => IsNew(chunk, sent, out, keys)
      /\ \A m \in DOMAIN out : m > sent => Key[out[m]] \notin keys
  BY DEF InGitOrder
<1>2. PICK n \in Nat : n = Len(queue) /\ DOMAIN queue = 1..n
  BY <1>1
<1>3. PICK more : more = Append(queue, chunk)
  OBVIOUS
<1>4. /\ more \in Seq(Paths \cup {NoPath}) /\ DOMAIN more = 1..n + 1 /\ more[n + 1] = chunk
      /\ \A i \in 1..n : more[i] = queue[i]
  BY <1>1, <1>2, <1>3, Appended
<1>5. \A i, j \in DOMAIN more : more[i] # NoPath /\ more[j] # NoPath /\ Key[more[i]] = Key[more[j]] => i = j
  <2> TAKE i, j \in DOMAIN more
  <2>1. (i \in 1..n \/ i = n + 1) /\ (j \in 1..n \/ j = n + 1)
    BY <1>4
  <2> QED
    BY <1>1, <1>2, <1>4, <2>1
<1>6. \A i \in DOMAIN more : more[i] # NoPath => IsNew(more[i], sent, out, keys)
  <2> TAKE i \in DOMAIN more
  <2>1. i \in 1..n \/ i = n + 1
    BY <1>4
  <2> QED
    BY <1>1, <1>2, <1>4, <2>1
<1>7. InGitOrder(more, NoPath, sent, out, keys)
  BY <1>1, <1>4, <1>5, <1>6 DEF InGitOrder
<1> QED
  BY <1>3, <1>7

\* and the inventory takes it from there: it was not retained before.
LEMMA GitListTakes ==
    ASSUME NEW queue, NEW chunk, NEW sent, NEW out, NEW keys, InGitOrder(queue, chunk, sent, out, keys),
           queue # << >>, NEW p, p = Head(queue), p # NoPath
    PROVE  /\ p \in Paths /\ Key[p] \notin keys
           /\ \A more : more \subseteq keys \cup {Key[p]} => InGitOrder(Tail(queue), chunk, sent, out, more)
<1>1. /\ queue \in Seq(Paths \cup {NoPath}) /\ chunk \in Paths \cup {NoPath} /\ sent \in Nat
      /\ \A i, j \in DOMAIN queue :
           queue[i] # NoPath /\ queue[j] # NoPath /\ Key[queue[i]] = Key[queue[j]] => i = j
      /\ \A i \in DOMAIN queue : queue[i] # NoPath =>
           IsNew(queue[i], sent, out, keys) /\ (chunk # NoPath => Key[queue[i]] # Key[chunk])
      /\ chunk # NoPath => IsNew(chunk, sent, out, keys)
      /\ \A m \in DOMAIN out : m > sent => Key[out[m]] \notin keys
  BY DEF InGitOrder
<1>2. PICK n \in Nat : n = Len(queue) /\ DOMAIN queue = 1..n /\ n > 0
  BY <1>1
<1>3. PICK rest : rest = Tail(queue)
  OBVIOUS
<1>4. rest \in Seq(Paths \cup {NoPath}) /\ DOMAIN rest = 1..n - 1 /\ \A i \in 1..n - 1 : rest[i] = queue[i + 1]
  BY <1>1, <1>2, <1>3
<1>5. 1 \in DOMAIN queue /\ p = queue[1]
  BY <1>1, <1>2
<1>6. p \in Paths /\ IsNew(p, sent, out, keys) /\ (chunk # NoPath => Key[p] # Key[chunk])
  BY <1>1, <1>5
<1>7. \A i \in DOMAIN rest : i + 1 \in DOMAIN queue /\ i + 1 # 1 /\ rest[i] = queue[i + 1] /\ i \in Nat
  BY <1>2, <1>4
<1>8. ASSUME NEW more, more \subseteq keys \cup {Key[p]} PROVE InGitOrder(rest, chunk, sent, out, more)
  <2>1. \A i, j \in DOMAIN rest : rest[i] # NoPath /\ rest[j] # NoPath /\ Key[rest[i]] = Key[rest[j]] => i = j
    <3> TAKE i, j \in DOMAIN rest
    <3>1. i + 1 = j + 1 => i = j
      BY <1>7
    <3> QED
      BY <1>1, <1>7, <3>1
  <2>2. \A i \in DOMAIN rest : rest[i] # NoPath =>
          IsNew(rest[i], sent, out, more) /\ (chunk # NoPath => Key[rest[i]] # Key[chunk])
    <3> SUFFICES ASSUME NEW i \in DOMAIN rest, rest[i] # NoPath
                 PROVE  IsNew(rest[i], sent, out, more) /\ (chunk # NoPath => Key[rest[i]] # Key[chunk])
      OBVIOUS
    <3>1. IsNew(rest[i], sent, out, keys) /\ (chunk # NoPath => Key[rest[i]] # Key[chunk])
      BY <1>1, <1>7
    <3>2. Key[rest[i]] # Key[p]
      BY <1>1, <1>5, <1>7
    <3> QED
      BY <1>8, <3>1, <3>2 DEF IsNew
  <2>3. chunk # NoPath => IsNew(chunk, sent, out, more)
    BY <1>1, <1>6, <1>8 DEF IsNew
  <2>4. \A m \in DOMAIN out : m > sent => Key[out[m]] \notin more
    BY <1>1, <1>6, <1>8 DEF IsNew
  <2> QED
    BY <1>1, <1>4, <2>1, <2>2, <2>3, <2>4 DEF InGitOrder
<1> QED
  BY <1>3, <1>6, <1>8 DEF IsNew

-------------------------------------------------------------------------------
(* Reasons that are given along the way, and supplied inventories.             *)

\* The reasons that following "extends" may give.
FollowReasons == {"package-groups", "package-exports", "package-index"}

\* The reasons that following an extends value gives are among FollowReasons.
LEMMA PackageReasons ==
    ASSUME NEW value, NEW index
    PROVE  PackageGroups(value, index).reasons \subseteq FollowReasons /\ "reasons" \in DOMAIN PackageGroups(value, index)
  BY DEF PackageGroups, FollowReasons

LEMMA IndexReasons ==
    ASSUME NEW paths
    PROVE  PackageIndex(paths).reasons \subseteq FollowReasons
  BY DEF PackageIndex, FollowReasons

LEMMA ValueReasons ==
    ASSUME NEW value, NEW index, index.reasons \subseteq FollowReasons
    PROVE  ValueGroups(value, index).reasons \subseteq FollowReasons
<1>1. PICK g : g = PackageGroups(value, index)
  OBVIOUS
<1>2. g.reasons \subseteq FollowReasons /\ "reasons" \in DOMAIN g
  BY <1>1, PackageReasons
<1>3. ValueGroups(value, index).reasons \in {g.reasons \cup index.reasons, {}}
  BY <1>1, <1>2 DEF ValueGroups
<1> QED
  BY <1>2, <1>3

LEMMA ReachReasons ==
    ASSUME NEW paths, NEW groups, \A p \in Range(paths) : \A g \in groups[p] : g.reasons \subseteq FollowReasons
    PROVE  ReachableIn(paths, groups).reasons \subseteq FollowReasons
<1>1. \E all : ReachableIn(paths, groups).reasons =
                UNION {UNION {g.reasons : g \in groups[p]} : p \in all \cap Range(paths)}
  BY DEF ReachableIn
<1> QED
  BY <1>1

LEMMA ReachableReasons ==
    ASSUME NEW listed, NEW bad
    PROVE  Reachable(listed, bad).reasons \subseteq FollowReasons
<1> DEFINE Values(p) == IF p \in bad THEN << >> ELSE Extends[p]
           Groups(p, index) == {ValueGroups(Values(p)[i], index) : i \in DOMAIN Values(p)}
<1>1. PICK paths : paths = Upto(listed, ScanLimit)
  OBVIOUS
<1>2. PICK index : index = PackageIndex(Range(paths))
  OBVIOUS
<1>3. PICK groups : groups = [p \in Range(paths) |-> Groups(p, index)]
  OBVIOUS
<1>4. Reachable(listed, bad) = ReachableIn(paths, groups)
  BY <1>1, <1>2, <1>3 DEF Reachable
<1>5. index.reasons \subseteq FollowReasons
  BY <1>2, IndexReasons
<1>6. ASSUME NEW p \in Range(paths), NEW g \in groups[p] PROVE g.reasons \subseteq FollowReasons
  <2>1. g \in Groups(p, index)
    BY <1>3
  <2>2. PICK i \in DOMAIN Values(p) : g = ValueGroups(Values(p)[i], index)
    BY <2>1
  <2> QED
    BY <1>5, <2>2, ValueReasons
<1> QED
  BY <1>4, <1>6, ReachReasons

\* There are finitely many.
LEMMA FollowFinite == \A R : R \subseteq FollowReasons => IsFiniteSet(R)
<1>1. IsFiniteSet(FollowReasons)
  <2>1. IsFiniteSet({}) /\ {} \cup {"package-groups"} = {"package-groups"}
    BY FS_EmptySet
  <2>2. IsFiniteSet({"package-groups"})
    BY <2>1, FS_AddElement
  <2>3. IsFiniteSet({"package-groups"} \cup {"package-exports"})
    BY <2>2, FS_AddElement
  <2>4. IsFiniteSet(({"package-groups"} \cup {"package-exports"}) \cup {"package-index"})
    BY <2>3, FS_AddElement
  <2>5. FollowReasons = ({"package-groups"} \cup {"package-exports"}) \cup {"package-index"}
    BY DEF FollowReasons
  <2> QED
    BY <2>4, <2>5
<1> QED
  BY <1>1, FS_Subset

\* The retention of a supplied list.
LEMMA SuppliedIsGood ==
    ASSUME lim \in Limits, order \in Orders, NEW bad
    PROVE  Good(SuppliedRetention(bad))
<1>1. lim.entries \in Nat /\ lim.capacity \in Nat /\ lim.bytes \in Nat
  BY InventoryAssumption
<1>2. order \in Seq(Paths) /\ Distinct(order)
  BY ListingAssumption DEF Distinct
<1>3. ScanLimit \in Nat
  <2>1. PICK a \in Nat, b \in Nat : a = lim.capacity /\ b = lim.entries
    BY <1>1
  <2>2. \E x \in {a, b} : \A y \in {a, b} : x >= y
    OBVIOUS
  <2>3. Max({a, b}) \in {a, b}
    BY <2>2, Zenon DEF Max
  <2> QED
    BY <2>1, <2>3 DEF ScanLimit
<1>4. PICK scanned : scanned = Upto(order, ScanLimit)
  OBVIOUS
<1>5. scanned \in Seq(Paths) /\ Distinct(scanned)
  BY <1>2, <1>3, <1>4, UptoKept
<1>6. PICK lookup : lookup = SuppliedLookup(scanned)
  OBVIOUS
<1>7. PICK reach : reach = Reachable(lookup.paths, bad)
  OBVIOUS
<1>8. PICK wanted : wanted = Those(scanned, {p \in Paths : Candidate(p) \/ Key[p] \in reach.keys})
  OBVIOUS
<1>9. wanted \in Seq(Paths) /\ Distinct(wanted)
  BY <1>5, <1>8, ThoseKept
<1>10. PICK more : more = (IF Len(order) > ScanLimit THEN {"scan"} ELSE {})
                       \cup (IF lookup.limited THEN {"lookup"} ELSE {})
                       \cup (IF Len(wanted) > lim.capacity THEN {"capacity"} ELSE {})
  OBVIOUS
<1>11. PICK reasons : reasons = reach.reasons \cup more
  OBVIOUS
<1>12. IsFiniteSet(reasons)
  <2>1. IsFiniteSet(reach.reasons)
    BY <1>7, ReachableReasons, FollowFinite
  <2>2. more \subseteq ({"scan"} \cup {"lookup"}) \cup {"capacity"}
    BY <1>10
  <2>3. IsFiniteSet({"scan"}) /\ IsFiniteSet({"lookup"}) /\ IsFiniteSet({"capacity"})
    BY FS_Singleton
  <2>4. IsFiniteSet({"scan"} \cup {"lookup"})
    BY <2>3, FS_Union
  <2>5. IsFiniteSet(({"scan"} \cup {"lookup"}) \cup {"capacity"})
    BY <2>3, <2>4, FS_Union
  <2>6. IsFiniteSet(more)
    BY <2>2, <2>5, FS_Subset
  <2> QED
    BY <1>11, <2>1, <2>6, FS_Union
<1>13. PICK empty : empty = EmptyRetention(lim, reasons, FALSE)
  OBVIOUS
<1>14. Good(empty) /\ KeysOf(empty) = {}
  BY <1>1, <1>12, <1>13, EmptyIsGood
<1>15. PICK ps : ps = Upto(wanted, lim.capacity)
  OBVIOUS
<1>16. ps \in Seq(Paths) /\ Distinct(ps)
  BY <1>1, <1>9, <1>15, UptoKept
<1>17. Good(AddEach(empty, ps, reach.keys))
  BY <1>14, <1>16, AddedEach
<1>18. reach.reasons \cup (IF Len(order) > ScanLimit THEN {"scan"} ELSE {})
         \cup (IF lookup.limited THEN {"lookup"} ELSE {})
         \cup (IF Len(wanted) > lim.capacity THEN {"capacity"} ELSE {}) = reasons
  BY <1>10, <1>11
<1>19. SuppliedRetention(bad) = AddEach(empty, ps, reach.keys)
  BY <1>4, <1>6, <1>7, <1>8, <1>13, <1>15, <1>18, Zenon DEF SuppliedRetention
<1> QED
  BY <1>17, <1>19

\* The retention of a repository is filled again.
LEMMA FilledAgain ==
    ASSUME lim \in Limits, NEW r, Good(r)
    PROVE  Good(AddEach(EmptyRetention(lim, r.reasons, TRUE), RetainedSeq(r), {}))
<1>1. lim.entries \in Nat /\ lim.capacity \in Nat /\ lim.bytes \in Nat
  BY InventoryAssumption
<1>2. PICK paths : paths = RetainedSeq(r)
  OBVIOUS
<1>3. paths \in Seq(Paths) /\ Distinct(paths)
  BY <1>2, RetainedPaths
<1>4. IsFiniteSet(r.reasons)
  BY DEF Good, Shape
<1>5. PICK empty : empty = EmptyRetention(lim, r.reasons, TRUE)
  OBVIOUS
<1>6. Good(empty) /\ KeysOf(empty) = {}
  BY <1>1, <1>4, <1>5, EmptyIsGood
<1>7. Good(AddEach(empty, paths, {}))
  BY <1>3, <1>6, AddedEach
<1> QED
  BY <1>2, <1>5, <1>7

-------------------------------------------------------------------------------
(* The invariant of the inventory, and its steps.                              *)

GitFields == {"reader", "child", "queue", "chunk", "sent", "bytes", "relevant", "stop"}
WalkFields == {"dirs", "entries", "visited", "pending", "inspect", "unread"}
ChkFields == {"child", "worker", "path", "answer", "failed"}

GitInOrder == ~git.stop /\ InGitOrder(git.queue, git.chunk, git.sent, GitOutput, KeysOf(ret))
WalkInOrder ==
  \E seen, now, n : InWalkOrder(seen, now, n, walk.entries, walk.dirs, KeysOf(ret))

\* What the inventory is made of while it is taken; it depends on nothing else.
Inventoried ==
  /\ lim \in Limits /\ order \in Orders
  /\ DOMAIN git = GitFields /\ DOMAIN walk = WalkFields /\ DOMAIN chk = ChkFields
  /\ Good(ret)
  /\ pc = "git" => GitInOrder
  /\ pc = "walk" => WalkInOrder
  /\ pc = "asking" => chk.path \in Paths
  /\ pc = "manifest" => inv.paths \in Seq(Paths) /\ IsFiniteSet(inv.reasons)

LEMMA TickKeeps == Inventoried /\ Tick => Inventoried'
  BY DEF Inventoried, Tick, GitInOrder, WalkInOrder, GitOutput

\* Before it starts and when it has been given up, an inventory is in order.
LEMMA NoneIsGood == Good(NoRet)
<1>1. PICK l : l = [entries |-> 0, capacity |-> 0, bytes |-> 0]
  OBVIOUS
<1>2. l.entries \in Nat /\ l.capacity \in Nat /\ l.bytes \in Nat /\ IsFiniteSet({})
  BY <1>1, FS_EmptySet
<1>3. NoRet = EmptyRetention(l, {}, FALSE)
  BY <1>1 DEF NoRet
<1> QED
  BY <1>2, <1>3, EmptyIsGood

LEMMA NoneHave == DOMAIN NoGit = GitFields /\ DOMAIN NoWalk = WalkFields /\ DOMAIN NoChk = ChkFields
  BY DEF NoGit, NoWalk, NoChk, GitFields, WalkFields, ChkFields

LEMMA StoppedHave ==
    ASSUME DOMAIN git = GitFields, DOMAIN chk = ChkFields
    PROVE  DOMAIN StoppedGit = GitFields /\ DOMAIN StoppedChk = ChkFields /\ DOMAIN AbortedChk = ChkFields
<1>1. DOMAIN StoppedGit = GitFields
  BY NoneHave DEF StoppedGit
<1>2. DOMAIN StoppedChk = ChkFields
  BY DEF StoppedChk
<1>3. DOMAIN AbortedChk = ChkFields
  BY DEF AbortedChk
<1> QED
  BY <1>1, <1>2, <1>3

\* The initial states, and then every step of the inventory.
LEMMA InventoryStarts == Init => Inventoried
<1> SUFFICES ASSUME Init PROVE Inventoried
  OBVIOUS
<1>1. lim \in Limits /\ order \in Orders /\ pc = "start" /\ ret = NoRet
      /\ git = NoGit /\ walk = NoWalk /\ chk = NoChk
  BY DEF Init, InvInit
<1> QED
  BY <1>1, NoneIsGood, NoneHave DEF Inventoried

LEMMA OverdueKeeps == Inventoried /\ Overdue => Inventoried'
<1> SUFFICES ASSUME Inventoried, Overdue PROVE Inventoried'
  OBVIOUS
<1>1. lim \in Limits /\ order \in Orders /\ DOMAIN git = GitFields /\ DOMAIN chk = ChkFields
  BY DEF Inventoried
<1>2. /\ pc' = "failed" /\ ret' = NoRet /\ git' = StoppedGit /\ walk' = NoWalk
      /\ chk' \in {AbortedChk, StoppedChk} /\ lim' = lim /\ order' = order
  BY DEF Overdue
<1> QED
  BY <1>1, <1>2, NoneIsGood, NoneHave, StoppedHave DEF Inventoried

\* The paths and the reasons that are listed.
LEMMA ListedWell ==
    ASSUME NEW r, Good(r), Listed(r)
    PROVE  inv'.paths \in Seq(Paths) /\ IsFiniteSet(inv'.reasons)
<1>1. inv'.paths = RetainedSeq(r) /\ inv'.reasons = r.reasons
  BY DEF Listed
<1>2. IsFiniteSet(r.reasons)
  BY DEF Good, Shape
<1> QED
  BY <1>1, <1>2, RetainedPaths

LEMMA SupplyKeeps == Inventoried /\ Supply => Inventoried'
<1> SUFFICES ASSUME Inventoried, Supply PROVE Inventoried'
  OBVIOUS
<1>1. lim \in Limits /\ order \in Orders
  BY DEF Inventoried
<1>2. PICK bad \in SUBSET Extending : ret' = SuppliedRetention(bad) /\ Listed(SuppliedRetention(bad))
  BY DEF Supply
<1>3. Good(ret') /\ inv'.paths \in Seq(Paths) /\ IsFiniteSet(inv'.reasons)
  BY <1>1, <1>2, SuppliedIsGood, ListedWell
<1>4. pc' = "manifest" /\ UNCHANGED <<order, lim, git, walk, chk>>
  BY DEF Supply
<1> QED
  BY <1>1, <1>3, <1>4 DEF Inventoried

LEMMA WalkKeepsStart ==
    ASSUME Inventoried, StartWalk, UNCHANGED <<order, lim, chk>>, DOMAIN git' = GitFields
    PROVE  Inventoried'
<1>1. lim \in Limits /\ order \in Orders /\ DOMAIN chk = ChkFields
  BY DEF Inventoried
<1>2. pc' = "walk" /\ ret' = EmptyRetention(lim, {}, TRUE) /\ walk' = [NoWalk EXCEPT !.dirs = <<RootDir>>]
  BY DEF StartWalk
<1>3. lim.entries \in Nat /\ lim.capacity \in Nat /\ lim.bytes \in Nat /\ IsFiniteSet({})
  BY <1>1, InventoryAssumption, FS_EmptySet
<1>4. Good(ret') /\ KeysOf(ret') = {}
  BY <1>2, <1>3, EmptyIsGood
<1>5. DOMAIN walk' = WalkFields /\ walk'.entries = << >> /\ walk'.dirs = <<RootDir>>
  BY <1>2 DEF NoWalk, WalkFields
<1>6. \E seen : InWalkOrder(seen, RootDir, 0, << >>, <<RootDir>>, {})
  BY WalkStarts
<1>7. WalkInOrder'
  BY <1>4, <1>5, <1>6 DEF WalkInOrder
<1> QED
  BY <1>1, <1>2, <1>4, <1>5, <1>7 DEF Inventoried

LEMMA GitStartKeeps == Inventoried /\ GitStart => Inventoried'
<1> SUFFICES ASSUME Inventoried, GitStart PROVE Inventoried'
  OBVIOUS
<1>1. /\ lim \in Limits /\ order \in Orders
      /\ DOMAIN git = GitFields /\ DOMAIN walk = WalkFields /\ DOMAIN chk = ChkFields
  BY DEF Inventoried
<1>2. UNCHANGED <<order, lim, inv, chk>>
  BY DEF GitStart
<1>3. CASE /\ pc' = "git" /\ ret' = EmptyRetention(lim, {}, TRUE)
           /\ git' = [NoGit EXCEPT !.reader = "reading", !.child = "running", !.stop = FALSE]
           /\ UNCHANGED <<walk, trouble>>
  <2>1. lim.entries \in Nat /\ lim.capacity \in Nat /\ lim.bytes \in Nat /\ IsFiniteSet({})
    BY <1>1, InventoryAssumption, FS_EmptySet
  <2>2. Good(ret') /\ KeysOf(ret') = {}
    BY <1>3, <2>1, EmptyIsGood
  <2>3. /\ DOMAIN git' = GitFields /\ git'.queue = << >> /\ git'.chunk = NoPath /\ git'.sent = 0
        /\ ~git'.stop
    BY <1>3 DEF NoGit, GitFields
  <2>4. InGitOrder(<< >>, NoPath, 0, GitOutput', {})
    BY GitListStarts
  <2>5. GitInOrder'
    BY <2>2, <2>3, <2>4 DEF GitInOrder
  <2> QED
    BY <1>1, <1>2, <1>3, <2>2, <2>3, <2>5 DEF Inventoried
<1>4. CASE StartWalk /\ Noticed /\ UNCHANGED git
  BY <1>1, <1>2, <1>4, WalkKeepsStart
<1> QED
  BY <1>3, <1>4 DEF GitStart

-------------------------------------------------------------------------------
(* The steps that take Git's list.                                             *)

LEMMA GitLists ==
    ASSUME order \in Orders
    PROVE  GitOutput \in Seq(Paths) /\ Distinct(GitOutput)
<1>1. order \in Seq(Paths) /\ Distinct(order)
  BY ListingAssumption DEF Distinct
<1> QED
  BY <1>1, ThoseKept DEF GitOutput

\* Both kinds of inventory hand over to following the extends values.
LEMMA ExtendsStarts ==
    ASSUME Inventoried, NEW r, Good(r), NEW backed, StartExtends(r, backed), UNCHANGED <<order, lim, chk>>,
           DOMAIN git' = GitFields, DOMAIN walk' = WalkFields
    PROVE  Inventoried'
<1>1. lim \in Limits /\ order \in Orders /\ DOMAIN chk = ChkFields
  BY DEF Inventoried
<1>2. pc' = "extends" /\ ret' = AddEach(EmptyRetention(lim, r.reasons, TRUE), RetainedSeq(r), {})
  BY DEF StartExtends
<1>3. Good(ret')
  BY <1>1, <1>2, FilledAgain
<1> QED
  BY <1>1, <1>2, <1>3 DEF Inventoried

\* The process and the reader of Git.
LEMMA ReaderKeeps ==
    ASSUME Inventoried, DOMAIN git' = GitFields, pc = "git" => GitInOrder',
           UNCHANGED <<pc, order, lim, ret, inv, walk, chk>>
    PROVE  Inventoried'
  BY DEF Inventoried, WalkInOrder

\* The steps of Git's child process, of the reader thread and of the inventory that
\* waits for them.
LEMMA ExitKeeps == Inventoried /\ GitExits => Inventoried'
<1> SUFFICES ASSUME Inventoried, GitExits PROVE Inventoried'
  OBVIOUS
<1>1. DOMAIN git = GitFields
  BY DEF Inventoried
<1>2. PICK child : git' = [git EXCEPT !.child = child]
  BY DEF GitExits
<1>3. /\ DOMAIN git' = GitFields /\ git'.queue = git.queue /\ git'.chunk = git.chunk
      /\ git'.sent = git.sent /\ git'.stop = git.stop
  BY <1>1, <1>2 DEF GitFields
<1>4. UNCHANGED <<pc, order, lim, ret, inv, walk, chk>>
  BY DEF GitExits
<1>5. pc = "git" => GitInOrder'
  BY <1>3, <1>4 DEF Inventoried, GitInOrder, GitOutput
<1> QED
  BY <1>3, <1>4, <1>5, ReaderKeeps

LEMMA ReadKeeps == Inventoried /\ ReaderReads => Inventoried'
<1> SUFFICES ASSUME Inventoried, ReaderReads PROVE Inventoried'
  OBVIOUS
<1>1. DOMAIN git = GitFields /\ order \in Orders
  BY DEF Inventoried
<1>2. UNCHANGED <<pc, order, lim, ret, inv, walk, chk>>
  BY DEF ReaderReads
<1>3. GitOutput' = GitOutput /\ KeysOf(ret') = KeysOf(ret)
  BY <1>2 DEF GitOutput
<1>4. CASE /\ git.sent < Len(GitOutput)
           /\ git' = [git EXCEPT !.reader = "putting", !.chunk = GitOutput[git.sent + 1], !.sent = @ + 1]
  <2>1. /\ DOMAIN git' = GitFields /\ git'.queue = git.queue /\ git'.chunk = GitOutput[git.sent + 1]
        /\ git'.sent = git.sent + 1 /\ git'.stop = git.stop
    BY <1>1, <1>4 DEF GitFields
  <2>2. ASSUME pc = "git" PROVE GitInOrder'
    <3>1. ~git.stop /\ InGitOrder(git.queue, git.chunk, git.sent, GitOutput, KeysOf(ret))
      BY <2>2 DEF Inventoried, GitInOrder
    <3>2. InGitOrder(git.queue, GitOutput[git.sent + 1], git.sent + 1, GitOutput, KeysOf(ret))
      BY <1>1, <1>4, <3>1, GitLists, GitListReads
    <3> QED
      BY <1>3, <2>1, <3>1, <3>2 DEF GitInOrder
  <2> QED
    BY <1>2, <2>1, <2>2, ReaderKeeps
<1>5. CASE git' = [git EXCEPT !.reader = "putting", !.chunk = NoPath]
  <2>1. /\ DOMAIN git' = GitFields /\ git'.queue = git.queue /\ git'.chunk = NoPath
        /\ git'.sent = git.sent /\ git'.stop = git.stop
    BY <1>1, <1>5 DEF GitFields
  <2>2. ASSUME pc = "git" PROVE GitInOrder'
    <3>1. ~git.stop /\ InGitOrder(git.queue, git.chunk, git.sent, GitOutput, KeysOf(ret))
      BY <2>2 DEF Inventoried, GitInOrder
    <3>2. InGitOrder(git.queue, NoPath, git.sent, GitOutput, KeysOf(ret))
      BY <3>1, GitListForgets
    <3> QED
      BY <1>3, <2>1, <3>1, <3>2 DEF GitInOrder
  <2> QED
    BY <1>2, <2>1, <2>2, ReaderKeeps
<1> QED
  BY <1>4, <1>5 DEF ReaderReads

LEMMA PutKeeps == Inventoried /\ ReaderPuts => Inventoried'
<1> SUFFICES ASSUME Inventoried, ReaderPuts PROVE Inventoried'
  OBVIOUS
<1>1. DOMAIN git = GitFields
  BY DEF Inventoried
<1>2. UNCHANGED <<pc, order, lim, ret, inv, walk, chk>>
  BY DEF ReaderPuts
<1>3. GitOutput' = GitOutput /\ KeysOf(ret') = KeysOf(ret)
  BY <1>2 DEF GitOutput
<1>4. /\ DOMAIN git' = GitFields /\ git'.queue = Append(git.queue, git.chunk) /\ git'.chunk = NoPath
      /\ git'.sent = git.sent /\ git'.stop = git.stop
  BY <1>1 DEF ReaderPuts, GitFields
<1>5. ASSUME pc = "git" PROVE GitInOrder'
  <2>1. ~git.stop /\ InGitOrder(git.queue, git.chunk, git.sent, GitOutput, KeysOf(ret))
    BY <1>5 DEF Inventoried, GitInOrder
  <2>2. InGitOrder(Append(git.queue, git.chunk), NoPath, git.sent, GitOutput, KeysOf(ret))
    BY <2>1, GitListPuts
  <2> QED
    BY <1>3, <1>4, <2>1, <2>2 DEF GitInOrder
<1> QED
  BY <1>2, <1>4, <1>5, ReaderKeeps

LEMMA StopKeeps == Inventoried /\ ReaderStops => Inventoried'
<1> SUFFICES ASSUME Inventoried, ReaderStops PROVE Inventoried'
  OBVIOUS
<1>1. UNCHANGED <<pc, order, lim, ret, inv, walk, chk>> /\ git.stop /\ git' = NoGit
  BY DEF ReaderStops
<1>2. pc # "git"
  BY <1>1 DEF Inventoried, GitInOrder
<1> QED
  BY <1>1, <1>2, NoneHave, ReaderKeeps

LEMMA TakeKeeps == Inventoried /\ GitTakes => Inventoried'
<1> SUFFICES ASSUME Inventoried, GitTakes PROVE Inventoried'
  OBVIOUS
<1>1. /\ lim \in Limits /\ order \in Orders
      /\ DOMAIN git = GitFields /\ DOMAIN walk = WalkFields /\ DOMAIN chk = ChkFields /\ Good(ret)
  BY DEF Inventoried
<1>2. pc = "git" /\ git.queue # << >> /\ UNCHANGED <<order, lim, walk, chk>>
  BY DEF GitTakes
<1>3. GitOutput' = GitOutput
  BY <1>2 DEF GitOutput
<1>4. ~git.stop /\ InGitOrder(git.queue, git.chunk, git.sent, GitOutput, KeysOf(ret))
  BY <1>2 DEF Inventoried, GitInOrder
<1>5. PICK p : p = Head(git.queue)
  OBVIOUS
<1>6. PICK bytes : bytes = git.bytes + Bytes[p]
  OBVIOUS
<1>7. CASE p = NoPath
  <2>1. pc' = "gitwait" /\ git' = [git EXCEPT !.queue = Tail(@)] /\ UNCHANGED ret
    BY <1>5, <1>7 DEF GitTakes
  <2>2. DOMAIN git' = GitFields
    BY <1>1, <2>1
  <2> QED
    BY <1>1, <1>2, <2>1, <2>2 DEF Inventoried
<1>8. CASE p # NoPath /\ (bytes > lim.output \/ (p \notin Ignored /\ git.relevant >= lim.capacity))
  <2>1. /\ StartExtends(AddReason(ret, IF bytes > lim.output THEN "output" ELSE "capacity"), TRUE)
        /\ git' = StoppedGit
    BY <1>5, <1>6, <1>8 DEF GitTakes
  <2>2. PICK r : r = AddReason(ret, IF bytes > lim.output THEN "output" ELSE "capacity")
    OBVIOUS
  <2>3. Good(r)
    BY <1>1, <2>2, ReasonAdded
  <2> QED
    BY <1>1, <1>2, <2>1, <2>2, <2>3, StoppedHave, ExtendsStarts
<1>9. CASE p # NoPath /\ ~(bytes > lim.output \/ (p \notin Ignored /\ git.relevant >= lim.capacity))
  <2>1. /\ git' = [git EXCEPT !.queue = Tail(@), !.bytes = bytes,
                              !.relevant = @ + (IF p \in Ignored THEN 0 ELSE 1)]
        /\ ret' = IF p \in Ignored THEN ret ELSE Add(ret, p, FALSE).r
        /\ UNCHANGED <<pc, inv>>
    BY <1>5, <1>6, <1>9 DEF GitTakes
  <2>2. /\ DOMAIN git' = GitFields /\ git'.queue = Tail(git.queue) /\ git'.chunk = git.chunk
        /\ git'.sent = git.sent /\ git'.stop = git.stop
    BY <1>1, <2>1 DEF GitFields
  <2>3. /\ p \in Paths /\ Key[p] \notin KeysOf(ret)
        /\ \A more : more \subseteq KeysOf(ret) \cup {Key[p]} =>
             InGitOrder(Tail(git.queue), git.chunk, git.sent, GitOutput, more)
    BY <1>2, <1>4, <1>5, <1>9, GitListTakes
  <2>4. Good(ret') /\ KeysOf(ret') \subseteq KeysOf(ret) \cup {Key[p]}
    <3>1. CASE p \in Ignored
      BY <1>1, <2>1, <3>1
    <3>2. CASE p \notin Ignored
      <4>1. Grows(Add(ret, p, FALSE).r, ret, Key[p])
        BY <1>1, <2>3, Added
      <4> QED
        BY <2>1, <3>2, <4>1 DEF Grows
    <3> QED
      BY <3>1, <3>2
  <2>5. GitInOrder'
    BY <1>3, <1>4, <2>2, <2>3, <2>4 DEF GitInOrder
  <2> QED
    BY <1>1, <1>2, <2>1, <2>2, <2>4, <2>5 DEF Inventoried
<1> QED
  BY <1>7, <1>8, <1>9

LEMMA EndKeeps == Inventoried /\ GitEnds => Inventoried'
<1> SUFFICES ASSUME Inventoried, GitEnds PROVE Inventoried'
  OBVIOUS
<1>1. DOMAIN git = GitFields /\ DOMAIN walk = WalkFields /\ DOMAIN chk = ChkFields /\ Good(ret)
  BY DEF Inventoried
<1>2. UNCHANGED <<order, lim, chk>> /\ git' = StoppedGit
  BY DEF GitEnds
<1>3. DOMAIN git' = GitFields
  BY <1>1, <1>2, StoppedHave
<1>4. CASE StartExtends(ret, TRUE) /\ UNCHANGED walk
  BY <1>1, <1>2, <1>3, <1>4, ExtendsStarts
<1>5. CASE StartWalk
  BY <1>2, <1>3, <1>5, WalkKeepsStart
<1> QED
  BY <1>4, <1>5 DEF GitEnds

-------------------------------------------------------------------------------
(* The steps of the walk.                                                      *)

LEMMA OpenKeeps == Inventoried /\ WalkOpens => Inventoried'
<1> SUFFICES ASSUME Inventoried, WalkOpens PROVE Inventoried'
  OBVIOUS
<1>1. /\ lim \in Limits /\ order \in Orders
      /\ DOMAIN git = GitFields /\ DOMAIN walk = WalkFields /\ DOMAIN chk = ChkFields /\ Good(ret)
  BY DEF Inventoried
<1>2. /\ pc = "walk" /\ walk.entries = << >> /\ walk.dirs # << >>
      /\ UNCHANGED <<pc, order, lim, ret, inv, git, chk>>
  BY DEF WalkOpens
<1>3. PICK seen, now, n : InWalkOrder(seen, now, n, << >>, walk.dirs, KeysOf(ret))
  BY <1>2 DEF Inventoried, WalkInOrder
<1>4. PICK d : d = Last(walk.dirs)
  OBVIOUS
<1>5. /\ InWalkOrder(seen, d, 0, Tree[d], Front(walk.dirs), KeysOf(ret))
      /\ InWalkOrder(seen, now, n, << >>, Front(walk.dirs), KeysOf(ret))
  BY <1>2, <1>3, <1>4, WalkOpened
<1>6. PICK w : w = [walk EXCEPT !.dirs = Front(@), !.pending = @ - DirBytes[d]]
  OBVIOUS
<1>7. DOMAIN w = WalkFields /\ w.dirs = Front(walk.dirs) /\ w.entries = << >>
  BY <1>1, <1>2, <1>6 DEF WalkFields
<1>8. CASE walk' = [w EXCEPT !.entries = Tree[d]]
  <2>1. DOMAIN walk' = WalkFields /\ walk'.dirs = Front(walk.dirs) /\ walk'.entries = Tree[d]
    BY <1>7, <1>8 DEF WalkFields
  <2>2. WalkInOrder'
    BY <1>2, <1>5, <2>1 DEF WalkInOrder
  <2> QED
    BY <1>1, <1>2, <2>1, <2>2 DEF Inventoried
<1>9. CASE walk' = [w EXCEPT !.unread = @ + 1]
  <2>1. DOMAIN walk' = WalkFields /\ walk'.dirs = Front(walk.dirs) /\ walk'.entries = << >>
    BY <1>7, <1>9 DEF WalkFields
  <2>2. WalkInOrder'
    BY <1>2, <1>5, <2>1 DEF WalkInOrder
  <2> QED
    BY <1>1, <1>2, <2>1, <2>2 DEF Inventoried
<1> QED
  BY <1>4, <1>6, <1>8, <1>9 DEF WalkOpens

LEMMA WalkReasonsFinite == IsFiniteSet(WalkReasons)
<1>1. WalkReasons \subseteq {"inspect"} \cup {"unread"}
  BY DEF WalkReasons
<1>2. IsFiniteSet({"inspect"}) /\ IsFiniteSet({"unread"})
  BY FS_Singleton
<1>3. IsFiniteSet({"inspect"} \cup {"unread"})
  BY <1>2, FS_Union
<1> QED
  BY <1>1, <1>3, FS_Subset

\* The steps of the walk.
LEMMA EntryKeeps == Inventoried /\ WalkEntry => Inventoried'
<1> SUFFICES ASSUME Inventoried, WalkEntry PROVE Inventoried'
  OBVIOUS
<1>1. /\ lim \in Limits /\ order \in Orders
      /\ DOMAIN git = GitFields /\ DOMAIN walk = WalkFields /\ DOMAIN chk = ChkFields /\ Good(ret)
  BY DEF Inventoried
<1>2. pc = "walk" /\ walk.entries # << >> /\ UNCHANGED <<order, lim, git, chk>>
  BY DEF WalkEntry
<1>3. PICK e : e = Head(walk.entries)
  OBVIOUS
<1>4. PICK w : w = [walk EXCEPT !.entries = Tail(@), !.visited = @ + 1]
  OBVIOUS
<1>5. DOMAIN w = WalkFields /\ w.dirs = walk.dirs /\ w.entries = Tail(walk.entries)
  BY <1>1, <1>4 DEF WalkFields
<1>6. PICK seen, now, n : InWalkOrder(seen, now, n, walk.entries, walk.dirs, KeysOf(ret))
  BY <1>2 DEF Inventoried, WalkInOrder
<1>7. PICK next :
        /\ InWalkOrder(next, now, n + 1, Tail(walk.entries), walk.dirs, KeysOf(ret))
        /\ InWalkOrder(next, now, n + 1, << >>, walk.dirs, KeysOf(ret))
        /\ e \in Dirs => InWalkOrder(next, now, n + 1, Tail(walk.entries), Append(walk.dirs, e), KeysOf(ret))
        /\ e \in Paths => /\ Key[e] \notin KeysOf(ret)
                          /\ InWalkOrder(next, now, n + 1, Tail(walk.entries), walk.dirs, KeysOf(ret) \cup {Key[e]})
  BY <1>2, <1>3, <1>6, WalkPassed
<1>8. CASE w.visited > lim.capacity
  <2>1. PICK R : R = {"capacity"} \cup WalkReasons
    OBVIOUS
  <2>2. PICK r : r = [ret EXCEPT !.reasons = @ \cup {"capacity"} \cup WalkReasons]
    OBVIOUS
  <2>3. StartExtends(r, FALSE) /\ walk' = NoWalk
    BY <1>3, <1>4, <1>8, <2>2 DEF WalkEntry
  <2>4. r = [ret EXCEPT !.reasons = @ \cup R]
    BY <2>1, <2>2
  <2>5. IsFiniteSet(R)
    BY <2>1, WalkReasonsFinite, FS_Singleton, FS_Union
  <2>6. Good(r)
    BY <1>1, <2>4, <2>5, Reasoned
  <2> QED
    BY <1>1, <1>2, <2>3, <2>6, NoneHave, ExtendsStarts
<1>9. ASSUME ~(w.visited > lim.capacity) PROVE Inventoried'
  <2>1. UNCHANGED <<pc, inv>>
    BY <1>3, <1>4, <1>9 DEF WalkEntry
  <2>2. ASSUME Good(ret'), DOMAIN walk' = WalkFields,
               InWalkOrder(next, now, n + 1, walk'.entries, walk'.dirs, KeysOf(ret'))
        PROVE  Inventoried'
    <3>1. WalkInOrder'
      BY <2>2 DEF WalkInOrder
    <3> QED
      BY <1>1, <1>2, <2>1, <2>2, <3>1 DEF Inventoried
  <2>3. CASE walk' = [w EXCEPT !.inspect = @ + 1] /\ UNCHANGED ret
    <3>1. DOMAIN walk' = WalkFields /\ walk'.dirs = walk.dirs /\ walk'.entries = Tail(walk.entries)
      BY <1>5, <2>3 DEF WalkFields
    <3> QED
      BY <1>1, <1>7, <2>2, <2>3, <3>1
  <2>4. CASE walk' = [w EXCEPT !.entries = << >>, !.unread = @ + 1] /\ UNCHANGED ret
    <3>1. DOMAIN walk' = WalkFields /\ walk'.dirs = walk.dirs /\ walk'.entries = << >>
      BY <1>5, <2>4 DEF WalkFields
    <3> QED
      BY <1>1, <1>7, <2>2, <2>4, <3>1
  <2>5. CASE walk' = w /\ UNCHANGED ret
    BY <1>1, <1>5, <1>7, <2>2, <2>5
  <2>6. CASE ret' = AddReason(ret, "dirs") /\ walk' = w
    <3>1. Good(ret') /\ KeysOf(ret') = KeysOf(ret)
      BY <1>1, <2>6, ReasonAdded
    <3> QED
      BY <1>5, <1>7, <2>2, <2>6, <3>1
  <2>7. CASE /\ e \in Dirs /\ UNCHANGED ret
             /\ walk' = [w EXCEPT !.dirs = Append(@, e), !.pending = @ + DirBytes[e]]
    <3>1. DOMAIN walk' = WalkFields /\ walk'.dirs = Append(walk.dirs, e) /\ walk'.entries = Tail(walk.entries)
      BY <1>5, <2>7 DEF WalkFields
    <3> QED
      BY <1>1, <1>7, <2>2, <2>7, <3>1
  <2>8. CASE e \in Paths /\ walk' = w /\ ret' = Add(ret, e, FALSE).r
    <3>1. Grows(ret', ret, Key[e])
      BY <1>1, <1>7, <2>8, Added
    <3>2. Good(ret') /\ KeysOf(ret') \subseteq KeysOf(ret) \cup {Key[e]}
      BY <3>1 DEF Grows
    <3>3. InWalkOrder(next, now, n + 1, Tail(walk.entries), walk.dirs, KeysOf(ret'))
      BY <1>7, <2>8, <3>2, WalkFewer
    <3> QED
      BY <1>5, <2>2, <2>8, <3>2, <3>3
  <2>9. \/ walk' = [w EXCEPT !.inspect = @ + 1] /\ UNCHANGED ret
        \/ walk' = [w EXCEPT !.entries = << >>, !.unread = @ + 1] /\ UNCHANGED ret
        \/ walk' = w /\ UNCHANGED ret
        \/ ret' = AddReason(ret, "dirs") /\ walk' = w
        \/ /\ e \in Dirs /\ UNCHANGED ret
           /\ walk' = [w EXCEPT !.dirs = Append(@, e), !.pending = @ + DirBytes[e]]
        \/ e \in Paths /\ walk' = w /\ ret' = Add(ret, e, FALSE).r
    BY <1>3, <1>4, <1>9 DEF WalkEntry
  <2> QED
    BY <2>3, <2>4, <2>5, <2>6, <2>7, <2>8, <2>9
<1> QED
  BY <1>8, <1>9

LEMMA WalkEndKeeps == Inventoried /\ WalkEnds => Inventoried'
<1> SUFFICES ASSUME Inventoried, WalkEnds PROVE Inventoried'
  OBVIOUS
<1>1. DOMAIN git = GitFields /\ Good(ret)
  BY DEF Inventoried
<1>2. PICK r : r = [ret EXCEPT !.reasons = @ \cup WalkReasons]
  OBVIOUS
<1>3. StartExtends(r, FALSE) /\ walk' = NoWalk /\ UNCHANGED <<order, lim, git, chk>>
  BY <1>2 DEF WalkEnds
<1>4. Good(r)
  BY <1>1, <1>2, WalkReasonsFinite, Reasoned
<1> QED
  BY <1>1, <1>3, <1>4, NoneHave, ExtendsStarts

-------------------------------------------------------------------------------
(* The steps that follow the extends values.                                   *)

LEMMA FollowKeeps ==
    ASSUME Inventoried, Good(ret'), DOMAIN chk' = ChkFields, pc' \in {"extends", "asking"},
           pc' = "asking" => chk'.path \in Paths, UNCHANGED <<order, lim, git, walk>>
    PROVE  Inventoried'
  BY DEF Inventoried

\* The steps of following the extends values.
LEMMA PopKeeps == Inventoried /\ ExtPops => Inventoried'
<1> SUFFICES ASSUME Inventoried, ExtPops PROVE Inventoried'
  OBVIOUS
<1>1. pc = "extends" /\ UNCHANGED <<pc, order, lim, ret, git, walk, chk>>
  BY DEF ExtPops
<1>2. Good(ret) /\ DOMAIN chk = ChkFields
  BY DEF Inventoried
<1> QED
  BY <1>1, <1>2, FollowKeeps

LEMMA ValueKeeps == Inventoried /\ ExtValue => Inventoried'
<1> SUFFICES ASSUME Inventoried, ExtValue PROVE Inventoried'
  OBVIOUS
<1>1. pc = "extends" /\ UNCHANGED <<pc, order, lim, git, walk, chk>>
  BY DEF ExtValue
<1>2. Good(ret) /\ DOMAIN chk = ChkFields
  BY DEF Inventoried
<1>3. PICK index : index = IF Head(ext.values).kind = "package" /\ ext.packages = << >>
                           THEN PackageIndex(Range(ext.by)) ELSE [found |-> ext.packages, reasons |-> {}]
  OBVIOUS
<1>4. index.reasons \subseteq FollowReasons
  <2>1. CASE index = PackageIndex(Range(ext.by))
    BY <2>1, IndexReasons
  <2>2. CASE index = [found |-> ext.packages, reasons |-> {}]
    BY <2>2
  <2> QED
    BY <1>3, <2>1, <2>2
<1>5. PICK g : g = ValueGroups(Head(ext.values), index)
  OBVIOUS
<1>6. IsFiniteSet(g.reasons)
  BY <1>4, <1>5, ValueReasons, FollowFinite
<1>7. ret' = [ret EXCEPT !.reasons = @ \cup g.reasons]
  BY <1>3, <1>5 DEF ExtValue
<1>8. Good(ret')
  BY <1>2, <1>6, <1>7, Reasoned
<1> QED
  BY <1>1, <1>2, <1>8, FollowKeeps

\* A candidate that is admitted is added to a retention in order.
LEMMA Admitted ==
    ASSUME Good(ret), NEW x, NEW c \in Paths, Admit(x, c)
    PROVE  Good(ret')
<1>1. CASE UNCHANGED ret
  BY <1>1
<1>2. CASE ret' = Add(ret, c, TRUE).r
  <2>1. Critical(c, TRUE)
    BY DEF Critical
  <2>2. Grows(Add(ret, c, TRUE).r, ret, Key[c])
    BY <2>1, Added
  <2> QED
    BY <1>2, <2>2 DEF Grows
<1> QED
  BY <1>1, <1>2 DEF Admit

LEMMA JudgedWell ==
    ASSUME Good(ret), NEW x, NEW c \in Paths, NEW visible, Judged(x, c, visible)
    PROVE  Good(ret') /\ pc' = "extends"
<1>1. pc' = "extends"
  BY DEF Judged
<1>2. CASE UNCHANGED ret
  BY <1>1, <1>2
<1>3. CASE ret' = AddReason(ret, "visibility")
  BY <1>1, <1>3, ReasonAdded
<1>4. CASE Admit(x, c)
  BY <1>1, <1>4, Admitted
<1> QED
  BY <1>2, <1>3, <1>4 DEF Judged

LEMMA AskedWell ==
    ASSUME Good(ret), DOMAIN chk = ChkFields, NEW x, NEW c \in Paths, Ask(c, x)
    PROVE  /\ Good(ret') /\ DOMAIN chk' = ChkFields /\ pc' \in {"extends", "asking"}
           /\ pc' = "asking" => chk'.path \in Paths
<1>1. CASE \E y : Judged(y, c, "unknown") /\ UNCHANGED chk
  BY <1>1, JudgedWell
<1>2. CASE /\ chk' = [chk EXCEPT !.failed = TRUE]
           /\ pc' = "extends" /\ ret' = AddReason(ret, "visibility")
  BY <1>2, ReasonAdded
<1>3. CASE /\ chk' = [chk EXCEPT !.child = "running", !.worker = "serving", !.path = c]
           /\ pc' = "asking" /\ UNCHANGED ret
  BY <1>3 DEF ChkFields
<1> QED
  BY <1>1, <1>2, <1>3 DEF Ask

LEMMA CandidateKeeps == Inventoried /\ ExtCandidate => Inventoried'
<1> SUFFICES ASSUME Inventoried, ExtCandidate PROVE Inventoried'
  OBVIOUS
<1>1. Good(ret) /\ DOMAIN chk = ChkFields
  BY DEF Inventoried
<1>2. pc = "extends" /\ UNCHANGED <<order, lim, git, walk>>
  BY DEF ExtCandidate
<1>3. PICK c : c = Head(Group)
  OBVIOUS
<1>4. PICK counted : counted = [ext EXCEPT !.checks = @ + 1]
  OBVIOUS
<1>5. c \in Existing => c \in Paths
  BY InventoryAssumption
<1>6. CASE UNCHANGED <<pc, ret, chk>>
  BY <1>1, <1>2, <1>6, FollowKeeps
<1>7. CASE ret' = AddReason(ret, "checks") /\ UNCHANGED <<pc, chk>>
  BY <1>1, <1>2, <1>7, ReasonAdded, FollowKeeps
<1>8. CASE c \in Existing /\ Admit(counted, c) /\ UNCHANGED <<pc, chk>>
  BY <1>1, <1>2, <1>5, <1>8, Admitted, FollowKeeps
<1>9. CASE c \in Existing /\ Judged(counted, c, ext.seen[c]) /\ UNCHANGED chk
  BY <1>1, <1>2, <1>5, <1>9, JudgedWell, FollowKeeps
<1>10. CASE c \in Existing /\ Ask(c, counted)
  BY <1>1, <1>2, <1>5, <1>10, AskedWell, FollowKeeps
<1>11. \/ UNCHANGED <<pc, ret, chk>>
       \/ ret' = AddReason(ret, "checks") /\ UNCHANGED <<pc, chk>>
       \/ c \in Existing /\ Admit(counted, c) /\ UNCHANGED <<pc, chk>>
       \/ c \in Existing /\ Judged(counted, c, ext.seen[c]) /\ UNCHANGED chk
       \/ c \in Existing /\ Ask(c, counted)
  BY <1>3, <1>4 DEF ExtCandidate
<1> QED
  BY <1>6, <1>7, <1>8, <1>9, <1>10, <1>11

LEMMA FollowEndKeeps == Inventoried /\ ExtEnds => Inventoried'
<1> SUFFICES ASSUME Inventoried, ExtEnds PROVE Inventoried'
  OBVIOUS
<1>1. /\ lim \in Limits /\ order \in Orders
      /\ DOMAIN git = GitFields /\ DOMAIN walk = WalkFields /\ DOMAIN chk = ChkFields /\ Good(ret)
  BY DEF Inventoried
<1>2. Listed(ret) /\ pc' = "manifest" /\ chk' = StoppedChk /\ UNCHANGED <<order, lim, ret, git, walk>>
  BY DEF ExtEnds
<1>3. inv'.paths \in Seq(Paths) /\ IsFiniteSet(inv'.reasons)
  BY <1>1, <1>2, ListedWell
<1> QED
  BY <1>1, <1>2, <1>3, StoppedHave DEF Inventoried

LEMMA AnswerKeeps == Inventoried /\ TakesAnswer => Inventoried'
<1> SUFFICES ASSUME Inventoried, TakesAnswer PROVE Inventoried'
  OBVIOUS
<1>1. Good(ret) /\ DOMAIN git = GitFields /\ DOMAIN chk = ChkFields
  BY DEF Inventoried
<1>2. pc = "asking" /\ UNCHANGED <<order, lim, git, walk>>
  BY DEF TakesAnswer
<1>3. chk.path \in Paths
  BY <1>2 DEF Inventoried
<1>4. \E x : Judged(x, chk.path, chk.answer)
  BY DEF TakesAnswer
<1>5. Good(ret') /\ pc' = "extends"
  BY <1>1, <1>3, <1>4, JudgedWell
<1>6. DOMAIN chk' = ChkFields
  <2>1. chk' \in {AbortedChk, [chk EXCEPT !.path = NoPath, !.answer = "none"]}
    BY DEF TakesAnswer
  <2> QED
    BY <1>1, <2>1, StoppedHave
<1> QED
  BY <1>2, <1>5, <1>6, FollowKeeps

LEMMA GiveUpKeeps == Inventoried /\ GivesUp => Inventoried'
<1> SUFFICES ASSUME Inventoried, GivesUp PROVE Inventoried'
  OBVIOUS
<1>1. Good(ret) /\ DOMAIN git = GitFields /\ DOMAIN chk = ChkFields
  BY DEF Inventoried
<1>2. /\ pc' = "extends" /\ chk' = AbortedChk /\ ret' = AddReason(ret, "visibility")
      /\ UNCHANGED <<order, lim, git, walk>>
  BY DEF GivesUp
<1> QED
  BY <1>1, <1>2, StoppedHave, ReasonAdded, FollowKeeps

LEMMA WorkerKeeps == Inventoried /\ WorkerAnswers => Inventoried'
<1> SUFFICES ASSUME Inventoried, WorkerAnswers PROVE Inventoried'
  OBVIOUS
<1>1. DOMAIN chk = ChkFields
  BY DEF Inventoried
<1>2. UNCHANGED <<pc, order, lim, ret, inv, git, walk>>
  BY DEF WorkerAnswers
<1>3. DOMAIN chk' = ChkFields /\ chk'.path = chk.path
  BY <1>1 DEF WorkerAnswers, ChkFields
<1> QED
  BY <1>2, <1>3 DEF Inventoried, GitInOrder, WalkInOrder, GitOutput

\* Every step of the inventory.
LEMMA InventoryKeeps == Inventoried /\ InventoryStep => Inventoried'
  BY TickKeeps, OverdueKeeps, SupplyKeeps, GitStartKeeps, ExitKeeps, ReadKeeps, PutKeeps, StopKeeps,
     TakeKeeps, EndKeeps, OpenKeeps, EntryKeeps, WalkEndKeeps, PopKeeps, ValueKeeps, CandidateKeeps,
     FollowEndKeeps, AnswerKeeps, GiveUpKeeps, WorkerKeeps DEF InventoryStep

-------------------------------------------------------------------------------
(* Part three, the analysis accounts for every changed file.                   *)
(* Shards.                                                                        *)

\* Shards: none is empty, no file is in two of them, and together they have all.
Splits(all) ==
  /\ Len(all) \in Nat /\ DOMAIN all = 1 .. Len(all)
  /\ \A i \in DOMAIN all : Range(all[i]) # {}
  /\ \A i, j \in DOMAIN all : i # j => Range(all[i]) \cap Range(all[j]) = {}
  /\ UNION {Range(all[i]) : i \in DOMAIN all} = Range(Changed)

\* The lesser of two integers.
LEMMA LessOfTwo ==
    ASSUME NEW a \in Int, NEW b \in Int
    PROVE  Min({a, b}) = IF a <= b THEN a ELSE b
<1>1. \A x \in {a, b} : (\A y \in {a, b} : x <= y) => x = IF a <= b THEN a ELSE b
  OBVIOUS
<1>2. \E x \in {a, b} : \A y \in {a, b} : x <= y
  OBVIOUS
<1>3. Min({a, b}) \in {a, b} /\ \A y \in {a, b} : Min({a, b}) <= y
  BY <1>2, Zenon DEF Min
<1> QED
  BY <1>1, <1>3

\* Multiples keep their order.
LEMMA Multiples ==
    ASSUME NEW size \in Nat \ {0}, NEW i \in Nat, NEW j \in Nat, i <= j
    PROVE  i * size <= j * size /\ i * size \in Nat
<1>1. (j - i) * size >= 0
  OBVIOUS
<1>2. j * size = i * size + (j - i) * size
  OBVIOUS
<1> QED
  BY <1>1, <1>2

\* A number lies between two multiples.
LEMMA Quotient ==
    ASSUME NEW n \in Nat, NEW size \in Nat \ {0}
    PROVE  n \div size \in Nat /\ (n \div size) * size <= n /\ n < (n \div size + 1) * size
<1>1. n \div size \in Int /\ n % size \in 0 .. size - 1 /\ n = size * (n \div size) + (n % size)
  OBVIOUS
<1>2. PICK q \in Int : q = n \div size
  BY <1>1
<1>3. (q + 1) * size = size * q + size /\ q * size = size * q
  OBVIOUS
<1>4. q >= 0
  <2>1. ASSUME q < 0 PROVE FALSE
    <3>1. size * (q + 1) <= 0 
      BY <2>1
    <3> QED
      BY <1>1, <1>2, <1>3, <3>1
  <2> QED
    BY <2>1
<1> QED
  BY <1>1, <1>2, <1>3, <1>4

\* The shards of any size split the changed files.
LEMMA ShardsSplit ==
    ASSUME NEW size \in Nat \ {0}
    PROVE  Splits(ShardsOf(size))
<1>1. PICK n \in Nat : n = Len(Changed) /\ DOMAIN Changed = 1 .. n
  BY ChangedAssumption
<1>2. PICK m : m = (n + size - 1) \div size
  OBVIOUS
<1>3. m \in Nat /\ m * size <= n + size - 1 /\ n + size - 1 < (m + 1) * size
  BY <1>2, Quotient
<1> DEFINE low(i) == (i - 1) * size + 1
           high(i) == IF i * size <= n THEN i * size ELSE n
<1>4. PICK all : all = ShardsOf(size)
  OBVIOUS
<1>5. all = [i \in 1 .. m |-> SubSeq(Changed, (i - 1) * size + 1, Min({i * size, n}))]
  BY <1>1, <1>2, <1>4 DEF ShardsOf
<1>6. Len(all) = m /\ DOMAIN all = 1 .. m
  BY <1>3, <1>5
<1>7. \A i \in 1 .. m : low(i) \in 1 .. n /\ high(i) \in low(i) .. n
  <2> TAKE i \in 1 .. m
  <2>1. (i - 1) * size <= (m - 1) * size /\ (i - 1) * size \in Nat
    BY <1>3, Multiples
  <2>2. (m - 1) * size = m * size - size /\ i * size = (i - 1) * size + size
    BY <1>3
  <2> QED
    BY <1>3, <2>1, <2>2
<1>8. \A i \in 1 .. m : Range(all[i]) = {Changed[k] : k \in low(i) .. high(i)}
  <2> TAKE i \in 1 .. m
  <2>1. i * size \in Int /\ Min({i * size, n}) = high(i)
    BY LessOfTwo
  <2>2. PICK l \in 1 .. n, h \in 1 .. n : l = low(i) /\ h = high(i) /\ l <= h
    BY <1>7
  <2>3. all[i] = SubSeq(Changed, l, h)
    BY <1>5, <2>1, <2>2
  <2> HIDE DEF low, high
  <2>4. SubSeq(Changed, l, h) = [k \in 1 .. h - l + 1 |-> Changed[k + l - 1]]
    BY <1>1, <2>2, ChangedAssumption
  <2>5. Range(all[i]) = {Changed[k + l - 1] : k \in 1 .. h - l + 1}
    BY <2>3, <2>4, ZenonT(30) DEF Range
  <2>6. {Changed[k + l - 1] : k \in 1 .. h - l + 1} = {Changed[k] : k \in l .. h}
    <3>1. \A k \in 1 .. h - l + 1 : k + l - 1 \in l .. h
      BY <2>2
    <3>2. \A k \in l .. h : k - l + 1 \in 1 .. h - l + 1 /\ (k - l + 1) + l - 1 = k
      BY <2>2
    <3> QED
      BY <3>1, <3>2
  <2> QED
    BY <2>2, <2>5, <2>6
<1>9. \A i \in 1 .. m : Range(all[i]) # {}
  <2> TAKE i \in 1 .. m
  <2>1. low(i) \in low(i) .. high(i)
    <3>1. PICK l \in 1 .. n, h \in 1 .. n : l = low(i) /\ h = high(i) /\ l <= h
      BY <1>7
    <3>2. l \in l .. h
      BY <3>1
    <3> QED
      BY <3>1, <3>2
  <2>2. Changed[low(i)] \in Range(all[i])
    BY <1>8, <2>1
  <2> QED
    BY <2>2
<1>10. \A i, j \in 1 .. m : i < j => high(i) < low(j)
  <2> TAKE i \in 1 .. m, j \in 1 .. m
  <2> HAVE i < j
  <2>1. i * size <= (j - 1) * size
    BY Multiples
  <2>2. high(i) <= i * size
    OBVIOUS
  <2>3. i * size \in Int /\ (j - 1) * size \in Int /\ high(i) \in Int
    BY <1>7
  <2> QED
    BY <2>1, <2>2, <2>3
<1> HIDE DEF low, high
<1>11. \A i, j \in 1 .. m : i < j => Range(all[i]) \cap Range(all[j]) = {}
  <2> SUFFICES ASSUME NEW i \in 1 .. m, NEW j \in 1 .. m, i < j, NEW x \in Range(all[i]), x \in Range(all[j])
               PROVE  FALSE
    OBVIOUS
  <2>1. PICK k \in low(i) .. high(i) : x = Changed[k]
    BY <1>8
  <2>2. PICK l \in low(j) .. high(j) : x = Changed[l]
    BY <1>8
  <2>3. k \in 1 .. n /\ l \in 1 .. n /\ k < l
    BY <1>7, <1>10, <2>1, <2>2
  <2>4. \A a, b \in 1 .. n : Changed[a] = Changed[b] => a = b
    BY <1>1, ChangedAssumption
  <2>5. k = l
    BY <2>1, <2>2, <2>3, <2>4
  <2>6. k \in Int /\ l \in Int
    BY <2>3
  <2> QED
    BY <2>3, <2>5, <2>6
<1>12. \A i, j \in 1 .. m : i # j => Range(all[i]) \cap Range(all[j]) = {}
  <2> TAKE i \in 1 .. m, j \in 1 .. m
  <2>1. i # j => i < j \/ j < i
    OBVIOUS
  <2> QED
    BY <1>11, <2>1
<1>13. \A k \in 1 .. n : \E i \in 1 .. m : k \in low(i) .. high(i)
  <2> TAKE k \in 1 .. n
  <2>1. PICK q : q = (k - 1) \div size
    OBVIOUS
  <2>2. q \in Nat /\ q * size <= k - 1 /\ k - 1 < (q + 1) * size
    BY <2>1, Quotient
  <2>3. q < m
    <3>1. ASSUME m <= q PROVE FALSE
      <4>1. m * size <= q * size
        BY <1>3, <2>2, <3>1, Multiples
      <4>2. (m + 1) * size = m * size + size
        BY <1>3
      <4> QED
        BY <1>3, <2>2, <4>1, <4>2
    <3> QED
      BY <1>3, <2>2, <3>1
  <2>4. q + 1 \in 1 .. m
    BY <1>3, <2>2, <2>3
  <2>5. k \in low(q + 1) .. high(q + 1)
    <3>1. (q + 1) - 1 = q /\ (q + 1) * size \in Int /\ q * size \in Int
      BY <2>2
    <3> QED
      BY <2>2, <3>1 DEF low, high
  <2> QED
    BY <2>4, <2>5
<1>14. UNION {Range(all[i]) : i \in 1 .. m} = Range(Changed)
  <2>1. Range(Changed) = {Changed[k] : k \in 1 .. n}
    BY <1>1 DEF Range
  <2>2. \A x \in Range(Changed) : \E i \in 1 .. m : x \in Range(all[i])
    BY <1>8, <1>13, <2>1
  <2>3. \A i \in 1 .. m : \A x \in Range(all[i]) : x \in Range(Changed)
    <3> TAKE i \in 1 .. m
    <3> TAKE x \in Range(all[i])
    <3>1. PICK k \in low(i) .. high(i) : x = Changed[k]
      BY <1>8
    <3>2. k \in 1 .. n
      BY <1>7, <3>1
    <3> QED
      BY <2>1, <3>1, <3>2
  <2> QED
    BY <2>2, <2>3
<1> QED
  BY <1>3, <1>4, <1>6, <1>9, <1>12, <1>14 DEF Splits

-------------------------------------------------------------------------------
(* The inductive invariant.                                                       *)

Listing(s) == s \in Seq(Range(s))

\* The answer to a shard that was analyzed, the failure of one that was not
AnswerIsFor(a) ==
  /\ a.index \in 1 .. at - 1
  /\ a.failed \subseteq Range(shards[a.index]) /\ a.files = Range(shards[a.index]) \ a.failed
  /\ a.codes # {} <=> a.partial
  /\ a.failed # {} \/ manifest.reasons # {} => a.partial
  /\ a.late => a.failed # {}
FailureIsFor(f) ==
  f.index \in 1 .. at - 1 /\ f.files = Range(shards[f.index]) /\ f.status \in {"failed", "timeout"}

Answering == /\ \A a \in Range(results) : AnswerIsFor(a)
             /\ \A f \in Range(failures) : FailureIsFor(f)

\* Every shard that was passed has one answer or one failure
OnceEach ==
  /\ \A a, b \in Range(results) : a.index = b.index => a = b
  /\ \A a \in Range(results), f \in Range(failures) : a.index # f.index
  /\ \A i \in 1 .. at - 1 : \/ \E a \in Range(results) : a.index = i
                            \/ \E f \in Range(failures) : f.index = i

\* The states before shards are planned.
Preparing == {"start", "git", "gitwait", "walk", "extends", "asking", "manifest"}

\* A shard is analyzed after the manifest is written, and merged after the last shard
InOrder ==
  /\ pc \in Preparing \cup {"shards", "done", "failed"}
  /\ pc \in Preparing => at = 1 /\ results = << >> /\ failures = << >>
  /\ pc = "done" => at = Len(shards) + 1 /\ results # << >> /\ result = Merged

\* The inductive invariant.
Accounts ==
  /\ lim \in Limits /\ Splits(shards) /\ at \in 1 .. Len(shards) + 1
  /\ Listing(results) /\ Listing(failures)
  /\ Answering /\ OnceEach /\ InOrder

-------------------------------------------------------------------------------
(* Sequences by what they list, the initial states and the inventory.             *)

\* A list lists elements of every set that has its range.
LEMMA ListedIn ==
    ASSUME NEW s, NEW T, Listing(s), Range(s) \subseteq T
    PROVE  s \in Seq(T)
<1>1. s \in Seq(Range(s))
  BY DEF Listing
<1>2. PICK n \in Nat : n = Len(s) /\ DOMAIN s = 1 .. n /\ s \in [1 .. n -> Range(s)]
  BY <1>1
<1>3. s \in [1 .. n -> T]
  BY <1>2
<1> QED
  BY <1>2, <1>3

\* What lists list when an element is appended, when they are joined, and when they are
\* empty.
LEMMA RangeOfAppend ==
    ASSUME NEW s, NEW e, Listing(s)
    PROVE  Listing(Append(s, e)) /\ Range(Append(s, e)) = Range(s) \cup {e}
<1>1. PICK T : T = Range(s) \cup {e}
  OBVIOUS
<1>2. s \in Seq(T)
  BY <1>1, ListedIn
<1>3. PICK n \in Nat : n = Len(s) /\ DOMAIN s = 1 .. n
  BY <1>2
<1>4. PICK t : t = Append(s, e)
  OBVIOUS
<1>5. /\ t \in Seq(T) /\ Len(t) = n + 1 /\ DOMAIN t = 1 .. n + 1 /\ t[n + 1] = e
      /\ \A i \in 1 .. n : t[i] = s[i]
  BY <1>1, <1>2, <1>3, <1>4
<1>6. \A x \in Range(s) : x \in Range(t)
  <2> TAKE x \in Range(s)
  <2>1. PICK i \in 1 .. n : x = s[i]
    BY <1>3 DEF Range
  <2>2. i \in 1 .. n + 1 /\ t[i] = x
    BY <1>5, <2>1
  <2> QED
    BY <1>5, <2>2 DEF Range
<1>7. e \in Range(t)
  <2>1. n + 1 \in 1 .. n + 1
    OBVIOUS
  <2> QED
    BY <1>5, <2>1 DEF Range
<1>8. \A x \in Range(t) : x \in T
  BY <1>5 DEF Range
<1>9. Range(t) = T
  BY <1>1, <1>6, <1>7, <1>8
<1> QED
  BY <1>1, <1>4, <1>5, <1>9 DEF Listing

LEMMA RangeOfConcat ==
    ASSUME NEW s, NEW t, Listing(s), Listing(t)
    PROVE  Listing(s \o t) /\ Range(s \o t) = Range(s) \cup Range(t)
<1>1. PICK T : T = Range(s) \cup Range(t)
  OBVIOUS
<1>2. s \in Seq(T) /\ t \in Seq(T)
  BY <1>1, ListedIn
<1>3. PICK n \in Nat, m \in Nat : n = Len(s) /\ DOMAIN s = 1 .. n /\ m = Len(t) /\ DOMAIN t = 1 .. m
  BY <1>2
<1>4. PICK u : u = s \o t
  OBVIOUS
<1>5. u \in Seq(T) /\ Len(u) = n + m /\ DOMAIN u = 1 .. n + m
  BY <1>2, <1>3, <1>4
<1>6. (\A i \in 1 .. n : u[i] = s[i]) /\ (\A i \in 1 .. n + m : i > n => u[i] = t[i - n])
  BY <1>2, <1>3, <1>4
<1>7. \A x \in Range(s) : x \in Range(u)
  <2> TAKE x \in Range(s)
  <2>1. PICK i \in 1 .. n : x = s[i]
    BY <1>3 DEF Range
  <2>2. i \in 1 .. n + m /\ u[i] = x
    BY <1>6, <2>1
  <2> QED
    BY <1>5, <2>2 DEF Range
<1>8. \A x \in Range(t) : x \in Range(u)
  <2> TAKE x \in Range(t)
  <2>1. PICK i \in 1 .. m : x = t[i]
    BY <1>3 DEF Range
  <2>2. n + i \in 1 .. n + m /\ n + i > n /\ (n + i) - n = i
    OBVIOUS
  <2>3. u[n + i] = x
    BY <1>6, <2>1, <2>2
  <2> QED
    BY <1>5, <2>2, <2>3 DEF Range
<1>9. \A x \in Range(u) : x \in T
  BY <1>5 DEF Range
<1>10. Range(u) = T
  BY <1>1, <1>7, <1>8, <1>9
<1> QED
  BY <1>1, <1>4, <1>5, <1>10 DEF Listing

LEMMA EmptyList == Listing(<< >>) /\ Range(<< >>) = {}
<1>1. Range(<< >>) = {}
  BY DEF Range
<1> QED
  BY <1>1 DEF Listing

LEMMA NoneListed ==
    ASSUME NEW s, Listing(s)
    PROVE  s = << >> <=> Range(s) = {}
<1>1. PICK n \in Nat : n = Len(s) /\ DOMAIN s = 1 .. n
  BY DEF Listing
<1>2. s \in Seq(Range(s))
  BY DEF Listing
<1>3. ASSUME Range(s) = {} PROVE s = << >>
  <2>1. n = 0
    <3>1. ASSUME n >= 1 PROVE FALSE
      <4>1. s[1] \in Range(s)
        BY <1>1, <3>1 DEF Range
      <4> QED
        BY <1>3, <4>1
    <3> QED
      BY <3>1
  <2> QED
    BY <1>1, <1>2, <2>1
<1> QED
  BY <1>3, EmptyList

\* The size of the shards is positive.
LEMMA SomeFiles ==
    ASSUME lim \in Limits
    PROVE  ShardSize \in Nat \ {0}
<1>1. PICK a \in Nat \ {0}, b \in Nat \ {0} : a = lim.shard /\ b = lim.largeShard
  BY ShardsAssumption
<1>2. Min({a, b}) \in Nat \ {0}
  BY LessOfTwo
<1> QED
  BY <1>1, <1>2 DEF ShardSize

\* The initial states.
LEMMA StartsAccounting == Init => Accounts
<1> SUFFICES ASSUME Init PROVE Accounts
  OBVIOUS
<1>1. lim \in Limits /\ pc = "start" /\ shards = ShardsOf(ShardSize) /\ at = 1
      /\ results = << >> /\ failures = << >>
  BY DEF Init, InvInit
<1>2. Splits(shards)
  BY <1>1, SomeFiles, ShardsSplit
<1>3. Len(shards) \in Nat
  BY <1>2 DEF Splits
<1>4. Answering
  BY <1>1, EmptyList DEF Answering
<1>5. OnceEach
  BY <1>1, EmptyList DEF OnceEach
<1>6. InOrder
  BY <1>1 DEF InOrder, Preparing
<1> QED
  BY <1>1, <1>2, <1>3, <1>4, <1>5, <1>6, EmptyList DEF Accounts

\* What a step of the inventory does to the rest: nothing.
Prepares == UNCHANGED lim /\ (pc' = pc \/ (pc \in Preparing /\ pc' \in Preparing \cup {"failed"}))

\* The inventory leaves what an analysis has already written.
LEMMA InventoryPrepares == InventoryStep => Prepares
<1>1. Tick => Prepares
  BY DEF Tick, Prepares
<1>2. Overdue => Prepares
  BY DEF Overdue, Taking, Prepares, Preparing
<1>3. Supply => Prepares
  BY DEF Supply, Prepares, Preparing
<1>4. GitStart => Prepares
  BY DEF GitStart, StartWalk, Prepares, Preparing
<1>5. GitExits => Prepares
  BY DEF GitExits, Prepares
<1>6. ReaderReads \/ ReaderPuts \/ ReaderStops => Prepares
  BY DEF ReaderReads, ReaderPuts, ReaderStops, Prepares
<1>7. GitTakes => Prepares
  BY DEF GitTakes, StartExtends, Prepares, Preparing
<1>8. GitEnds => Prepares
  BY DEF GitEnds, StartExtends, StartWalk, Prepares, Preparing
<1>9. WalkOpens => Prepares
  BY DEF WalkOpens, Prepares
<1>10. WalkEntry => Prepares
  BY DEF WalkEntry, StartExtends, Prepares, Preparing
<1>11. WalkEnds => Prepares
  BY DEF WalkEnds, StartExtends, Prepares, Preparing
<1>12. ExtPops \/ ExtValue => Prepares
  BY DEF ExtPops, ExtValue, Prepares
<1>13. ASSUME NEW c, NEW x, Ask(c, x) PROVE pc' \in {"extends", "asking"}
  BY <1>13 DEF Ask, Judged
<1>14. ExtCandidate => Prepares
  BY <1>13 DEF ExtCandidate, Judged, Prepares, Preparing
<1>15. ExtEnds => Prepares
  BY DEF ExtEnds, Prepares, Preparing
<1>16. TakesAnswer \/ GivesUp => Prepares
  BY DEF TakesAnswer, GivesUp, Judged, Prepares, Preparing
<1>17. WorkerAnswers => Prepares
  BY DEF WorkerAnswers, Prepares
<1> QED
  BY <1>1, <1>2, <1>3, <1>4, <1>5, <1>6, <1>7, <1>8, <1>9, <1>10, <1>11, <1>12, <1>14, <1>15, <1>16, <1>17
     DEF InventoryStep

-------------------------------------------------------------------------------
(* The steps of the analysis keep the invariant.                                  *)

\* A step that changes none of these keeps the invariant.
LEMMA UnchangedAccounts ==
    Accounts /\ UNCHANGED <<lim, manifest, shards, at, results, failures, result>> /\ InOrder' => Accounts'
<1> SUFFICES ASSUME Accounts, UNCHANGED <<lim, manifest, shards, at, results, failures, result>>, InOrder'
             PROVE  Accounts'
  OBVIOUS
<1>1. Answering'
  BY DEF Accounts, Answering, AnswerIsFor, FailureIsFor
<1>2. OnceEach'
  BY DEF Accounts, OnceEach
<1> QED
  BY <1>1, <1>2 DEF Accounts, Listing, Splits

LEMMA InventoryAccounts == Accounts /\ InventoryStep /\ UNCHANGED outVars => Accounts'
<1> SUFFICES ASSUME Accounts, InventoryStep, UNCHANGED outVars PROVE Accounts'
  OBVIOUS
<1>1. Prepares
  BY InventoryPrepares
<1>2. UNCHANGED <<lim, manifest, shards, at, results, failures, result>>
  BY <1>1 DEF outVars, Prepares
<1>3. Merged' = Merged
  BY <1>2 DEF Merged
<1>4. InOrder'
  BY <1>1, <1>2, <1>3 DEF Accounts, InOrder, Prepares, Preparing
<1> QED
  BY <1>2, <1>4, UnchangedAccounts

\* The manifest is written while there is no answer that could depend on it.
LEMMA ManifestAccounts == Accounts /\ WriteManifest => Accounts'
<1> SUFFICES ASSUME Accounts, WriteManifest PROVE Accounts'
  OBVIOUS
<1>1. /\ pc = "manifest" /\ pc' \in {"failed", "shards"}
      /\ UNCHANGED <<lim, shards, at, results, failures, result>>
  BY DEF WriteManifest
<1>2. at = 1 /\ results = << >> /\ failures = << >>
  BY <1>1 DEF Accounts, InOrder, Preparing
<1>3. Answering'
  BY <1>1, <1>2, EmptyList DEF Answering
<1>4. OnceEach'
  BY <1>1 DEF Accounts, OnceEach
<1>5. InOrder'
  BY <1>1 DEF InOrder, Preparing
<1> QED
  BY <1>1, <1>3, <1>4, <1>5 DEF Accounts, Listing, Splits

\* Every answer that a Node process may give, annotated, is for its shard.
LEMMA AnswersAreFor ==
    ASSUME NEW i, NEW a \in Answers(i)
    PROVE  /\ Annotated(a).index = i
           /\ Annotated(a).failed \subseteq Range(shards[i])
           /\ Annotated(a).files = Range(shards[i]) \ Annotated(a).failed
           /\ Annotated(a).codes # {} <=> Annotated(a).partial
           /\ Annotated(a).failed # {} \/ manifest.reasons # {} => Annotated(a).partial
           /\ Annotated(a).late => Annotated(a).failed # {}
<1>1. PICK c \in Courses(i) : a = Answer(i, c)
  BY DEF Answers
<1>2. /\ c.failed \subseteq Range(shards[i]) /\ c.late \in BOOLEAN /\ c.limited \in BOOLEAN
      /\ c.covered \in BOOLEAN /\ (c.late => c.failed # {} /\ c.covered)
  BY DEF Courses
<1>3. PICK codes : codes = IF c.covered THEN Codes(c) ELSE {}
  OBVIOUS
<1>4. c.covered => (codes # {} <=> c.failed # {} \/ c.limited \/ manifest.reasons # {})
  BY <1>2, <1>3 DEF Codes
<1>5. a = [index |-> i, files |-> Range(shards[i]) \ c.failed, failed |-> c.failed, late |-> c.late,
           covered |-> c.covered, partial |-> c.failed # {} \/ c.limited \/ manifest.reasons # {},
           codes |-> codes]
  BY <1>1, <1>3 DEF Answer
<1>6. a.index = i /\ a.files = Range(shards[i]) \ c.failed /\ a.failed = c.failed
      /\ a.covered = c.covered /\ a.codes = codes /\ a.late = c.late
  BY <1>5
<1>7. a.partial <=> c.failed # {} \/ c.limited \/ manifest.reasons # {}
  BY <1>5
<1>8. PICK b : b = Annotated(a)
  OBVIOUS
<1>9. b = [a EXCEPT !.covered = TRUE,
                    !.codes = IF ~a.covered /\ a.partial THEN {"partial_reason_unspecified"} ELSE @]
  BY <1>8 DEF Annotated
<1>10. DOMAIN a = {"index", "files", "failed", "late", "covered", "partial", "codes"}
  BY <1>5
<1>11. b.index = a.index /\ b.files = a.files /\ b.failed = a.failed /\ b.late = a.late
  BY <1>9
<1>12. b.partial = a.partial
  BY <1>9
<1>13. b.codes = IF ~a.covered /\ a.partial THEN {"partial_reason_unspecified"} ELSE a.codes
  BY <1>9, <1>10
<1>14. b.codes # {} <=> b.partial
  <2>1. CASE c.covered
    BY <2>1, <1>4, <1>6, <1>7, <1>12, <1>13
  <2>2. CASE ~c.covered
    BY <2>2, <1>3, <1>6, <1>7, <1>12, <1>13
  <2> QED
    BY <2>1, <2>2
<1>15. b.failed # {} \/ manifest.reasons # {} => b.partial
  BY <1>6, <1>7, <1>11, <1>12
<1>16. b.late => b.failed # {}
  BY <1>2, <1>6, <1>11
<1> QED
  BY <1>2, <1>6, <1>8, <1>11, <1>14, <1>15, <1>16

\* A shard is passed.
LEMMA RunAccounts == Accounts /\ RunShard => Accounts'
<1> SUFFICES ASSUME Accounts, RunShard PROVE Accounts'
  OBVIOUS
<1>1. /\ pc = "shards" /\ at <= Len(shards) /\ at' = at + 1
      /\ UNCHANGED <<pc, lim, manifest, shards, result>>
  BY DEF RunShard
<1>2. /\ Splits(shards) /\ Listing(results) /\ Listing(failures) /\ Answering /\ OnceEach
  BY DEF Accounts
<1>3. PICK n \in Nat : n = Len(shards) /\ at \in 1 .. n
  BY <1>1 DEF Accounts, Splits
<1>4. at' \in 1 .. n + 1 /\ at' - 1 = at /\ at \notin 1 .. at - 1 /\ 1 .. at = (1 .. at - 1) \cup {at}
      /\ (1 .. at - 1) \subseteq 1 .. at' - 1
  BY <1>1, <1>3
<1>5. InOrder'
  BY <1>1 DEF InOrder, Preparing
<1>6. \A a \in Range(results) : AnswerIsFor(a) /\ a.index # at
  BY <1>2, <1>4 DEF Answering, AnswerIsFor
<1>7. \A f \in Range(failures) : FailureIsFor(f) /\ f.index # at
  BY <1>2, <1>4 DEF Answering, FailureIsFor
<1>8. \A a : AnswerIsFor(a) => AnswerIsFor(a)'
  BY <1>1, <1>4 DEF AnswerIsFor
<1>9. \A f : FailureIsFor(f) => FailureIsFor(f)'
  BY <1>1, <1>4 DEF FailureIsFor
<1>10. \/ \E a \in Answers(at) : results' = Append(results, Annotated(a)) /\ failures' = failures
       \/ \E s \in {"failed", "timeout"} : results' = results /\ failures' = Append(failures, FailShard(at, s))
  BY DEF RunShard, Overrun
<1>11. ASSUME NEW a \in Answers(at), results' = Append(results, Annotated(a)), failures' = failures
       PROVE  Listing(results)' /\ Listing(failures)' /\ Answering' /\ OnceEach'
  <2>1. PICK b : b = Annotated(a)
    OBVIOUS
  <2>2. b.index = at /\ AnswerIsFor(b)'
    <3>1. at \in 1 .. at' - 1
      BY <1>3, <1>4
    <3> QED
      BY <1>1, <2>1, <3>1, AnswersAreFor DEF AnswerIsFor
  <2>3. Listing(results') /\ Range(results') = Range(results) \cup {b}
    BY <1>2, <1>11, <2>1, RangeOfAppend
  <2>4. Answering'
    BY <1>6, <1>7, <1>8, <1>9, <1>11, <2>2, <2>3 DEF Answering
  <2>5. OnceEach'
    <3>1. \A x, y \in Range(results') : x.index = y.index => x = y
      BY <1>2, <1>6, <2>2, <2>3 DEF OnceEach
    <3>2. \A x \in Range(results'), f \in Range(failures') : x.index # f.index
      BY <1>2, <1>7, <1>11, <2>2, <2>3 DEF OnceEach
    <3>3. \A i \in 1 .. at' - 1 : \/ \E x \in Range(results') : x.index = i
                                  \/ \E f \in Range(failures') : f.index = i
      BY <1>2, <1>4, <1>11, <2>2, <2>3 DEF OnceEach
    <3> QED
      BY <3>1, <3>2, <3>3 DEF OnceEach
  <2> QED
    BY <1>2, <1>11, <2>3, <2>4, <2>5 DEF Listing
<1>12. ASSUME NEW s \in {"failed", "timeout"}, results' = results, failures' = Append(failures, FailShard(at, s))
       PROVE  Listing(results)' /\ Listing(failures)' /\ Answering' /\ OnceEach'
  <2>1. PICK g : g = FailShard(at, s)
    OBVIOUS
  <2>2. g.index = at /\ FailureIsFor(g)'
    <3>1. at \in 1 .. at' - 1
      BY <1>3, <1>4
    <3> QED
      BY <1>1, <2>1, <3>1 DEF FailShard, FailureIsFor
  <2>3. Listing(failures') /\ Range(failures') = Range(failures) \cup {g}
    BY <1>2, <1>12, <2>1, RangeOfAppend
  <2>4. Answering'
    BY <1>6, <1>7, <1>8, <1>9, <1>12, <2>2, <2>3 DEF Answering
  <2>5. OnceEach'
    <3>1. \A x, y \in Range(results') : x.index = y.index => x = y
      BY <1>2, <1>12 DEF OnceEach
    <3>2. \A x \in Range(results'), f \in Range(failures') : x.index # f.index
      BY <1>2, <1>6, <1>12, <2>2, <2>3 DEF OnceEach
    <3>3. \A i \in 1 .. at' - 1 : \/ \E x \in Range(results') : x.index = i
                                  \/ \E f \in Range(failures') : f.index = i
      BY <1>2, <1>4, <1>12, <2>2, <2>3 DEF OnceEach
    <3> QED
      BY <3>1, <3>2, <3>3 DEF OnceEach
  <2> QED
    BY <1>2, <1>12, <2>3, <2>4, <2>5 DEF Listing
<1>13. Listing(results)' /\ Listing(failures)' /\ Answering' /\ OnceEach'
  BY <1>10, <1>11, <1>12
<1>14. lim' \in Limits /\ Splits(shards)' /\ at' \in 1 .. Len(shards') + 1
  BY <1>1, <1>3, <1>4 DEF Accounts, Splits
<1> QED
  BY <1>5, <1>13, <1>14 DEF Accounts

\* The shards for which no time is left: one failure for each.
LEMMA SkipAccounts == Accounts /\ SkipShards => Accounts'
<1> SUFFICES ASSUME Accounts, SkipShards PROVE Accounts'
  OBVIOUS
<1>1. PICK n \in Nat : n = Len(shards) /\ at \in 1 .. n /\ at' = n + 1
  BY DEF SkipShards, Accounts, Splits
<1>2. PICK k \in Int : k = at
  BY <1>1
<1>3. PICK late : late = [i \in 1 .. n - k + 1 |-> FailShard(k + i - 1, "timeout")]
  OBVIOUS
<1>4. /\ failures' = failures \o late /\ pc = "shards"
      /\ UNCHANGED <<pc, lim, manifest, shards, results, result>>
  BY <1>1, <1>2, <1>3 DEF SkipShards, invVars
<1>5. Splits(shards) /\ Listing(results) /\ Listing(failures) /\ Answering /\ OnceEach
  BY DEF Accounts
<1>6. InOrder'
  BY <1>4 DEF InOrder, Preparing
<1>7. Listing(late) /\ \A g \in Range(late) : \E i \in k .. n : g = FailShard(i, "timeout")
  <2>1. n - k + 1 \in Nat /\ DOMAIN late = 1 .. n - k + 1
    BY <1>1, <1>2, <1>3
  <2>2. late \in [1 .. n - k + 1 -> Range(late)]
    BY <1>3, <2>1 DEF Range
  <2>3. late \in Seq(Range(late))
    BY <2>1, <2>2
  <2>4. \A g \in Range(late) : \E i \in k .. n : g = FailShard(i, "timeout")
    <3> TAKE g \in Range(late)
    <3>1. PICK j \in 1 .. n - k + 1 : g = FailShard(k + j - 1, "timeout")
      BY <1>3, <2>1 DEF Range
    <3>2. k + j - 1 \in k .. n
      BY <1>1, <1>2
    <3> QED
      BY <3>1, <3>2
  <2> QED
    BY <2>3, <2>4 DEF Listing
<1>8. \A i \in k .. n : FailShard(i, "timeout") \in Range(late)
  <2> TAKE i \in k .. n
  <2>1. i - k + 1 \in 1 .. n - k + 1 /\ k + (i - k + 1) - 1 = i
    BY <1>1, <1>2
  <2>2. late[i - k + 1] = FailShard(i, "timeout")
    BY <1>3, <2>1
  <2> QED
    BY <1>3, <2>1, <2>2 DEF Range
<1>9. Listing(failures)' /\ Range(failures') = Range(failures) \cup Range(late)
  <2>1. Listing(failures \o late) /\ Range(failures \o late) = Range(failures) \cup Range(late)
    BY <1>5, <1>7, RangeOfConcat
  <2> QED
    BY <1>4, <2>1 DEF Listing
<1>10. at' - 1 = n /\ (1 .. k - 1) \subseteq (1 .. n) /\ 1 .. n = (1 .. k - 1) \cup (k .. n) /\ (1 .. k - 1) \cap (k .. n) = {}
       /\ (k .. n) \subseteq (1 .. n)
  BY <1>1, <1>2
<1>11. \A a \in Range(results) : AnswerIsFor(a)' /\ a.index \in 1 .. k - 1
  BY <1>2, <1>4, <1>5, <1>10 DEF Answering, AnswerIsFor
<1>12. \A f \in Range(failures) : FailureIsFor(f)'
  BY <1>2, <1>4, <1>5, <1>10 DEF Answering, FailureIsFor
<1>13. \A g \in Range(late) : FailureIsFor(g)' /\ g.index \in k .. n
  BY <1>4, <1>7, <1>10 DEF FailureIsFor, FailShard
<1>14. Answering'
  BY <1>4, <1>9, <1>11, <1>12, <1>13 DEF Answering
<1>15. OnceEach'
  <2>1. \A x, y \in Range(results') : x.index = y.index => x = y
    BY <1>4, <1>5 DEF OnceEach
  <2>2. \A x \in Range(results'), f \in Range(failures') : x.index # f.index
    BY <1>4, <1>5, <1>9, <1>10, <1>11, <1>13 DEF OnceEach
  <2>3. \A i \in 1 .. at' - 1 : \/ \E x \in Range(results') : x.index = i
                                \/ \E f \in Range(failures') : f.index = i
    <3> TAKE i \in 1 .. at' - 1
    <3>1. CASE i \in 1 .. k - 1
      BY <1>2, <1>4, <1>5, <1>9, <3>1 DEF OnceEach
    <3>2. CASE i \in k .. n
      <4>1. FailShard(i, "timeout").index = i
        BY DEF FailShard
      <4> QED
        BY <1>8, <1>9, <3>2, <4>1
    <3> QED
      BY <1>10, <3>1, <3>2
  <2> QED
    BY <2>1, <2>2, <2>3 DEF OnceEach
<1>16. lim' \in Limits /\ Splits(shards)' /\ Listing(results)' /\ at' \in 1 .. Len(shards') + 1
  BY <1>1, <1>4 DEF Accounts, Splits, Listing
<1> QED
  BY <1>6, <1>9, <1>14, <1>15, <1>16 DEF Accounts

\* The results are merged.
LEMMA FinishAccounts == Accounts /\ Finish => Accounts'
<1> SUFFICES ASSUME Accounts, Finish PROVE Accounts'
  OBVIOUS
<1>1. /\ pc = "shards" /\ at > Len(shards) /\ pc' \in {"failed", "done"}
      /\ pc' = "done" => results # << >> /\ result' = Merged
      /\ UNCHANGED <<lim, manifest, shards, at, results, failures>>
  BY DEF Finish
<1>2. Merged' = Merged
  BY <1>1 DEF Merged
<1>3. at = Len(shards) + 1
  BY <1>1 DEF Accounts, Splits
<1>4. InOrder'
  BY <1>1, <1>2, <1>3 DEF InOrder, Preparing
<1>5. Answering'
  BY <1>1 DEF Accounts, Answering, AnswerIsFor, FailureIsFor
<1>6. OnceEach'
  BY <1>1 DEF Accounts, OnceEach
<1> QED
  BY <1>1, <1>4, <1>5, <1>6 DEF Accounts, Listing, Splits

\* Every step.
LEMMA KeepsAccounts == Accounts /\ [Next]_tsVars => Accounts'
<1> SUFFICES ASSUME Accounts, [Next]_tsVars PROVE Accounts'
  OBVIOUS
<1>1. ASSUME UNCHANGED tsVars PROVE Accounts'
  <2>1. UNCHANGED <<pc, lim, manifest, shards, at, results, failures, result>>
    BY <1>1 DEF tsVars, invVars
  <2>2. Merged' = Merged
    BY <2>1 DEF Merged
  <2>3. InOrder'
    BY <2>1, <2>2 DEF Accounts, InOrder
  <2> QED
    BY <2>1, <2>3, UnchangedAccounts
<1> QED
  BY <1>1, InventoryAccounts, ManifestAccounts, RunAccounts, SkipAccounts, FinishAccounts DEF Next

-------------------------------------------------------------------------------
(* What is merged.                                                                *)

\* What is merged after the last shard accounts for every changed file.
LEMMA MergeAccounts ==
    ASSUME Accounts, pc = "done"
    PROVE  ResultAccountsForAll
<1>1. PICK n \in Nat : n = Len(shards) /\ DOMAIN shards = 1 .. n /\ at = n + 1 /\ at - 1 = n
  BY DEF Accounts, Splits, InOrder
<1>2. /\ Splits(shards) /\ Listing(results) /\ Listing(failures) /\ Answering /\ OnceEach /\ result = Merged
  BY DEF Accounts, InOrder
<1>3. \A a \in Range(results) :
        /\ a.index \in 1 .. n
        /\ a.failed \subseteq Range(shards[a.index]) /\ a.files = Range(shards[a.index]) \ a.failed
        /\ a.codes # {} <=> a.partial
        /\ a.failed # {} \/ manifest.reasons # {} => a.partial
        /\ a.late => a.failed # {}
  BY <1>1, <1>2 DEF Answering, AnswerIsFor
<1>4. \A f \in Range(failures) : f.index \in 1 .. n /\ f.files = Range(shards[f.index])
                              /\ f.status \in {"failed", "timeout"}
  BY <1>1, <1>2 DEF Answering, FailureIsFor, Splits
<1>5. \A i \in 1 .. n : \/ \E a \in Range(results) : a.index = i
                        \/ \E f \in Range(failures) : f.index = i
  BY <1>1, <1>2 DEF OnceEach
<1>6. \A i, j \in 1 .. n : i # j => Range(shards[i]) \cap Range(shards[j]) = {}
  BY <1>1, <1>2 DEF Splits
<1>7. UNION {Range(shards[i]) : i \in 1 .. n} = Range(Changed)
  BY <1>1, <1>2 DEF Splits
<1>8. failures = << >> <=> Range(failures) = {}
  BY <1>2, NoneListed
<1>9. /\ result.files = UNION {a.files : a \in Range(results)}
      /\ result.failed = (UNION {a.failed : a \in Range(results)}) \cup (UNION {f.files : f \in Range(failures)})
  BY <1>2 DEF Merged
<1>10. result.partial <=> (\E a \in Range(results) : a.partial) \/ failures # << >>
  BY <1>2 DEF Merged
<1>11. DOMAIN result.metrics = {a.index : a \in Range(results) \cup Range(failures)}
  BY <1>2 DEF Merged
<1>12. result.codes # {} <=> failures # << >> \/ \E a \in Range(results) : a.codes # {}
  <2>1. PICK codes : codes = UNION {a.codes : a \in Range(results)}
    OBVIOUS
  <2>2. codes # {} <=> \E a \in Range(results) : a.codes # {}
    BY <2>1
  <2>3. CASE failures = << >>
    BY <1>2, <2>1, <2>2, <2>3 DEF Merged
  <2>4. CASE failures # << >>
    <3>1. "changed_file_analysis_incomplete" \in result.codes
      BY <1>2, <2>4 DEF Merged
    <3> QED
      BY <2>4, <3>1
  <2> QED
    BY <2>3, <2>4
<1>13. result.files \cup result.failed = Range(Changed)
  <2>1. \A x \in Range(Changed) : x \in result.files \cup result.failed
    <3> TAKE x \in Range(Changed)
    <3>1. PICK i \in 1 .. n : x \in Range(shards[i])
      BY <1>7
    <3>2. CASE \E a \in Range(results) : a.index = i
      BY <1>3, <1>9, <3>1, <3>2
    <3>3. CASE \E f \in Range(failures) : f.index = i
      BY <1>4, <1>9, <3>1, <3>3
    <3> QED
      BY <1>5, <3>2, <3>3
  <2>2. \A x \in result.files \cup result.failed : x \in Range(Changed)
    <3> TAKE x \in result.files \cup result.failed
    <3>1. \E i \in 1 .. n : x \in Range(shards[i])
      BY <1>3, <1>4, <1>9
    <3> QED
      BY <1>7, <3>1
  <2> QED
    BY <2>1, <2>2
<1>14. result.files \cap result.failed = {}
  <2> SUFFICES ASSUME NEW x \in result.files, x \in result.failed PROVE FALSE
    OBVIOUS
  <2>1. PICK a \in Range(results) : x \in a.files
    BY <1>9
  <2>2. x \in Range(shards[a.index]) /\ x \notin a.failed /\ a.index \in 1 .. n
    BY <1>3, <2>1
  <2>3. ASSUME NEW b \in Range(results), x \in b.failed PROVE FALSE
    <3>1. x \in Range(shards[b.index]) /\ b.index \in 1 .. n
      BY <1>3, <2>3
    <3>2. b.index = a.index
      BY <1>6, <2>2, <3>1
    <3>3. b = a
      BY <1>2, <3>2 DEF OnceEach
    <3> QED
      BY <2>2, <2>3, <3>3
  <2>4. ASSUME NEW f \in Range(failures), x \in f.files PROVE FALSE
    <3>1. x \in Range(shards[f.index]) /\ f.index \in 1 .. n
      BY <1>4, <2>4
    <3>2. f.index = a.index
      BY <1>6, <2>2, <3>1
    <3> QED
      BY <1>2, <3>2 DEF OnceEach
  <2> QED
    BY <1>9, <2>3, <2>4
<1>15. result.failed # {} \/ manifest.reasons # {} => result.partial
  <2>1. Range(results) # {}
    BY <1>2, NoneListed DEF Accounts, InOrder
  <2> QED
    BY <1>3, <1>8, <1>9, <1>10, <2>1
<1>16. result.partial <=> result.codes # {}
  BY <1>3, <1>10, <1>12
<1>17. DOMAIN result.metrics = DOMAIN shards
  BY <1>1, <1>3, <1>4, <1>5, <1>11
<1>18. \A a \in Range(results) : result.metrics[a.index] = StatusOf(a)
  <2> TAKE a \in Range(results)
  <2>1. \A b \in Range(results) : b.index = a.index => b = a
    BY <1>2 DEF OnceEach
  <2>2. (CHOOSE b \in Range(results) : b.index = a.index) = a
    BY <2>1
  <2> QED
    BY <1>1, <1>2, <1>3, <1>11, <2>2 DEF Merged
<1>19. \A f \in Range(failures) : result.metrics[f.index] \in {"failed", "timeout"}
  <2> TAKE f \in Range(failures)
  <2>1. ~\E a \in Range(results) : a.index = f.index
    BY <1>2 DEF OnceEach
  <2>2. PICK g : g = CHOOSE h \in Range(failures) : h.index = f.index
    OBVIOUS
  <2>3. g \in Range(failures)
    BY <2>2
  <2>4. result.metrics[f.index] = g.status
    BY <1>2, <1>11, <2>1, <2>2 DEF Merged
  <2> QED
    BY <1>4, <2>3, <2>4
<1>20. \A a \in Range(results) : StatusOf(a) = "complete" <=> ~a.partial
  BY <1>3 DEF StatusOf
<1>21. result.partial <=> \E i \in DOMAIN shards : result.metrics[i] # "complete"
  <2>1. ASSUME NEW a \in Range(results), a.partial
        PROVE  \E i \in DOMAIN shards : result.metrics[i] # "complete"
    BY <1>1, <1>3, <1>18, <1>20, <2>1
  <2>2. ASSUME failures # << >> PROVE \E i \in DOMAIN shards : result.metrics[i] # "complete"
    <3>1. PICK f \in Range(failures) : TRUE
      BY <1>8, <2>2
    <3>2. f.index \in DOMAIN shards /\ result.metrics[f.index] # "complete"
      BY <1>1, <1>4, <1>19
    <3> QED
      BY <3>2
  <2>3. ASSUME NEW i \in DOMAIN shards, result.metrics[i] # "complete" PROVE result.partial
    <3>1. CASE \E a \in Range(results) : a.index = i
      BY <1>10, <1>18, <1>20, <2>3, <3>1
    <3>2. CASE \E f \in Range(failures) : f.index = i
      BY <1>8, <1>10, <3>2
    <3> QED
      BY <1>1, <1>5, <3>1, <3>2
  <2> QED
    BY <1>10, <2>1, <2>2, <2>3
<1>22. ASSUME NEW i \in DOMAIN shards, result.metrics[i] = "complete"
       PROVE  Range(shards[i]) \subseteq result.files
  <2>1. \A f \in Range(failures) : f.index # i
    BY <1>19, <1>22
  <2>2. PICK a \in Range(results) : a.index = i
    BY <1>1, <1>5, <2>1
  <2>3. ~a.partial
    BY <1>18, <1>20, <1>22, <2>2
  <2>4. a.files = Range(shards[i])
    BY <1>3, <2>2, <2>3
  <2> QED
    BY <1>9, <2>4
<1> QED
  BY <1>13, <1>14, <1>15, <1>16, <1>17, <1>21, <1>22 DEF ResultAccountsForAll

\* When the analysis is done, every changed file is in the result, analyzed or failed, and
\* every shard is reported once; whatever a Node process met a limit in, the result is
\* partial exactly when a shard is not reported complete, and then says why
\* (_run_typescript_analyzer_shards, _merge_analyzer_results).
THEOREM AlwaysAccounts == Spec => []ResultAccountsForAll
<1>1. Accounts => ResultAccountsForAll
  <2>1. pc # "done" => ResultAccountsForAll
    BY DEF ResultAccountsForAll
  <2> QED
    BY <2>1, MergeAccounts
<1> QED
  BY <1>1, StartsAccounting, KeepsAccounts, PTL DEF Spec

-------------------------------------------------------------------------------
(* Part four, the manifest is within what its reader accepts.  Paths are taken while *)
(* they fit.                                                                   *)

TakenTrace(g, offered, allowed, n) ==
  g = [i \in 0..n |-> IF i = 0 THEN {} ELSE Take(g[i - 1], offered[i], allowed)]

\* The taken sets round by round.
LEMMA TakenRounds ==
    ASSUME NEW offered, NEW allowed, NEW n \in Nat
    PROVE  \E g : TakenTrace(g, offered, allowed, n)
<1> DEFINE Is(g, m) == g = [i \in 0..m |-> IF i = 0 THEN {} ELSE Take(g[i - 1], offered[i], allowed)]
           T == {m \in Nat : \E g : Is(g, m)}
<1>1. 0 \in T
  <2>1. PICK g : g = [i \in 0..0 |-> {}]
    OBVIOUS
  <2>2. Is(g, 0)
    BY <2>1
  <2> QED
    BY <2>2
<1>2. ASSUME NEW m \in T PROVE m + 1 \in T
  <2>1. m \in Nat /\ m + 1 \in Nat
    OBVIOUS
  <2>2. PICK g : Is(g, m)
    OBVIOUS
  <2>3. PICK next : next = Take(g[m], offered[m + 1], allowed)
    OBVIOUS
  <2>4. PICK h : h = [i \in 0..m + 1 |-> IF i \in 0..m THEN g[i] ELSE next]
    OBVIOUS
  <2>5. ASSUME NEW i \in 0..m + 1
        PROVE  h[i] = IF i = 0 THEN {} ELSE Take(h[i - 1], offered[i], allowed)
    <3>1. CASE i = 0
      BY <2>1, <2>2, <2>4, <3>1
    <3>2. CASE i \in 1..m
      <4>1. i - 1 \in 0..m /\ i \in 0..m /\ i # 0 /\ i - 1 \in 0..m + 1
        BY <2>1, <3>2
      <4>2. h[i] = g[i] /\ h[i - 1] = g[i - 1]
        BY <2>4, <4>1
      <4>3. g[i] = Take(g[i - 1], offered[i], allowed)
        BY <2>2, <4>1
      <4> QED
        BY <4>1, <4>2, <4>3
    <3>3. CASE i = m + 1
      <4>1. i - 1 = m /\ i \notin 0..m /\ m \in 0..m /\ i # 0
        BY <2>1, <3>3
      <4>2. h[i] = next /\ h[m] = g[m]
        BY <2>1, <2>4, <4>1
      <4> QED
        BY <2>3, <3>3, <4>1, <4>2
    <3> QED
      BY <2>1, <3>1, <3>2, <3>3
  <2>6. Is(h, m + 1)
    BY <2>4, <2>5
  <2> QED
    BY <2>1, <2>6
<1>3. T = Nat
  <2> HIDE DEF T
  <2>1. T \subseteq Nat
    BY DEF T
  <2> QED
    BY <1>1, <1>2, <2>1, Induction
<1> QED
  BY <1>3 DEF TakenTrace

\* What is taken is allowed.
LEMMA TakenIsAllowed ==
    ASSUME NEW offered, Len(offered) \in Nat, NEW allowed, {} \in allowed
    PROVE  Taken(offered, allowed) \in allowed
<1>1. PICK n \in Nat : n = Len(offered)
  OBVIOUS
<1>2. PICK g : g = CHOOSE h : TakenTrace(h, offered, allowed, n)
  OBVIOUS
<1>3. TakenTrace(g, offered, allowed, n)
  BY <1>2, TakenRounds, Zenon
<1>4. Taken(offered, allowed) = g[n]
  BY <1>1, <1>2 DEF Taken, TakenTrace
<1> DEFINE T == {k \in Nat : k \in 0..n => g[k] \in allowed}
<1>5. 0 \in T
  <2>1. g[0] = {}
    BY <1>1, <1>3 DEF TakenTrace
  <2> QED
    BY <2>1
<1>6. ASSUME NEW k \in T PROVE k + 1 \in T
  <2>1. k \in Nat /\ k + 1 \in Nat
    OBVIOUS
  <2>2. ASSUME k + 1 \in 0..n PROVE g[k + 1] \in allowed
    <3>1. k \in 0..n /\ k + 1 # 0 /\ (k + 1) - 1 = k
      BY <1>1, <2>1, <2>2
    <3>2. g[k + 1] = Take(g[k], offered[k + 1], allowed)
      BY <1>3, <2>2, <3>1 DEF TakenTrace
    <3>3. g[k] \in allowed
      BY <3>1
    <3> QED
      BY <3>2, <3>3 DEF Take
  <2> QED
    BY <2>1, <2>2
<1>7. T = Nat
  <2> HIDE DEF T
  <2>1. T \subseteq Nat
    BY DEF T
  <2> QED
    BY <1>5, <1>6, <2>1, Induction
<1>8. n \in 0..n
  OBVIOUS
<1>9. n \in T
  <2> HIDE DEF T
  <2> QED
    BY <1>7
<1> QED
  BY <1>4, <1>8, <1>9

\* The list that a section prefers has a length.
LEMMA PreferredLists ==
    ASSUME NEW section, NEW ps, NEW reach
    PROVE  Len(Preferred(section, ps, reach)) \in Nat
<1>1. \A S : Sorted(S) \in Seq(Paths)
  BY InventoryAssumption, ThoseKept DEF Sorted
<1>2. \E a, b : Preferred(section, ps, reach) = Sorted(a) \o Sorted(b)
  BY DEF Preferred
<1>3. \A a, b \in Seq(Paths) : Len(a \o b) \in Nat
  OBVIOUS
<1> QED
  BY <1>1, <1>2, <1>3

\* Bytes are never negative,
LEMMA BytesArePositive ==
    ASSUME NEW s \in SUBSET Paths, IsFiniteSet(s)
    PROVE  BytesOf(s) \in Nat
<1> DEFINE T == {n \in Nat : \A t \in SUBSET Paths : IsFiniteSet(t) /\ Cardinality(t) = n => BytesOf(t) \in Nat}
<1>1. 0 \in T
  <2>1. \A t \in SUBSET Paths : IsFiniteSet(t) /\ Cardinality(t) = 0 => t = {}
    BY FS_EmptySet
  <2>2. BytesOf({}) = 0
    BY BytesAdd
  <2> QED
    BY <2>1, <2>2
<1>2. ASSUME NEW n \in T PROVE n + 1 \in T
  <2>1. n \in Nat /\ n + 1 \in Nat
    OBVIOUS
  <2>2. ASSUME NEW t \in SUBSET Paths, IsFiniteSet(t), Cardinality(t) = n + 1 PROVE BytesOf(t) \in Nat
    <3>1. t # {}
      BY <2>1, <2>2, FS_EmptySet
    <3>2. PICK p \in t : TRUE
      BY <3>1
    <3>3. IsFiniteSet(t \ {p}) /\ Cardinality(t \ {p}) = Cardinality(t) - 1
      BY <2>2, FS_RemoveElement
    <3>4. Cardinality(t \ {p}) = n
      BY <2>1, <2>2, <3>3
    <3>5. BytesOf(t \ {p}) \in Nat
      BY <3>3, <3>4
    <3>6. BytesOf(t \ {p}) = BytesOf(t) - Bytes[p] /\ BytesOf(t) \in Int
      BY <2>2, BytesAdd
    <3>7. Bytes[p] \in Nat
      BY PathsAssumption
    <3> QED
      BY <3>5, <3>6, <3>7
  <2> QED
    BY <2>1, <2>2
<1>3. T = Nat
  <2> HIDE DEF T
  <2>1. T \subseteq Nat
    BY DEF T
  <2> QED
    BY <1>1, <1>2, <2>1, Induction
<1>4. PICK n \in Nat : n = Cardinality(s)
  BY FS_CardinalityType
<1>5. n \in T
  <2> HIDE DEF T
  <2> QED
    BY <1>3
<1> QED
  BY <1>4, <1>5

\* nor are encoded sizes.
LEMMA SizesArePositive ==
    ASSUME NEW s \in SUBSET Paths, IsFiniteSet(s)
    PROVE  SizeOf(s) \in Nat /\ SizeOf({}) = 0
<1>1. BytesOf(s) \in Nat /\ Cardinality(s) \in Nat /\ BytesOf({}) = 0 /\ Cardinality({}) = 0
  BY BytesArePositive, BytesAdd, FS_CardinalityType, FS_EmptySet
<1>2. s # {} => Cardinality(s) # 0
  BY FS_EmptySet
<1> QED
  BY <1>1, <1>2 DEF SizeOf

-------------------------------------------------------------------------------
(* The bytes of a manifest are shared by its sections.                         *)

LEMMA MoreThanNothing == ASSUME NEW n \in Nat PROVE Max({0, n}) = n
<1>1. \A x \in {0, n} : (\A y \in {0, n} : x >= y) => x = n
  OBVIOUS
<1>2. \E x \in {0, n} : \A y \in {0, n} : x >= y
  OBVIOUS
<1>3. Max({0, n}) \in {0, n} /\ \A y \in {0, n} : Max({0, n}) >= y
  BY <1>2, Zenon DEF Max
<1> QED
  BY <1>1, <1>3

\* A fair share of the rest is there to be given.
LEMMA ShareIsThere ==
    ASSUME NEW size \in Nat, NEW rest \in Nat, NEW n \in Nat, size > 0 => n > 0
    PROVE  FairShare(size, rest, n) \in Nat /\ FairShare(size, rest, n) <= rest /\ FairShare(size, rest, n) <= size
<1>1. CASE size > 0
  <2>1. PICK q : q = rest \div n
    OBVIOUS
  <2>2. n \in Nat \ {0}
    BY <1>1
  <2>3. q \in Nat /\ q * n <= rest
    BY <2>1, <2>2, Quotient
  <2>4. q <= rest
    <3>1. q * n = q + q * (n - 1) /\ q * (n - 1) >= 0
      BY <2>2, <2>3
    <3> QED
      BY <2>2, <2>3, <3>1
  <2>5. FairShare(size, rest, n) = Min({size, q})
    BY <1>1, <2>1 DEF FairShare
  <2>6. Min({size, q}) = IF size <= q THEN size ELSE q
    BY <2>3, LessOfTwo
  <2> QED
    BY <2>3, <2>4, <2>5, <2>6
<1>2. CASE ~(size > 0)
  <2>1. FairShare(size, rest, n) = 0
    BY <1>2 DEF FairShare
  <2> QED
    BY <2>1
<1> QED
  BY <1>1, <1>2

\* A section that wants bytes is counted.
LEMMA WantingCounts ==
    ASSUME NEW sizes \in [Sections -> Nat], NEW S \in SUBSET Sections
    PROVE  Wanting(sizes, S) \in Nat /\ \A s \in S : sizes[s] > 0 => Wanting(sizes, S) > 0
<1>1. IsFiniteSet(Sections)
  <2>1. IsFiniteSet({"files"}) /\ IsFiniteSet({"package_files"}) /\ IsFiniteSet({"config_files"})
    BY FS_Singleton
  <2>2. IsFiniteSet({"files"} \cup {"package_files"})
    BY <2>1, FS_Union
  <2>3. IsFiniteSet(({"files"} \cup {"package_files"}) \cup {"config_files"})
    BY <2>1, <2>2, FS_Union
  <2>4. Sections = ({"files"} \cup {"package_files"}) \cup {"config_files"}
    BY DEF Sections
  <2> QED
    BY <2>3, <2>4
<1>2. PICK W : W = {s \in S : sizes[s] > 0}
  OBVIOUS
<1>3. IsFiniteSet(W)
  BY <1>1, <1>2, FS_Subset
<1>4. Cardinality(W) \in Nat /\ (W # {} => Cardinality(W) # 0)
  BY <1>3, FS_CardinalityType, FS_EmptySet
<1>5. Wanting(sizes, S) = Cardinality(W)
  BY <1>2 DEF Wanting
<1> QED
  BY <1>2, <1>4, <1>5

\* What a section gets of the rest is within it.
LEMMA LeftOver ==
    ASSUME NEW size \in Nat, NEW share \in Nat, share <= size, NEW rest \in Nat,
           NEW more, more = Min({size - share, rest})
    PROVE  more \in Nat /\ more <= rest
<1>1. more = IF size - share <= rest THEN size - share ELSE rest
  BY LessOfTwo
<1> QED
  BY <1>1

\* No section has less than nothing, and together they have no more than there is.
LEMMA RoomIsShared ==
    ASSUME NEW sizes \in [Sections -> Nat], NEW available \in Nat, NEW room, room = Allocated(sizes, available)
    PROVE  /\ \A s \in Sections : room[s] \in Nat
           /\ room["files"] + room["package_files"] + room["config_files"] <= available
<1>1. PICK fs \in Nat, ps \in Nat, cs \in Nat :
        fs = sizes["files"] /\ ps = sizes["package_files"] /\ cs = sizes["config_files"]
  BY DEF Sections
<1>2. PICK n1 \in Nat : n1 = Wanting(sizes, Sections) /\ (ps > 0 => n1 > 0)
  <2>1. "package_files" \in Sections
    BY DEF Sections
  <2> QED
    BY <1>1, <2>1, WantingCounts
<1>3. PICK n2 \in Nat : n2 = Wanting(sizes, {"config_files", "files"}) /\ (cs > 0 => n2 > 0)
  <2>1. {"config_files", "files"} \in SUBSET Sections /\ "config_files" \in {"config_files", "files"}
    BY DEF Sections
  <2> QED
    BY <1>1, <2>1, WantingCounts
<1>4. PICK package : package = FairShare(ps, available, n1)
  OBVIOUS
<1>5. package \in Nat /\ package <= available /\ package <= ps
  BY <1>2, <1>4, ShareIsThere
<1>6. PICK left1 \in Nat : left1 = available - package
  BY <1>5
<1>7. PICK config : config = FairShare(cs, left1, n2)
  OBVIOUS
<1>8. config \in Nat /\ config <= left1 /\ config <= cs
  BY <1>3, <1>7, ShareIsThere
<1>9. PICK left2 \in Nat : left2 = left1 - config
  BY <1>8
<1>10. PICK files : files = FairShare(fs, left2, 1)
  OBVIOUS
<1>11. files \in Nat /\ files <= left2 /\ files <= fs
  BY <1>10, ShareIsThere
<1>12. PICK left3 \in Nat : left3 = left2 - files
  BY <1>11
<1>13. room = WithRest(sizes, package, config, files, left3)
  <2>1. Max({0, available}) = available
    BY MoreThanNothing
  <2>2. left1 = available - package /\ left2 = available - package - config /\ left3 = available - package - config - files
    BY <1>5, <1>6, <1>8, <1>9, <1>11, <1>12
  <2> QED
    BY <1>1, <1>2, <1>3, <1>4, <1>7, <1>10, <2>1, <2>2, Zenon DEF Allocated
<1>14. PICK f : f = Min({fs - files, left3})
  OBVIOUS
<1>15. f \in Nat /\ f <= left3
  BY <1>11, <1>14, LeftOver
<1>16. PICK c : c = Min({cs - config, left3 - f})
  OBVIOUS
<1>17. c \in Nat /\ c <= left3 - f
  <2>1. left3 - f \in Nat
    BY <1>15
  <2> QED
    BY <1>8, <1>16, <2>1, LeftOver
<1>18. PICK p : p = Min({ps - package, left3 - f - c})
  OBVIOUS
<1>19. p \in Nat /\ p <= left3 - f - c
  <2>1. left3 - f - c \in Nat
    BY <1>15, <1>17
  <2> QED
    BY <1>5, <1>18, <2>1, LeftOver
<1>20. room = [package_files |-> package + p, config_files |-> config + c, files |-> files + f]
  BY <1>1, <1>13, <1>14, <1>16, <1>18, Zenon DEF WithRest
<1>21. room["package_files"] = package + p /\ room["config_files"] = config + c /\ room["files"] = files + f
  BY <1>20
<1>22. (files + f) + (package + p) + (config + c) <= available
  BY <1>5, <1>6, <1>8, <1>9, <1>11, <1>12, <1>15, <1>17, <1>19
<1>23. files + f \in Nat /\ package + p \in Nat /\ config + c \in Nat
  BY <1>5, <1>8, <1>11, <1>15, <1>17, <1>19
<1> QED
  BY <1>21, <1>22, <1>23 DEF Sections

-------------------------------------------------------------------------------
(* A manifest that fits.                                                       *)

LEMMA EntriesLimited ==
    ASSUME lim \in Limits, NEW section, NEW ps, NEW reach
    PROVE  /\ LimitedByEntries(section, ps, reach) \in SUBSET ps
           /\ Cardinality(LimitedByEntries(section, ps, reach)) <= lim.entries
<1>1. lim.entries \in Nat
  BY InventoryAssumption
<1>2. PICK allowed : allowed = {K \in SUBSET ps : Cardinality(K) <= lim.entries}
  OBVIOUS
<1>3. {} \in allowed
  <2>1. Cardinality({}) = 0
    BY FS_EmptySet
  <2> QED
    BY <1>1, <1>2, <2>1
<1>4. LimitedByEntries(section, ps, reach) = Taken(Preferred(section, ps, reach), allowed)
  BY <1>2 DEF LimitedByEntries
<1>5. LimitedByEntries(section, ps, reach) \in allowed
  BY <1>3, <1>4, PreferredLists, TakenIsAllowed
<1> QED
  BY <1>2, <1>5

\* A section limited by bytes is within its bytes.
LEMMA BytesLimited ==
    ASSUME NEW section, NEW ps \in SUBSET Paths, IsFiniteSet(ps), NEW reach, NEW limit \in Nat
    PROVE  /\ LimitedByBytes(section, ps, reach, limit) \in SUBSET ps
           /\ SizeOf(LimitedByBytes(section, ps, reach, limit)) <= limit
<1>1. PICK allowed : allowed = {K \in SUBSET ps : SizeOf(K) <= limit}
  OBVIOUS
<1>2. {} \in allowed
  <2>1. SizeOf({}) = 0
    BY SizesArePositive
  <2> QED
    BY <1>1, <2>1
<1>3. LimitedByBytes(section, ps, reach, limit) = Taken(Preferred(section, ps, reach), allowed)
  BY <1>1 DEF LimitedByBytes
<1>4. LimitedByBytes(section, ps, reach, limit) \in allowed
  BY <1>2, <1>3, PreferredLists, TakenIsAllowed
<1> QED
  BY <1>1, <1>4

\* Lists that are within the limits of the reader of the manifest.
WithinReader(m) ==
  /\ m.size <= lim.manifestBytes
  /\ \A s \in Sections : Cardinality(m.lists[s]) <= lim.entries

\* The size of an empty manifest with its reasons is a number.
LEMMA ManifestMarked ==
    ASSUME NEW reasons, IsFiniteSet(reasons)
    PROVE  MarkedSize(reasons) \in Nat
<1>1. Cardinality(reasons) \in Nat /\ ReasonBytes \in Nat /\ BaseBytes \in Nat
  BY FS_CardinalityType, ManifestAssumption
<1>2. ReasonBytes * Cardinality(reasons) \in Nat
  BY <1>1
<1> QED
  BY <1>1, <1>2 DEF MarkedSize

\* A manifest that is written fits its reader, also the one that was emptied because the
\* first was too heavy.
LEMMA FittedWithin ==
    ASSUME lim \in Limits, NEW chosen \in [Sections -> SUBSET Paths],
           \A s \in Sections : IsFiniteSet(chosen[s]) /\ Cardinality(chosen[s]) <= lim.entries,
           NEW heavy \in BOOLEAN, NEW reach, NEW said, IsFiniteSet(said),
           ~heavy => StreamedSize(chosen, said) <= lim.manifestBytes,
           NEW m, m = Fitted(chosen, heavy, reach, said), m.fits
    PROVE  WithinReader(m)
<1>1. PICK sizes : sizes = [s \in Sections |-> SizeOf(chosen[s])]
  OBVIOUS
<1>2. sizes \in [Sections -> Nat]
  <2>1. \A s \in Sections : SizeOf(chosen[s]) \in Nat
    BY SizesArePositive
  <2> QED
    BY <1>1, <2>1
<1>3. PICK marked \in Nat : marked = MarkedSize(said)
  BY ManifestMarked
<1>4. lim.manifestBytes \in Nat /\ lim.entries \in Nat
  BY InventoryAssumption, ManifestAssumption
<1>5. PICK room : room = Allocated(sizes, lim.manifestBytes - marked)
  OBVIOUS
<1>6. PICK lists : lists = Written(chosen, heavy, reach, room)
  OBVIOUS
<1>7. PICK fits \in BOOLEAN : fits <=> marked <= lim.manifestBytes
  OBVIOUS
<1>8. m.lists = lists /\ m.size = StreamedSize(lists, said) /\ marked <= lim.manifestBytes
  <2>1. (marked <= lim.manifestBytes) = fits
    BY <1>7
  <2>2. m = [lists |-> lists, reasons |-> said, fits |-> fits, size |-> StreamedSize(lists, said)]
    BY <1>1, <1>3, <1>5, <1>6, <2>1, Zenon DEF Fitted
  <2>3. m.fits = fits /\ m.lists = lists /\ m.size = StreamedSize(lists, said)
    BY <2>2
  <2> QED
    BY <1>7, <2>3
<1>9. PICK available \in Nat : available = lim.manifestBytes - marked
  BY <1>3, <1>4, <1>8
<1>10. /\ \A s \in Sections : room[s] \in Nat
       /\ room["files"] + room["package_files"] + room["config_files"] <= available
  BY <1>2, <1>5, <1>9, RoomIsShared
<1>11. CASE ~heavy
  <2>1. \A s \in Sections : lists[s] = chosen[s]
    BY <1>6, <1>11 DEF Written
  <2>2. StreamedSize(lists, said) = StreamedSize(chosen, said)
    BY <2>1 DEF StreamedSize, Sections
  <2> QED
    BY <1>8, <1>11, <2>1, <2>2 DEF WithinReader
<1>12. CASE heavy
  <2>1. ASSUME NEW s \in Sections
        PROVE  /\ lists[s] \in SUBSET chosen[s] /\ SizeOf(lists[s]) <= room[s] /\ SizeOf(lists[s]) \in Nat
               /\ Cardinality(lists[s]) <= lim.entries
    <3>1. lists[s] = LimitedByBytes(s, chosen[s], reach, room[s])
      BY <1>6, <1>12 DEF Written
    <3>0. chosen[s] \in SUBSET Paths /\ IsFiniteSet(chosen[s]) /\ room[s] \in Nat
      BY <1>10
    <3>2. lists[s] \in SUBSET chosen[s] /\ SizeOf(lists[s]) <= room[s]
      BY <3>0, <3>1, BytesLimited
    <3>3. IsFiniteSet(lists[s]) /\ Cardinality(lists[s]) <= Cardinality(chosen[s])
      BY <3>2, FS_Subset
    <3>4. SizeOf(lists[s]) \in Nat
      BY <3>2, <3>3, SizesArePositive
    <3>5. Cardinality(lists[s]) \in Nat /\ Cardinality(chosen[s]) \in Nat
      BY <3>3, FS_CardinalityType
    <3> QED
      BY <1>4, <3>2, <3>3, <3>4, <3>5
  <2>2. "files" \in Sections /\ "package_files" \in Sections /\ "config_files" \in Sections
    BY DEF Sections
  <2>3. PICK a \in Nat, b \in Nat, c \in Nat :
          a = SizeOf(lists["files"]) /\ b = SizeOf(lists["package_files"]) /\ c = SizeOf(lists["config_files"])
    BY <2>1, <2>2
  <2>4. PICK x \in Nat, y \in Nat, z \in Nat :
          x = room["files"] /\ y = room["package_files"] /\ z = room["config_files"]
    BY <1>10, <2>2
  <2>5. a <= x /\ b <= y /\ c <= z
    BY <2>1, <2>2, <2>3, <2>4
  <2>6. x + y + z <= available
    BY <1>10, <2>4
  <2>7. StreamedSize(lists, said) = marked + a + b + c
    BY <1>3, <2>3 DEF StreamedSize
  <2>8. marked + a + b + c <= lim.manifestBytes
    BY <1>3, <1>4, <1>9, <2>5, <2>6
  <2> QED
    BY <1>8, <2>1, <2>7, <2>8 DEF WithinReader
<1> QED
  BY <1>11, <1>12

\* A manifest whose reasons fit is within the limits of its reader.
LEMMA ManifestWithin ==
    ASSUME lim \in Limits, NEW paths \in SUBSET Paths, IsFiniteSet(paths), NEW reach,
           NEW reasons, IsFiniteSet(reasons), NEW m, m = Manifest(paths, reach, reasons), m.fits
    PROVE  WithinReader(m)
<1>1. PICK matching : matching = [s \in Sections |-> {p \in paths : InSection(s, p, reach)}]
  OBVIOUS
<1>2. PICK chosen : chosen = [s \in Sections |-> LimitedByEntries(s, matching[s], reach)]
  OBVIOUS
<1>3. ASSUME NEW s \in Sections
      PROVE  chosen[s] \in SUBSET Paths /\ IsFiniteSet(chosen[s]) /\ Cardinality(chosen[s]) <= lim.entries
  <2>1. matching[s] \in SUBSET paths
    BY <1>1
  <2>2. chosen[s] = LimitedByEntries(s, matching[s], reach)
    BY <1>2
  <2>3. chosen[s] \in SUBSET matching[s] /\ Cardinality(chosen[s]) <= lim.entries
    BY <2>2, EntriesLimited
  <2>4. chosen[s] \in SUBSET paths
    BY <2>1, <2>3
  <2> QED
    BY <2>3, <2>4, FS_Subset
<1>4. chosen \in [Sections -> SUBSET Paths]
  BY <1>2, <1>3
<1>5. PICK cut \in BOOLEAN : cut <=> \E s \in Sections : Cardinality(matching[s]) > lim.entries
  OBVIOUS
<1>6. PICK heavy \in BOOLEAN :
        heavy <=> StreamedSize(chosen, reasons \cup PartialReason(cut, FALSE)) > lim.manifestBytes
  OBVIOUS
<1>7. PICK said : said = reasons \cup PartialReason(cut, heavy)
  OBVIOUS
<1>8. IsFiniteSet(said)
  <2>1. PartialReason(cut, heavy) \subseteq ({"manifest-both"} \cup {"manifest-entries"}) \cup {"manifest-bytes"}
    BY DEF PartialReason
  <2>2. IsFiniteSet({"manifest-both"}) /\ IsFiniteSet({"manifest-entries"}) /\ IsFiniteSet({"manifest-bytes"})
    BY FS_Singleton
  <2>3. IsFiniteSet({"manifest-both"} \cup {"manifest-entries"})
    BY <2>2, FS_Union
  <2>4. IsFiniteSet(({"manifest-both"} \cup {"manifest-entries"}) \cup {"manifest-bytes"})
    BY <2>2, <2>3, FS_Union
  <2>5. IsFiniteSet(PartialReason(cut, heavy))
    BY <2>1, <2>4, FS_Subset
  <2> QED
    BY <1>7, <2>5, FS_Union
<1>9. m = Fitted(chosen, heavy, reach, said)
  <2>1. (\E s \in Sections : Cardinality(matching[s]) > lim.entries) = cut
    BY <1>5
  <2>2. (StreamedSize(chosen, reasons \cup PartialReason(cut, FALSE)) > lim.manifestBytes) = heavy
    BY <1>6
  <2>3. m = Weighed(chosen, cut, heavy, reach, reasons)
    BY <1>1, <1>2, <2>1, <2>2, Zenon DEF Manifest
  <2> QED
    BY <1>7, <2>3, Zenon DEF Weighed
<1>10. ASSUME ~heavy PROVE StreamedSize(chosen, said) <= lim.manifestBytes
  <2>1. heavy = FALSE
    BY <1>10
  <2>2. said = reasons \cup PartialReason(cut, FALSE)
    BY <1>7, <2>1
  <2>3. StreamedSize(chosen, said) \in Int /\ lim.manifestBytes \in Nat
    <3>1. MarkedSize(said) \in Nat
      BY <1>8, ManifestMarked
    <3>2. /\ SizeOf(chosen["files"]) \in Nat /\ SizeOf(chosen["package_files"]) \in Nat
          /\ SizeOf(chosen["config_files"]) \in Nat
      BY <1>3, SizesArePositive DEF Sections
    <3> QED
      BY <3>1, <3>2, ManifestAssumption DEF StreamedSize
  <2> QED
    BY <1>6, <1>10, <2>2, <2>3
<1> QED
  BY <1>3, <1>4, <1>8, <1>9, <1>10, FittedWithin

-------------------------------------------------------------------------------
(* Limited is inductive.                                                       *)

Limited == Inventoried /\ (pc = "shards" => WithinReader(manifest))

\* The initial states, and then every step of an analysis.
LEMMA StartsLimited == Init => Limited
<1> SUFFICES ASSUME Init PROVE Limited
  OBVIOUS
<1>1. Inventoried
  BY InventoryStarts
<1>2. pc = "start"
  BY DEF Init, InvInit
<1> QED
  BY <1>1, <1>2 DEF Limited

LEMMA InventoryLimited == Limited /\ InventoryStep /\ UNCHANGED outVars => Limited'
<1> SUFFICES ASSUME Limited, InventoryStep, UNCHANGED outVars PROVE Limited'
  OBVIOUS
<1>1. Inventoried'
  BY InventoryKeeps DEF Limited
<1>2. Prepares
  BY InventoryPrepares
<1>3. manifest' = manifest /\ lim' = lim /\ (pc' = "shards" => pc = "shards")
  BY <1>2 DEF outVars, Prepares, Preparing
<1> QED
  BY <1>1, <1>3 DEF Limited, WithinReader

LEMMA ManifestLimited == Limited /\ WriteManifest => Limited'
<1> SUFFICES ASSUME Limited, WriteManifest PROVE Limited'
  OBVIOUS
<1>1. /\ lim \in Limits /\ order \in Orders
      /\ DOMAIN git = GitFields /\ DOMAIN walk = WalkFields /\ DOMAIN chk = ChkFields
  BY DEF Limited, Inventoried
<1>2. /\ pc = "manifest" /\ ret' = NoRet /\ UNCHANGED <<lim, order, git, walk, chk>>
      /\ pc' = IF inv.broken \/ ~manifest'.fits THEN "failed" ELSE "shards"
  BY DEF WriteManifest
<1>3. inv.paths \in Seq(Paths) /\ IsFiniteSet(inv.reasons)
  BY <1>2 DEF Limited, Inventoried
<1>4. PICK paths, bad : /\ paths = FirstOfKeys(Range(inv.paths))
                        /\ manifest' = Manifest(paths, Reachable(Sorted(paths), bad).keys,
                                                inv.reasons \cup Reachable(Sorted(paths), bad).reasons)
  BY DEF WriteManifest
<1>5. paths \in SUBSET Paths /\ IsFiniteSet(paths)
  <2>1. IsFiniteSet(Range(inv.paths)) /\ Range(inv.paths) \subseteq Paths
    BY <1>3, RangeIsFinite
  <2>2. paths \subseteq Range(inv.paths)
    BY <1>4 DEF FirstOfKeys
  <2> QED
    BY <2>1, <2>2, FS_Subset
<1>6. PICK reach : reach = Reachable(Sorted(paths), bad)
  OBVIOUS
<1>7. IsFiniteSet(inv.reasons \cup reach.reasons)
  BY <1>3, <1>6, ReachableReasons, FollowFinite, FS_Union
<1>8. manifest'.fits => WithinReader(manifest')
  BY <1>1, <1>4, <1>5, <1>6, <1>7, ManifestWithin
<1>9. Inventoried'
  BY <1>1, <1>2, NoneIsGood DEF Inventoried
<1>10. pc' = "shards" => WithinReader(manifest)'
  BY <1>2, <1>8 DEF WithinReader
<1> QED
  BY <1>9, <1>10 DEF Limited

LEMMA ShardsLimited == Limited /\ (RunShard \/ SkipShards \/ Finish) => Limited'
<1> SUFFICES ASSUME Limited, RunShard \/ SkipShards \/ Finish PROVE Limited'
  OBVIOUS
<1>1. pc = "shards"
  BY DEF RunShard, SkipShards, Finish
<1>2. /\ UNCHANGED <<lim, order, ret, inv, git, walk, chk, manifest>>
      /\ pc' \in {"shards", "failed", "done"}
  BY <1>1 DEF RunShard, SkipShards, Finish, invVars
<1>3. Inventoried'
  BY <1>2 DEF Limited, Inventoried
<1> QED
  BY <1>1, <1>2, <1>3 DEF Limited, WithinReader

LEMMA StaysLimited == Limited /\ [Next]_tsVars => Limited'
<1> SUFFICES ASSUME Limited, [Next]_tsVars PROVE Limited'
  OBVIOUS
<1>1. CASE UNCHANGED tsVars
  BY <1>1 DEF tsVars, invVars, Limited, WithinReader, Inventoried, GitInOrder, WalkInOrder, GitOutput
<1>2. CASE Next
  BY <1>2, InventoryLimited, ManifestLimited, ShardsLimited DEF Next
<1> QED
  BY <1>1, <1>2

LEMMA LimitedIsWithin == Limited => WithinLimits
  BY DEF Limited, Inventoried, Good, WithinReader, WithinLimits

\* Whatever the repository, the limits and what goes wrong: after every path that the
\* inventory is offered, also one that displaced others, its counters and its index say
\* what is really retained and no limit is passed
\* (_TypescriptInventoryRetention.add and _drop_retained_path), and a manifest that is
\* handed to Node is within the bytes and the entries that its reader accepts
\* (_plan_typescript_file_manifest).
THEOREM AlwaysWithinLimits == Spec => []WithinLimits
<1>1. Limited /\ [Next]_tsVars => Limited'
  BY StaysLimited
<1> QED
  BY <1>1, StartsLimited, LimitedIsWithin, PTL DEF Spec
===============================================================================
