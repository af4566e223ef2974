---------------------------- MODULE CommonLemmas ----------------------------
(***************************************************************************)
(* Facts about finite sets, remainders and sums that several proofs need.  *)
(* Induction is over the subsets of a finite set, or over numbers up to a  *)
(* bound, with the property given as a set.                                *)
(***************************************************************************)
EXTENDS Integers, FiniteSets, Functions, FiniteSetTheorems, TLAPS

\* Induction on the subsets of a finite set, for a property given as a set.
LEMMA SubsetInduction ==
    ASSUME NEW S, IsFiniteSet(S), NEW P,
           \A T \in SUBSET S : (\A x \in T : T \ {x} \in P) => T \in P
    PROVE  \A T \in SUBSET S : T \in P
<1> DEFINE Bad == {T \in SUBSET S : T \notin P}
<1> SUFFICES ASSUME Bad # {} PROVE FALSE
  OBVIOUS
<1>1. IsWellFoundedOn(StrictSubsetOrdering(S), SUBSET S)
  <2>1. IsWellFoundedOn(StrictSubsetOrdering(S), FiniteSubsetsOf(S))
    BY FS_StrictSubsetOrderingWellFounded
  <2>2. FiniteSubsetsOf(S) = SUBSET S
    BY FS_FiniteSubsetsOfFinite
  <2> QED
    BY <2>1, <2>2
<1>2. PICK T \in Bad : \A U \in Bad : ~(<<U, T>> \in StrictSubsetOrdering(S))
  <2> HIDE DEF Bad
  <2>1. Bad \subseteq SUBSET S
    BY DEF Bad
  <2> QED
    BY <1>1, <2>1, WFMin
<1>3. ASSUME NEW x \in T
      PROVE  T \ {x} \in P
  <2>1. <<T \ {x}, T>> \in StrictSubsetOrdering(S)
    BY DEF StrictSubsetOrdering
  <2> QED
    BY <1>2, <2>1
<1> QED
  BY <1>2, <1>3

\* A non-empty finite set of numbers has a smallest element.
LEMMA SmallestExists ==
    ASSUME NEW S \in SUBSET Int, IsFiniteSet(S), S # {}
    PROVE  \E m \in S : \A n \in S : m <= n
<1> DEFINE P == {T \in SUBSET S : T # {} => \E m \in T : \A n \in T : m <= n}
<1>1. ASSUME NEW T \in SUBSET S, \A x \in T : T \ {x} \in P, T # {}
      PROVE  \E m \in T : \A n \in T : m <= n
  <2>1. PICK x \in T : TRUE
    BY <1>1
  <2>2. CASE T = {x}
    BY <2>1, <2>2
  <2>3. CASE T \ {x} # {}
    <3>1. PICK m \in T \ {x} : \A n \in T \ {x} : m <= n
      BY <1>1, <2>1, <2>3
    <3>2. x <= m \/ m <= x
      BY <2>1, <3>1
    <3> QED
      BY <3>1, <3>2, <2>1
  <2> QED
    BY <2>1, <2>2, <2>3
<1>2. \A T \in SUBSET S : (\A x \in T : T \ {x} \in P) => T \in P
  BY <1>1
<1>3. S \in P
  <2> HIDE DEF P
  <2> QED
    BY <1>2, SubsetInduction
<1> QED
  BY <1>3

\* A non-empty finite set of numbers has a largest element.
LEMMA LargestExists ==
    ASSUME NEW S \in SUBSET Int, IsFiniteSet(S), S # {}
    PROVE  \E m \in S : \A n \in S : m >= n
<1> DEFINE P == {T \in SUBSET S : T # {} => \E m \in T : \A n \in T : m >= n}
<1>1. ASSUME NEW T \in SUBSET S, \A x \in T : T \ {x} \in P, T # {}
      PROVE  \E m \in T : \A n \in T : m >= n
  <2>1. PICK x \in T : TRUE
    BY <1>1
  <2>2. CASE T = {x}
    BY <2>1, <2>2
  <2>3. CASE T \ {x} # {}
    <3>1. PICK m \in T \ {x} : \A n \in T \ {x} : m >= n
      BY <1>1, <2>1, <2>3
    <3>2. x >= m \/ m >= x
      BY <2>1, <3>1
    <3> QED
      BY <3>1, <3>2, <2>1
  <2> QED
    BY <2>1, <2>2, <2>3
<1>2. \A T \in SUBSET S : (\A x \in T : T \ {x} \in P) => T \in P
  BY <1>1
<1>3. S \in P
  <2> HIDE DEF P
  <2> QED
    BY <1>2, SubsetInduction
<1> QED
  BY <1>3

\* A fold over the subsets of a finite set exists: pick names the element of a
\* subset that is combined last, op combines it with the result for the rest.
FoldStep(g, base, pick, op, s) ==
    IF s = {} THEN base ELSE op[pick[s]][g[s \ {pick[s]}]]

IsFold(g, S, V, base, pick, op) ==
    g \in [SUBSET S -> V] /\ \A s \in SUBSET S : g[s] = FoldStep(g, base, pick, op, s)
Picks(pick, S) == \A s \in SUBSET S : s # {} => pick[s] \in s
Closed(op, S, V) == \A x \in S, v \in V : op[x][v] \in V

\* There is a function that folds all subsets, with values in a set that op
\* does not leave.
LEMMA FoldExists ==
    ASSUME NEW S, IsFiniteSet(S), NEW V, NEW base \in V, NEW pick, NEW op,
           Picks(pick, S), Closed(op, S, V)
    PROVE  \E g : IsFold(g, S, V, base, pick, op)
<1> DEFINE Upto(g, T) ==
              \A s \in SUBSET S : Cardinality(s) <= Cardinality(T) =>
                  g[s] = FoldStep(g, base, pick, op, s)
           Good == {T \in SUBSET S : \E g \in [SUBSET S -> V] : Upto(g, T)}
<1>0. \A s \in SUBSET S : IsFiniteSet(s) /\ Cardinality(s) \in Nat
  BY FS_Subset, FS_CardinalityType
<1>1. ASSUME NEW T \in SUBSET S, \A x \in T : T \ {x} \in Good
      PROVE  T \in Good
  <2>1. CASE T = {}
    <3> DEFINE g == [s \in SUBSET S |-> base]
    <3>0. \A s \in SUBSET S : Cardinality(s) <= Cardinality(T) => s = {}
      <4>1. Cardinality(T) = 0
        BY <2>1, FS_EmptySet
      <4> SUFFICES ASSUME NEW s \in SUBSET S, Cardinality(s) <= Cardinality(T)
                   PROVE  s = {}
        OBVIOUS
      <4>2. IsFiniteSet(s) /\ Cardinality(s) = 0
        BY <1>0, <4>1
      <4> QED
        BY <4>2, FS_EmptySet
    <3>1. Upto(g, T)
      BY <3>0 DEF FoldStep
    <3>2. g \in [SUBSET S -> V]
      OBVIOUS
    <3> HIDE DEF g
    <3> QED
      BY <3>1, <3>2
  <2>2. CASE T # {}
    <3>1. PICK x \in T : TRUE
      BY <2>2
    <3>2. PICK g \in [SUBSET S -> V] : Upto(g, T \ {x})
      BY <1>1, <3>1
    <3>3. Cardinality(T \ {x}) = Cardinality(T) - 1
      BY <1>0, <3>1, FS_RemoveElement
    <3> DEFINE h == [s \in SUBSET S |-> FoldStep(g, base, pick, op, s)]
    <3>4. ASSUME NEW s \in SUBSET S, Cardinality(s) <= Cardinality(T)
          PROVE  h[s] = FoldStep(h, base, pick, op, s)
      <4>1. CASE s = {}
        BY <4>1 DEF FoldStep
      <4>2. CASE s # {}
        <5>0. PICK x0, t : x0 = pick[s] /\ t = s \ {x0}
          OBVIOUS
        <5>1. x0 \in s /\ t \in SUBSET S
          BY <4>2, <5>0 DEF Picks
        <5>2. Cardinality(t) = Cardinality(s) - 1
          BY <1>0, <5>0, <5>1, FS_RemoveElement
        <5>3. Cardinality(t) <= Cardinality(T \ {x})
          BY <1>0, <3>3, <3>4, <5>2
        <5>4. g[t] = FoldStep(g, base, pick, op, t)
          BY <3>2, <5>1, <5>3, Zenon
        <5>5. h[t] = FoldStep(g, base, pick, op, t)
          BY <5>1, Zenon
        <5> QED
          BY <4>2, <5>0, <5>4, <5>5 DEF FoldStep
      <4> QED
        BY <4>1, <4>2
    <3>5. ASSUME NEW s \in SUBSET S
          PROVE  FoldStep(g, base, pick, op, s) \in V
      <4>1. CASE s # {}
        <5>1. pick[s] \in S /\ s \ {pick[s]} \in SUBSET S
          BY <4>1 DEF Picks
        <5>2. g[s \ {pick[s]}] \in V
          BY <3>2, <5>1
        <5> QED
          BY <4>1, <5>1, <5>2 DEF FoldStep, Closed
      <4> QED
        BY <4>1 DEF FoldStep
    <3>6. h \in [SUBSET S -> V]
      BY <3>5
    <3> HIDE DEF h
    <3> QED
      BY <3>4, <3>6
  <2> QED
    BY <2>1, <2>2
<1>2. S \in Good
  <2> HIDE DEF Good
  <2>1. \A T \in SUBSET S : (\A x \in T : T \ {x} \in Good) => T \in Good
    BY <1>1
  <2>2. \A T \in SUBSET S : T \in Good
    BY <2>1, SubsetInduction
  <2> QED
    BY <2>2
<1>3. PICK g \in [SUBSET S -> V] : Upto(g, S)
  BY <1>2
<1>4. \A s \in SUBSET S : Cardinality(s) <= Cardinality(S)
  BY FS_Subset
<1> QED
  BY <1>3, <1>4 DEF IsFold

\* An interval and how many numbers are in it.
LEMMA IntervalCounts ==
    ASSUME NEW a \in Nat, NEW n \in Nat, a <= n
    PROVE  IsFiniteSet(a..(n - 1)) /\ Cardinality(a..(n - 1)) = n - a
<1> DEFINE m == n - 1
<1>1. a \in Int /\ m \in Int
  OBVIOUS
<1> HIDE DEF m
<1>2. IsFiniteSet(a..m) /\ Cardinality(a..m) = IF a > m THEN 0 ELSE m - a + 1
  BY <1>1, FS_Interval
<1>3. (IF a > m THEN 0 ELSE m - a + 1) = n - a
  BY DEF m
<1> QED
  BY <1>2, <1>3 DEF m

\* The first n numbers are n.
LEMMA UpTo ==
    ASSUME NEW n \in Nat
    PROVE  IsFiniteSet(1..n) /\ Cardinality(1..n) = n
<1>1. PICK a, m : a = 1 /\ m = n
  OBVIOUS
<1>2. a \in Int /\ m \in Int
  BY <1>1
<1>3. IsFiniteSet(a..m) /\ Cardinality(a..m) = IF a > m THEN 0 ELSE m - a + 1
  BY <1>2, FS_Interval
<1>4. (IF a > m THEN 0 ELSE m - a + 1) = n
  BY <1>1
<1> QED
  BY <1>1, <1>3, <1>4

\* Induction on the numbers up to a bound, for a property given as a set.
LEMMA StepInduction ==
    ASSUME NEW n \in Nat, NEW P, 0 \in P,
           \A i \in 1..n : i - 1 \in P => i \in P
    PROVE  \A i \in 0..n : i \in P
<1> DEFINE Bad == {i \in 0..n : i \notin P}
<1> SUFFICES ASSUME Bad # {} PROVE FALSE
  OBVIOUS
<1>1. IsFiniteSet(Bad)
  <2>1. IsFiniteSet(0..n)
    BY FS_Interval
  <2> QED
    BY <2>1, FS_Subset
<1>2. Bad \in SUBSET Int
  OBVIOUS
<1>3. PICK m \in Bad : \A i \in Bad : m <= i
  <2> HIDE DEF Bad
  <2> QED
    BY <1>1, <1>2, SmallestExists
<1>4. m \in 1..n /\ m - 1 \in 0..n
  BY <1>3
<1>5. m - 1 \in P
  BY <1>3, <1>4
<1> QED
  BY <1>3, <1>4, <1>5

-----------------------------------------------------------------------------
(***************************************************************************)
(* Remainders                                                              *)
(***************************************************************************)
\* A number below the modulus contains it zero times.
LEMMA QuotientZero ==
    ASSUME NEW m \in Nat \ {0}, NEW q \in Int, NEW r \in Int, 0 <= r, r < m,
           NEW x \in Nat, x < m, x = m * q + r
    PROVE  q = 0
<1>1. CASE q >= 1
  <2>1. m * q >= m
    BY <1>1
  <2> QED
    BY <2>1
<1>2. CASE q <= -1
  <2>1. m * q <= -m
    BY <1>2
  <2> QED
    BY <2>1
<1> QED
  BY <1>1, <1>2

\* A number below the modulus is its own remainder.
LEMMA OwnRemainder ==
    ASSUME NEW m \in Nat \ {0}, NEW x \in Nat, x < m
    PROVE  x % m = x
<1> DEFINE q == x \div m
           r == x % m
<1>1. q \in Int /\ r \in Int /\ x = m * q + r /\ 0 <= r /\ r < m
  OBVIOUS
<1> HIDE DEF q, r
<1>2. q = 0
  BY <1>1, QuotientZero
<1>3. r = x
  BY <1>1, <1>2
<1> QED
  BY <1>3 DEF r

\* Numbers that differ by a multiple of the modulus have the same remainder.
LEMMA SameRemainder ==
    ASSUME NEW m \in Nat \ {0}, NEW x \in Int, NEW y \in Int, NEW k \in Int,
           x - y = m * k
    PROVE  x % m = y % m
<1>1. PICK a \in Int, r \in Int : x = m * a + r /\ 0 <= r /\ r < m /\ r = x % m
  <2> DEFINE q == x \div m
             u == x % m
  <2>1. q \in Int /\ u \in Int /\ x = m * q + u /\ 0 <= u /\ u < m
    OBVIOUS
  <2> QED
    BY <2>1
<1>2. PICK b \in Int, s \in Int : y = m * b + s /\ 0 <= s /\ s < m /\ s = y % m
  <2> DEFINE q == y \div m
             u == y % m
  <2>1. q \in Int /\ u \in Int /\ y = m * q + u /\ 0 <= u /\ u < m
    OBVIOUS
  <2> QED
    BY <2>1
<1> DEFINE d == a - b - k
<1>3. d \in Int /\ m * d = s - r
  <2>1. m * d = m * a - m * b - m * k
    OBVIOUS
  <2>2. \A ma, mb, mk \in Int :
            x = ma + r /\ y = mb + s /\ x - y = mk => ma - mb - mk = s - r
    <3> SUFFICES ASSUME NEW ma \in Int, NEW mb \in Int, NEW mk \in Int,
                        x = ma + r, y = mb + s, x - y = mk
                 PROVE  ma - mb - mk = s - r
      OBVIOUS
    <3>1. mk = (ma + r) - (mb + s)
      OBVIOUS
    <3> QED
      BY <3>1
  <2>3. m * a \in Int /\ m * b \in Int /\ m * k \in Int
    OBVIOUS
  <2>4. m * a - m * b - m * k = s - r
    BY <1>1, <1>2, <2>2, <2>3
  <2> QED
    BY <2>1, <2>4
<1> HIDE DEF d
<1>4. d = 0
  <2>1. CASE d >= 1
    <3>1. m * d >= m
      BY <1>3, <2>1
    <3> QED
      BY <1>1, <1>2, <1>3, <3>1
  <2>2. CASE d <= -1
    <3>1. m * d <= -m
      BY <1>3, <2>2
    <3> QED
      BY <1>1, <1>2, <1>3, <3>1
  <2> QED
    BY <1>3, <2>1, <2>2
<1>5. s - r = 0
  BY <1>3, <1>4
<1> QED
  BY <1>1, <1>2, <1>5

-----------------------------------------------------------------------------
(***************************************************************************)
(* Sums of a function over a finite set.  The library defines them by a    *)
(* recursive function over the subsets; SumUnfold is its equation, and the *)
(* rest follows by induction over subsets.                                 *)
(***************************************************************************)
SumOf(f, S) == FoldFunctionOnSet(+, 0, f, S)
Pick(s) == CHOOSE x \in s : TRUE
SumStep(g, f, s) == IF s = {} THEN 0 ELSE f[Pick(s)] + g[s \ {Pick(s)}]
IsSum(g, f, S) == g = [s \in SUBSET S |-> SumStep(g, f, s)]

\* The element CHOOSE takes from a non-empty set is one of its elements.
LEMMA PickIn == \A s : s # {} => Pick(s) \in s
  BY DEF Pick

\* There is a function that sums a function over every subset, so the
\* recursive definition inside MapThenFoldSet denotes one.
LEMMA SumExists ==
    ASSUME NEW f, NEW S, IsFiniteSet(S)
    PROVE  \E g : IsSum(g, f, S)
<1> DEFINE Upto(g, T) ==
              \A s \in SUBSET S :
                  Cardinality(s) <= Cardinality(T) => g[s] = SumStep(g, f, s)
           Good == {T \in SUBSET S :
                      \E g : g = [s \in SUBSET S |-> g[s]] /\ Upto(g, T)}
<1>0. \A s \in SUBSET S : IsFiniteSet(s) /\ Cardinality(s) \in Nat
  BY FS_Subset, FS_CardinalityType
<1>1. ASSUME NEW T \in SUBSET S, \A x \in T : T \ {x} \in Good
      PROVE  T \in Good
  <2>1. CASE T = {}
    <3> DEFINE g == [s \in SUBSET S |-> 0]
    <3>1. Upto(g, T)
      BY <1>0, <2>1, FS_EmptySet DEF SumStep
    <3>2. g = [s \in SUBSET S |-> g[s]]
      OBVIOUS
    <3> HIDE DEF g
    <3> QED
      BY <3>1, <3>2
  <2>2. CASE T # {}
    <3>1. PICK x \in T : TRUE
      BY <2>2
    <3>2. PICK g : g = [s \in SUBSET S |-> g[s]] /\ Upto(g, T \ {x})
      BY <1>1, <3>1
    <3>3. Cardinality(T \ {x}) = Cardinality(T) - 1
      BY <1>0, <3>1, FS_RemoveElement
    <3> DEFINE h == [s \in SUBSET S |-> SumStep(g, f, s)]
    <3>4. ASSUME NEW s \in SUBSET S, Cardinality(s) <= Cardinality(T)
          PROVE  h[s] = SumStep(h, f, s)
      <4>1. CASE s = {}
        BY <4>1 DEF SumStep
      <4>2. CASE s # {}
        <5> DEFINE t == s \ {Pick(s)}
        <5>1. Pick(s) \in s /\ t \in SUBSET S
          BY <4>2, PickIn
        <5>2. Cardinality(t) = Cardinality(s) - 1
          BY <1>0, <5>1, FS_RemoveElement
        <5>3. Cardinality(t) <= Cardinality(T \ {x})
          BY <1>0, <3>3, <3>4, <5>2
        <5>4. g[t] = SumStep(g, f, t)
          BY <3>2, <5>1, <5>3
        <5> QED
          BY <4>2, <5>1, <5>4 DEF SumStep
      <4> QED
        BY <4>1, <4>2
    <3>5. h = [s \in SUBSET S |-> h[s]]
      OBVIOUS
    <3> HIDE DEF h
    <3> QED
      BY <3>4, <3>5
  <2> QED
    BY <2>1, <2>2
<1>2. S \in Good
  <2> HIDE DEF Good
  <2> QED
    BY <1>1, SubsetInduction
<1>3. PICK g : g = [s \in SUBSET S |-> g[s]] /\ Upto(g, S)
  BY <1>2
<1>4. \A s \in SUBSET S : g[s] = SumStep(g, f, s)
  BY <1>3, FS_Subset
<1> QED
  BY <1>3, <1>4 DEF IsSum

\* Two such functions agree on the subsets they have in common.
LEMMA SumUnique ==
    ASSUME NEW f, NEW S, IsFiniteSet(S), NEW T \in SUBSET S, NEW g, NEW h,
           IsSum(g, f, S), IsSum(h, f, T)
    PROVE  g[T] = h[T]
<1> DEFINE Same == {s \in SUBSET T : g[s] = h[s]}
<1>1. ASSUME NEW s \in SUBSET T, \A x \in s : s \ {x} \in Same
      PROVE  s \in Same
  <2>1. g[s] = SumStep(g, f, s) /\ h[s] = SumStep(h, f, s)
    BY DEF IsSum
  <2>2. SumStep(g, f, s) = SumStep(h, f, s)
    BY <1>1, PickIn DEF SumStep
  <2> QED
    BY <2>1, <2>2
<1>2. \A s \in SUBSET T : s \in Same
  <2> HIDE DEF Same
  <2> QED
    BY <1>1, SubsetInduction, FS_Subset
<1> QED
  BY <1>2

\* SumOf is the value of such a function.
LEMMA SumIs ==
    ASSUME NEW f, NEW S, IsFiniteSet(S)
    PROVE  \E g : IsSum(g, f, S) /\ SumOf(f, S) = g[S]
<1> DEFINE I == CHOOSE g : IsSum(g, f, S)
<1>1. IsSum(I, f, S)
  BY SumExists
<1>2. SumOf(f, S) = I[S]
  BY DEF SumOf, FoldFunctionOnSet, MapThenFoldSet, Pick, IsSum, SumStep
<1> QED
  BY <1>1, <1>2

\* The sum over the empty set, and over a set without the element picked first.
LEMMA SumUnfold ==
    ASSUME NEW f, NEW S, IsFiniteSet(S)
    PROVE  /\ S = {} => SumOf(f, S) = 0
           /\ S # {} => /\ Pick(S) \in S
                        /\ SumOf(f, S) = f[Pick(S)] + SumOf(f, S \ {Pick(S)})
<1> PICK g : IsSum(g, f, S) /\ SumOf(f, S) = g[S]
  BY SumIs
<1>1. g[S] = SumStep(g, f, S)
  BY DEF IsSum
<1>2. CASE S # {}
  <2> DEFINE T == S \ {Pick(S)}
  <2>1. IsFiniteSet(T) /\ T \in SUBSET S
    BY FS_Subset
  <2> HIDE DEF T
  <2>2. PICK h : IsSum(h, f, T) /\ SumOf(f, T) = h[T]
    BY <2>1, SumIs
  <2>3. g[T] = h[T]
    BY <2>1, <2>2, SumUnique
  <2> QED
    BY <1>1, <1>2, <2>2, <2>3, PickIn DEF SumStep, T
<1> QED
  BY <1>1, <1>2 DEF SumStep

\* A sum of natural numbers is a natural number.
LEMMA SumNat ==
    ASSUME NEW f, NEW S, IsFiniteSet(S), \A k \in S : f[k] \in Nat
    PROVE  SumOf(f, S) \in Nat
<1> DEFINE P == {T \in SUBSET S : SumOf(f, T) \in Nat}
<1>1. ASSUME NEW T \in SUBSET S, \A x \in T : T \ {x} \in P
      PROVE  T \in P
  <2>1. IsFiniteSet(T)
    BY FS_Subset
  <2>2. CASE T # {}
    <3>1. Pick(T) \in T /\ SumOf(f, T) = f[Pick(T)] + SumOf(f, T \ {Pick(T)})
      BY <2>1, <2>2, SumUnfold
    <3> QED
      BY <1>1, <3>1
  <2>3. CASE T = {}
    <3>1. SumOf(f, T) = 0
      BY <2>1, <2>3, SumUnfold
    <3> QED
      BY <3>1
  <2> QED
    BY <2>2, <2>3
<1>2. \A T \in SUBSET S : T \in P
  <2> HIDE DEF P
  <2> QED
    BY <1>1, SubsetInduction
<1> QED
  BY <1>2

\* The order in which the elements are picked does not matter.
LEMMA SumRemove ==
    ASSUME NEW f, NEW S, IsFiniteSet(S), \A k \in S : f[k] \in Nat,
           NEW x \in S
    PROVE  SumOf(f, S) = f[x] + SumOf(f, S \ {x})
<1> DEFINE P == {T \in SUBSET S :
                   \A y \in T : SumOf(f, T) = f[y] + SumOf(f, T \ {y})}
<1>1. ASSUME NEW T \in SUBSET S, \A z \in T : T \ {z} \in P, NEW y \in T
      PROVE  SumOf(f, T) = f[y] + SumOf(f, T \ {y})
  <2> DEFINE z == Pick(T)
  <2>1. IsFiniteSet(T)
    BY FS_Subset
  <2>2. z \in T /\ SumOf(f, T) = f[z] + SumOf(f, T \ {z})
    BY <2>1, SumUnfold
  <2> HIDE DEF z
  <2>3. CASE y # z
    <3>1. SumOf(f, T \ {z}) = f[y] + SumOf(f, (T \ {z}) \ {y})
      BY <1>1, <2>2, <2>3
    <3>2. SumOf(f, T \ {y}) = f[z] + SumOf(f, (T \ {y}) \ {z})
      BY <1>1, <2>2, <2>3
    <3>3. (T \ {z}) \ {y} = (T \ {y}) \ {z}
      OBVIOUS
    <3>4. SumOf(f, (T \ {z}) \ {y}) \in Nat
      <4>1. IsFiniteSet((T \ {z}) \ {y})
        <5>1. (T \ {z}) \ {y} \in SUBSET S
          OBVIOUS
        <5> QED
          BY <5>1, FS_Subset
      <4> QED
        BY <4>1, SumNat
    <3> DEFINE rest == SumOf(f, (T \ {z}) \ {y})
    <3>5. /\ SumOf(f, T) = f[z] + (f[y] + rest)
          /\ SumOf(f, T \ {y}) = f[z] + rest
      BY <2>2, <3>1, <3>2, <3>3
    <3>6. f[y] \in Nat /\ f[z] \in Nat /\ rest \in Nat
      BY <2>2, <3>4
    <3> HIDE DEF rest
    <3> QED
      BY <3>5, <3>6
  <2> QED
    BY <2>2, <2>3
<1>2. \A T \in SUBSET S : (\A z \in T : T \ {z} \in P) => T \in P
  BY <1>1
<1>3. \A T \in SUBSET S : T \in P
  <2> HIDE DEF P
  <2> QED
    BY <1>2, SubsetInduction
<1> QED
  BY <1>3

\* Only the elements of the set count.
LEMMA SumSame ==
    ASSUME NEW f, NEW e, NEW S, IsFiniteSet(S), \A k \in S : f[k] = e[k]
    PROVE  SumOf(f, S) = SumOf(e, S)
<1> DEFINE P == {T \in SUBSET S : SumOf(f, T) = SumOf(e, T)}
<1>1. ASSUME NEW T \in SUBSET S, \A x \in T : T \ {x} \in P
      PROVE  T \in P
  <2>1. IsFiniteSet(T)
    BY FS_Subset
  <2>2. CASE T # {}
    <3>1. /\ Pick(T) \in T
          /\ SumOf(f, T) = f[Pick(T)] + SumOf(f, T \ {Pick(T)})
          /\ SumOf(e, T) = e[Pick(T)] + SumOf(e, T \ {Pick(T)})
      BY <2>1, <2>2, SumUnfold
    <3> QED
      BY <1>1, <3>1
  <2>3. CASE T = {}
    <3>1. SumOf(f, T) = 0 /\ SumOf(e, T) = 0
      BY <2>1, <2>3, SumUnfold
    <3> QED
      BY <3>1
  <2> QED
    BY <2>2, <2>3
<1>2. \A T \in SUBSET S : T \in P
  <2> HIDE DEF P
  <2> QED
    BY <1>1, SubsetInduction
<1> QED
  BY <1>2

\* Taking a set of elements out.
LEMMA SumMinus ==
    ASSUME NEW f, NEW S, IsFiniteSet(S), \A k \in S : f[k] \in Nat,
           NEW K \in SUBSET S
    PROVE  SumOf(f, S) = SumOf(f, K) + SumOf(f, S \ K)
<1> DEFINE P == {T \in SUBSET S : SumOf(f, S) = SumOf(f, T) + SumOf(f, S \ T)}
<1>1. ASSUME NEW T \in SUBSET S, \A x \in T : T \ {x} \in P
      PROVE  T \in P
  <2>1. IsFiniteSet(T) /\ IsFiniteSet(S \ T)
    BY FS_Subset
  <2>2. CASE T = {}
    <3>1. SumOf(f, T) = 0 /\ SumOf(f, S) \in Nat /\ S \ T = S
      BY <2>1, <2>2, SumUnfold, SumNat
    <3> QED
      BY <3>1
  <2>3. CASE T # {}
    <3> PICK x \in T : TRUE
      BY <2>3
    <3>1. SumOf(f, S) = SumOf(f, T \ {x}) + SumOf(f, S \ (T \ {x}))
      BY <1>1
    <3>2. SumOf(f, T) = f[x] + SumOf(f, T \ {x})
      BY <2>1, SumRemove
    <3>3. (S \ (T \ {x})) \ {x} = S \ T /\ x \in S \ (T \ {x})
      OBVIOUS
    <3>4. IsFiniteSet(S \ (T \ {x})) /\ IsFiniteSet(T \ {x})
      BY FS_Subset
    <3>5. SumOf(f, S \ (T \ {x})) = f[x] + SumOf(f, S \ T)
      BY <3>3, <3>4, SumRemove
    <3>6. SumOf(f, T \ {x}) \in Nat /\ SumOf(f, S \ T) \in Nat
      BY <2>1, <3>4, SumNat
    <3> QED
      BY <3>1, <3>2, <3>5, <3>6
  <2> QED
    BY <2>2, <2>3
<1>2. \A T \in SUBSET S : T \in P
  <2> HIDE DEF P
  <2> QED
    BY <1>1, SubsetInduction
<1> QED
  BY <1>2

=============================================================================
