--------------------------- MODULE FragmentProofs ---------------------------
(***************************************************************************)
(* The fragment manager, proved for all lengths, budgets and numbers of    *)
(* messages: the received ranges describe the bytes, the budget is exact   *)
(* and only whole messages are handed over.                                *)
(***************************************************************************)
EXTENDS FragmentReassembly, CommonLemmas, SequenceTheorems, TLAPS

-----------------------------------------------------------------------------
(***************************************************************************)
(* Sums of the lengths of buffers                                          *)
(***************************************************************************)
SumLen(r, S) == MapThenSumSet(LAMBDA key : r[key].len, S)

\* The lengths are summed as any function is.
LEMMA LensSum ==
    ASSUME NEW r, NEW S, IsFiniteSet(S), NEW e, \A key \in S : e[key] = r[key].len
    PROVE  SumLen(r, S) = SumOf(e, S)
<1> DEFINE IsLens(g) ==
              g = [s \in SUBSET S |-> IF s = {} THEN 0
                                      ELSE r[Pick(s)].len + g[s \ {Pick(s)}]]
           I == CHOOSE g : IsLens(g)
<1>1. \A g : IsLens(g) <=> IsSum(g, e, S)
  <2>1. \A s \in SUBSET S : s # {} => r[Pick(s)].len = e[Pick(s)]
    BY PickIn
  <2>2. \A g : \A s \in SUBSET S :
           (IF s = {} THEN 0 ELSE r[Pick(s)].len + g[s \ {Pick(s)}]) = SumStep(g, e, s)
    BY <2>1 DEF SumStep
  <2> QED
    BY <2>2 DEF IsSum
<1>2. PICK h : IsSum(h, e, S) /\ SumOf(e, S) = h[S]
  BY SumIs
<1>3. IsLens(I)
  BY <1>1, <1>2
<1>4. SumLen(r, S) = I[S]
  BY DEF SumLen, MapThenSumSet, MapThenFoldSet, Pick
<1>5. IsSum(I, e, S)
  BY <1>1, <1>3
<1> HIDE DEF I
<1>6. I[S] = h[S]
  BY <1>2, <1>5, SumUnique
<1> QED
  BY <1>2, <1>4, <1>6

\* Without buffers the sum is 0.
LEMMA LensNone == \A r : SumLen(r, {}) = 0
<1> TAKE r
<1>1. PICK e, S : e = [key \in {} |-> 0] /\ S = {}
  OBVIOUS
<1>2. IsFiniteSet(S) /\ \A key \in S : e[key] = r[key].len
  BY <1>1, FS_EmptySet
<1>3. SumLen(r, S) = SumOf(e, S) /\ SumOf(e, S) = 0
  BY <1>1, <1>2, LensSum, SumUnfold
<1> QED
  BY <1>1, <1>3

\* The sum of lengths is a natural number.
LEMMA LensNat ==
    ASSUME NEW r, NEW S, IsFiniteSet(S), \A key \in S : r[key].len \in Nat
    PROVE  SumLen(r, S) \in Nat
<1>1. PICK e : e = [key \in S |-> r[key].len]
  OBVIOUS
<1>2. \A key \in S : e[key] = r[key].len /\ e[key] \in Nat
  BY <1>1
<1> QED
  BY <1>2, LensSum, SumNat

\* A buffer more or less changes the sum by its length.
LEMMA LensRemove ==
    ASSUME NEW r, NEW S, IsFiniteSet(S), \A key \in S : r[key].len \in Nat,
           NEW x \in S
    PROVE  SumLen(r, S) = r[x].len + SumLen(r, S \ {x})
<1>1. PICK e : e = [key \in S |-> r[key].len]
  OBVIOUS
<1>2. \A key \in S : e[key] = r[key].len /\ e[key] \in Nat
  BY <1>1
<1>3. SumLen(r, S) = SumOf(e, S) /\ SumOf(e, S) = e[x] + SumOf(e, S \ {x})
  BY <1>2, LensSum, SumRemove
<1>4. PICK T : T = S \ {x}
  OBVIOUS
<1>5. SumLen(r, T) = SumOf(e, T)
  <2>1. IsFiniteSet(T) /\ \A key \in T : e[key] = r[key].len
    BY <1>2, <1>4, FS_Subset
  <2> QED
    BY <2>1, LensSum
<1> QED
  BY <1>2, <1>3, <1>4, <1>5

\* Buffers of the same lengths have the same sum.
LEMMA LensSame ==
    ASSUME NEW r, NEW q, NEW S, IsFiniteSet(S), \A key \in S : r[key].len = q[key].len
    PROVE  SumLen(r, S) = SumLen(q, S)
<1>1. PICK e : e = [key \in S |-> r[key].len]
  OBVIOUS
<1>2. \A key \in S : e[key] = r[key].len /\ e[key] = q[key].len
  BY <1>1
<1>3. SumLen(r, S) = SumOf(e, S)
  BY <1>2, LensSum
<1>4. SumLen(q, S) = SumOf(e, S)
  BY <1>2, LensSum
<1> QED
  BY <1>3, <1>4

\* Releasing several buffers takes the sum of their lengths off.
LEMMA LensMinus ==
    ASSUME NEW r, NEW S, IsFiniteSet(S), \A key \in S : r[key].len \in Nat,
           NEW K \in SUBSET S
    PROVE  SumLen(r, S) = SumLen(r, K) + SumLen(r, S \ K)
<1>1. PICK e : e = [key \in S |-> r[key].len]
  OBVIOUS
<1>2. \A key \in S : e[key] = r[key].len /\ e[key] \in Nat
  BY <1>1
<1>3. SumOf(e, S) = SumOf(e, K) + SumOf(e, S \ K)
  BY <1>2, SumMinus
<1>4. \A T \in SUBSET S : SumLen(r, T) = SumOf(e, T)
  <2>1. ASSUME NEW T \in SUBSET S PROVE SumLen(r, T) = SumOf(e, T)
    <3>1. IsFiniteSet(T) /\ \A key \in T : e[key] = r[key].len
      BY <1>2, FS_Subset
    <3> QED
      BY <3>1, LensSum
  <2> QED
    BY <2>1
<1> QED
  BY <1>3, <1>4

-----------------------------------------------------------------------------
(***************************************************************************)
(* The array of received ranges                                            *)
(***************************************************************************)
ByteRange == [start : Nat, end : Nat]

\* Sorted, non-empty and separated by gaps.
Separated(ranges) ==
    /\ \A i \in 1..Len(ranges) : ranges[i].start < ranges[i].end
    /\ \A i, j \in 1..Len(ranges) : i < j => ranges[i].end < ranges[j].start

Covers(ranges, b) ==
    \E i \in 1..Len(ranges) : ranges[i].start <= b /\ b < ranges[i].end

\* The entries of a list of ranges are ranges, with natural bounds.
LEMMA RangeFields ==
    ASSUME NEW ranges \in Seq(ByteRange)
    PROVE  \A i \in 1..Len(ranges) :
              /\ ranges[i] \in ByteRange
              /\ ranges[i].start \in Nat /\ ranges[i].end \in Nat
<1>1. \A i \in 1..Len(ranges) : ranges[i] \in ByteRange
  OBVIOUS
<1> QED
  BY <1>1 DEF ByteRange

\* The ranges before the insertion point are those that start before the new
\* one.
LEMMA InsertIndexSplits ==
    ASSUME NEW ranges \in Seq(ByteRange), Separated(ranges), NEW start \in Nat
    PROVE  /\ InsertIndex(ranges, start) \in 0..Len(ranges)
           /\ \A i \in 1..InsertIndex(ranges, start) : ranges[i].start < start
           /\ \A i \in (InsertIndex(ranges, start) + 1)..Len(ranges) :
                 ranges[i].start >= start
<1> DEFINE n == Len(ranges)
           Before == {i \in DOMAIN ranges : \A j \in 1..i : ranges[j].start < start}
           After == {i \in 1..n : ranges[i].start >= start}
<1>1. n \in Nat /\ DOMAIN ranges = 1..n
  OBVIOUS
<1>2. \A i \in 1..n : ranges[i].start \in Nat /\ ranges[i].end \in Nat
  BY RangeFields
<1>3. InsertIndex(ranges, start) = Cardinality(Before)
  BY DEF InsertIndex
<1>4. CASE After = {}
  <2>1. Before = 1..n
    BY <1>1, <1>2, <1>4
  <2> HIDE DEF n, Before
  <2>2. Cardinality(Before) = n
    BY <1>1, <2>1, FS_Interval
  <2>3. InsertIndex(ranges, start) = n
    BY <1>3, <2>2
  <2>4. \A i \in 1..n : ranges[i].start < start
    BY <1>1, <1>2, <1>4
  <2> QED
    BY <1>1, <2>3, <2>4 DEF n
<1>5. CASE After # {}
  <2>1. After \in SUBSET (1..n) /\ After \in SUBSET Int
    BY <1>1
  <2>2. \E m \in After : \A i \in After : m <= i
    <3> HIDE DEF After, n
    <3>1. IsFiniteSet(1..n)
      BY <1>1, FS_Interval
    <3>2. IsFiniteSet(After)
      BY <2>1, <3>1, FS_Subset
    <3> QED
      BY <1>5, <2>1, <3>2, SmallestExists
  <2>3. PICK m \in 1..n : /\ ranges[m].start >= start
                          /\ \A i \in 1..n : ranges[i].start >= start => m <= i
    BY <2>2
  <2>4. Before = 1..(m - 1)
    <3>1. \A i \in 1..(m - 1) : i \in 1..n /\ ranges[i].start < start
      BY <1>1, <1>2, <2>3
    <3>2. \A i \in 1..n : i >= m => m \in 1..i /\ ~(ranges[m].start < start)
      BY <1>1, <1>2, <2>3
    <3> HIDE DEF n
    <3> QED
      BY <1>1, <3>1, <3>2
  <2> HIDE DEF n, Before, After
  <2>5. Cardinality(Before) = m - 1
    BY <1>1, <2>3, <2>4, FS_Interval
  <2>6. InsertIndex(ranges, start) = m - 1
    BY <1>3, <2>5
  <2>7. ASSUME NEW i \in 1..n, i >= m
        PROVE  ranges[i].start >= start
    <3>1. CASE i = m
      BY <2>3, <3>1
    <3>2. CASE i > m
      <4>1. ranges[m].start < ranges[m].end /\ ranges[m].end < ranges[i].start
        BY <1>1, <2>3, <2>7, <3>2 DEF Separated, n
      <4> QED
        BY <1>1, <1>2, <2>3, <2>7, <4>1
    <3> QED
      BY <1>1, <2>3, <2>7, <3>1, <3>2
  <2>8. ASSUME NEW i \in 1..(m - 1)
        PROVE  ranges[i].start < start
    BY <1>1, <1>2, <2>3
  <2> QED
    BY <1>1, <2>3, <2>6, <2>7, <2>8 DEF n
<1> QED
  BY <1>4, <1>5

\* Where the new range lies: no byte of it is covered, and the neighbours it
\* does not meet are further away.
LEMMA InsertPlace ==
    ASSUME NEW ranges \in Seq(ByteRange), Separated(ranges),
           NEW start \in Nat, NEW end \in Nat, start < end,
           CanInsert(ranges, start, end), NEW k, k = InsertIndex(ranges, start)
    PROVE  /\ k \in 0..Len(ranges)
           /\ \A i \in 1..k : ranges[i].end <= start
           /\ \A i \in (k + 1)..Len(ranges) : end <= ranges[i].start
           /\ ~MeetsLeft(ranges, start) => \A i \in 1..k : ranges[i].end < start
           /\ ~MeetsRight(ranges, start, end) =>
                 \A i \in (k + 1)..Len(ranges) : end < ranges[i].start
<1>1. Len(ranges) \in Nat /\ DOMAIN ranges = 1..Len(ranges)
  OBVIOUS
<1>2. \A i \in 1..Len(ranges) : ranges[i].start \in Nat /\ ranges[i].end \in Nat
  BY RangeFields
<1>3. /\ k \in 0..Len(ranges)
      /\ \A i \in 1..k : ranges[i].start < start
      /\ \A i \in (k + 1)..Len(ranges) : ranges[i].start >= start
  BY InsertIndexSplits
<1>4. \A i \in 1..Len(ranges) : ~(start < ranges[i].end /\ end > ranges[i].start)
  BY <1>1 DEF CanInsert, Overlaps
<1>5. ASSUME NEW i \in 1..k PROVE ranges[i].end <= start
  <2>1. /\ i \in 1..Len(ranges) /\ ranges[i].start < start
        /\ ranges[i].start \in Nat /\ ranges[i].end \in Nat
    BY <1>1, <1>2, <1>3
  <2>2. ~(start < ranges[i].end /\ end > ranges[i].start)
    BY <1>4, <2>1
  <2> QED
    BY <2>1, <2>2
<1>6. ASSUME NEW i \in (k + 1)..Len(ranges) PROVE end <= ranges[i].start
  <2>1. /\ i \in 1..Len(ranges) /\ ranges[i].start >= start
        /\ ranges[i].start \in Nat /\ ranges[i].end \in Nat
        /\ ranges[i].start < ranges[i].end
    BY <1>1, <1>2, <1>3 DEF Separated
  <2>2. ~(start < ranges[i].end /\ end > ranges[i].start)
    BY <1>4, <2>1
  <2> QED
    BY <2>1, <2>2
<1>7. ASSUME ~MeetsLeft(ranges, start), NEW i \in 1..k
      PROVE  ranges[i].end < start
  <2>1. k > 0 /\ ranges[k].end # start
    BY <1>3, <1>7 DEF MeetsLeft
  <2>2. CASE i = k
    BY <1>2, <1>3, <1>5, <2>1, <2>2
  <2>3. CASE i < k
    BY <1>2, <1>3, <1>5, <2>3 DEF Separated
  <2> QED
    BY <1>3, <2>2, <2>3
<1>8. ASSUME ~MeetsRight(ranges, start, end), NEW i \in (k + 1)..Len(ranges)
      PROVE  end < ranges[i].start
  <2>1. k < Len(ranges) /\ ranges[k + 1].start # end
    BY <1>1, <1>3, <1>8 DEF MeetsRight
  <2>2. CASE i = k + 1
    BY <1>2, <1>3, <1>6, <2>1, <2>2
  <2>3. CASE i > k + 1
    <3>1. /\ ranges[k + 1].end < ranges[i].start
          /\ ranges[k + 1].start < ranges[k + 1].end
          /\ end <= ranges[k + 1].start
      BY <1>1, <1>3, <1>6, <2>1, <2>3 DEF Separated
    <3> QED
      BY <1>2, <1>3, <2>1, <2>3, <3>1
  <2> QED
    BY <1>3, <2>2, <2>3
<1> QED
  BY <1>3, <1>5, <1>6, <1>7, <1>8

\* An element between two sequences.
LEMMA BetweenSequences ==
    ASSUME NEW S, NEW p \in Seq(S), NEW q \in Seq(S), NEW r \in S
    PROVE  /\ p \o <<r>> \o q \in Seq(S)
           /\ Len(p \o <<r>> \o q) = Len(p) + 1 + Len(q)
           /\ \A i \in 1..Len(p) : (p \o <<r>> \o q)[i] = p[i]
           /\ (p \o <<r>> \o q)[Len(p) + 1] = r
           /\ \A i \in (Len(p) + 2)..(Len(p) + 1 + Len(q)) :
                 (p \o <<r>> \o q)[i] = q[i - (Len(p) + 1)]
<1> DEFINE one == <<r>>
           pr == p \o one
<1>1. one \in Seq(S) /\ Len(one) = 1 /\ one[1] = r
  OBVIOUS
<1>2. Len(p) \in Nat /\ Len(q) \in Nat
  OBVIOUS
<1> HIDE DEF one
<1>3. /\ pr \in Seq(S) /\ Len(pr) = Len(p) + 1
      /\ \A i \in 1..(Len(p) + 1) : pr[i] = IF i <= Len(p) THEN p[i] ELSE one[i - Len(p)]
  <2>1. /\ pr \in Seq(S) /\ Len(pr) = Len(p) + Len(one)
        /\ \A i \in 1..(Len(p) + Len(one)) :
              pr[i] = IF i <= Len(p) THEN p[i] ELSE one[i - Len(p)]
    BY <1>1, ConcatProperties
  <2> HIDE DEF pr
  <2> QED
    BY <1>1, <1>2, <2>1
<1>4. (\A i \in 1..Len(p) : pr[i] = p[i]) /\ pr[Len(p) + 1] = r
  BY <1>1, <1>2, <1>3
<1> HIDE DEF pr
<1> DEFINE whole == pr \o q
<1>5. /\ whole \in Seq(S) /\ Len(whole) = Len(pr) + Len(q)
      /\ \A i \in 1..(Len(pr) + Len(q)) :
            whole[i] = IF i <= Len(pr) THEN pr[i] ELSE q[i - Len(pr)]
  <2>1. pr \in Seq(S)
    BY <1>3
  <2> QED
    BY <2>1, ConcatProperties, ZenonT(30)
<1>6. p \o <<r>> \o q = whole
  BY DEF pr, one
<1> HIDE DEF whole
<1>7. \A i \in 1..(Len(p) + 1) : whole[i] = pr[i]
  BY <1>2, <1>3, <1>5
<1>8. \A i \in (Len(p) + 2)..(Len(p) + 1 + Len(q)) : whole[i] = q[i - (Len(p) + 1)]
  BY <1>2, <1>3, <1>5
<1>9. Len(whole) = Len(p) + 1 + Len(q) /\ whole[Len(p) + 1] = r
  BY <1>2, <1>3, <1>4, <1>5, <1>7
<1>10. \A i \in 1..Len(p) : whole[i] = p[i]
  BY <1>2, <1>4, <1>7
<1> QED
  BY <1>5, <1>6, <1>8, <1>9, <1>10

\* What stands where after a range r replaced those from a + 1 to b - 1.
LEMMA SpliceElements ==
    ASSUME NEW ranges \in Seq(ByteRange), NEW r \in ByteRange,
           NEW a \in 0..Len(ranges), NEW b \in (a + 1)..(Len(ranges) + 1)
    PROVE  LET new == SubSeq(ranges, 1, a) \o <<r>> \o SubSeq(ranges, b, Len(ranges))
           IN  /\ new \in Seq(ByteRange)
               /\ Len(new) = a + 1 + (Len(ranges) - b + 1)
               /\ \A i \in 1..a : new[i] = ranges[i]
               /\ new[a + 1] = r
               /\ \A i \in (a + 2)..Len(new) : new[i] = ranges[i - a - 2 + b]
<1> DEFINE n == Len(ranges)
           p == SubSeq(ranges, 1, a)
           q == SubSeq(ranges, b, n)
           new == p \o <<r>> \o q
<1>1. n \in Nat /\ a \in Nat /\ b \in Nat /\ a <= n /\ a < b /\ b <= n + 1
  OBVIOUS
<1>2. \A i \in 1..n : ranges[i] \in ByteRange
  OBVIOUS
<1>3. p \in Seq(ByteRange) /\ Len(p) = a /\ \A i \in 1..a : p[i] = ranges[i]
  BY <1>1, <1>2, SubSeqProperties
<1>4. /\ q \in Seq(ByteRange) /\ Len(q) = n - b + 1
      /\ \A i \in 1..(n - b + 1) : q[i] = ranges[b + i - 1]
  BY <1>1, <1>2, SubSeqProperties
<1> HIDE DEF p, q, n
<1>5. /\ new \in Seq(ByteRange)
      /\ Len(new) = Len(p) + 1 + Len(q)
      /\ \A i \in 1..Len(p) : new[i] = p[i]
      /\ new[Len(p) + 1] = r
      /\ \A i \in (Len(p) + 2)..(Len(p) + 1 + Len(q)) : new[i] = q[i - (Len(p) + 1)]
  <2>1. p \in Seq(ByteRange) /\ q \in Seq(ByteRange)
    BY <1>3, <1>4
  <2> QED
    BY <2>1, BetweenSequences
<1> HIDE DEF new
<1>6. ASSUME NEW i \in (a + 2)..Len(new)
      PROVE  new[i] = ranges[i - a - 2 + b]
  <2>1. i - (a + 1) \in 1..(n - b + 1)
    BY <1>1, <1>3, <1>4, <1>5
  <2>2. new[i] = q[i - (a + 1)]
    BY <1>1, <1>3, <1>4, <1>5
  <2>3. q[i - (a + 1)] = ranges[b + (i - (a + 1)) - 1]
    BY <1>4, <2>1
  <2>4. b + (i - (a + 1)) - 1 = i - a - 2 + b
    BY <1>1, <1>3, <1>4, <1>5
  <2> QED
    BY <2>2, <2>3, <2>4
<1>7. \A i \in 1..a : new[i] = ranges[i]
  BY <1>3, <1>5
<1>8. Len(new) = a + 1 + (n - b + 1) /\ new[a + 1] = r
  BY <1>3, <1>4, <1>5
<1> QED
  BY <1>5, <1>6, <1>7, <1>8 DEF n, p, q, new

Holds(range, b) == range.start <= b /\ b < range.end

\* The spliced array is sorted if the new range fits between its neighbours.
LEMMA SpliceSeparated ==
    ASSUME NEW ranges \in Seq(ByteRange), Separated(ranges), NEW r \in ByteRange,
           NEW a \in 0..Len(ranges), NEW b \in (a + 1)..(Len(ranges) + 1),
           r.start < r.end,
           \A i \in 1..a : ranges[i].end < r.start,
           \A i \in b..Len(ranges) : r.end < ranges[i].start
    PROVE  LET new == SubSeq(ranges, 1, a) \o <<r>> \o SubSeq(ranges, b, Len(ranges))
           IN  /\ Separated(new)
               /\ \A x \in Nat : Covers(new, x) <=>
                     \/ \E i \in 1..a : Holds(ranges[i], x)
                     \/ Holds(r, x)
                     \/ \E i \in b..Len(ranges) : Holds(ranges[i], x)
<1> DEFINE n == Len(ranges)
           new == SubSeq(ranges, 1, a) \o <<r>> \o SubSeq(ranges, b, n)
           from(i) == i - a - 2 + b
<1>1. n \in Nat /\ a \in Nat /\ b \in Nat /\ a <= n /\ a < b /\ b <= n + 1
  OBVIOUS
<1>2. /\ new \in Seq(ByteRange)
      /\ Len(new) = a + 1 + (n - b + 1)
      /\ \A i \in 1..a : new[i] = ranges[i]
      /\ new[a + 1] = r
      /\ \A i \in (a + 2)..Len(new) : new[i] = ranges[from(i)]
  BY SpliceElements
<1> HIDE DEF new, n
<1>3. \A i \in 1..n : ranges[i].start \in Nat /\ ranges[i].end \in Nat
  BY RangeFields DEF n
<1>4. r.start \in Nat /\ r.end \in Nat
  BY DEF ByteRange
<1>5. \A i \in (a + 2)..Len(new) : from(i) \in b..n
  BY <1>1, <1>2, SMTT(30)
<1>6. ASSUME NEW i \in 1..Len(new)
      PROVE  i \in 1..a \/ i = a + 1 \/ i \in (a + 2)..Len(new)
  BY <1>1, <1>2
<1>7. ASSUME NEW i \in 1..Len(new)
      PROVE  new[i].start < new[i].end
  <2>1. CASE i \in 1..a
    BY <1>1, <1>2, <2>1, SMTT(30) DEF Separated, n
  <2>2. CASE i = a + 1
    BY <1>2, <2>2
  <2>3. CASE i \in (a + 2)..Len(new)
    <3>1. from(i) \in 1..n
      BY <1>1, <1>5, <2>3
    <3> HIDE DEF from
    <3> QED
      BY <1>2, <2>3, <3>1 DEF Separated, n
  <2> QED
    BY <1>6, <2>1, <2>2, <2>3
<1>8. ASSUME NEW i \in 1..Len(new), NEW j \in 1..Len(new), i < j
      PROVE  new[i].end < new[j].start
  <2>0. Len(new) \in Nat
    BY <1>1, <1>2
  <2>1. CASE j \in 1..a
    <3>1. i \in 1..a
      BY <1>1, <1>8, <2>0, <2>1
    <3>2. new[i] = ranges[i] /\ new[j] = ranges[j] /\ i \in 1..n /\ j \in 1..n
      BY <1>1, <1>2, <2>1, <3>1
    <3> QED
      BY <1>8, <3>2 DEF Separated, n
  <2>2. CASE j = a + 1
    <3>1. i \in 1..a
      BY <1>1, <1>8, <2>0, <2>2
    <3> QED
      BY <1>2, <2>2, <3>1
  <2>3. CASE j \in (a + 2)..Len(new)
    <3>1. from(j) \in b..n /\ new[j] = ranges[from(j)]
      BY <1>2, <1>5, <2>3
    <3>2. CASE i \in 1..a
      <4>1. new[i] = ranges[i] /\ i \in 1..n /\ from(j) \in 1..n /\ i < from(j)
        BY <1>1, <1>2, <3>1, <3>2
      <4> HIDE DEF from
      <4> QED
        BY <3>1, <4>1 DEF Separated, n
    <3>3. CASE i = a + 1
      <4> HIDE DEF from
      <4> QED
        BY <1>2, <3>1, <3>3 DEF n
    <3>4. CASE i \in (a + 2)..Len(new)
      <4>1. new[i] = ranges[from(i)] /\ from(i) \in b..n
        BY <1>2, <1>5, <3>4
      <4>2. from(i) < from(j) /\ from(i) \in 1..n /\ from(j) \in 1..n
        BY <1>1, <1>8, <2>0, <3>1, <4>1
      <4> HIDE DEF from
      <4> QED
        BY <3>1, <4>1, <4>2 DEF Separated, n
    <3> QED
      BY <1>6, <3>2, <3>3, <3>4
  <2> QED
    BY <1>6, <2>1, <2>2, <2>3
<1>9. ASSUME NEW x \in Nat
      PROVE  Covers(new, x) <=>
                     \/ \E i \in 1..a : Holds(ranges[i], x)
                     \/ Holds(r, x)
                     \/ \E i \in b..n : Holds(ranges[i], x)
  <2>0. Covers(new, x) <=> \E i \in 1..Len(new) : Holds(new[i], x)
    BY DEF Covers, Holds
  <2>1. ASSUME NEW i \in 1..Len(new), Holds(new[i], x)
        PROVE  \/ \E h \in 1..a : Holds(ranges[h], x)
               \/ Holds(r, x)
               \/ \E h \in b..n : Holds(ranges[h], x)
    <3>1. CASE i \in 1..a
      BY <1>2, <2>1, <3>1
    <3>2. CASE i = a + 1
      BY <1>2, <2>1, <3>2
    <3>3. CASE i \in (a + 2)..Len(new)
      BY <1>2, <1>5, <2>1, <3>3
    <3> QED
      BY <1>6, <3>1, <3>2, <3>3
  <2>2. ASSUME NEW i \in 1..a, Holds(ranges[i], x)
        PROVE  \E h \in 1..Len(new) : Holds(new[h], x)
    <3>1. i \in 1..Len(new) /\ new[i] = ranges[i]
      BY <1>1, <1>2
    <3> QED
      BY <2>2, <3>1
  <2>3. ASSUME Holds(r, x)
        PROVE  \E h \in 1..Len(new) : Holds(new[h], x)
    <3>1. a + 1 \in 1..Len(new)
      BY <1>1, <1>2
    <3> QED
      BY <1>2, <2>3, <3>1
  <2>4. ASSUME NEW i \in b..n, Holds(ranges[i], x)
        PROVE  \E h \in 1..Len(new) : Holds(new[h], x)
    <3> DEFINE h == i + a + 2 - b
    <3>1. h \in (a + 2)..Len(new) /\ from(h) = i /\ h \in 1..Len(new)
      BY <1>1, <1>2
    <3>2. new[h] = ranges[i]
      BY <1>2, <3>1
    <3> HIDE DEF h
    <3> QED
      BY <2>4, <3>1, <3>2
  <2> QED
    BY <2>0, <2>1, <2>2, <2>3, <2>4
<1> QED
  BY <1>7, <1>8, <1>9 DEF Separated, n, new

\* An accepted range is new to the array, and the array it leaves covers just
\* that much more.
LEMMA InsertRangeKeeps ==
    ASSUME NEW ranges \in Seq(ByteRange), Separated(ranges), Len(ranges) <= MaxRanges,
           NEW start \in Nat, NEW end \in Nat, start < end,
           CanInsert(ranges, start, end)
    PROVE  LET new == InsertRange(ranges, start, end)
           IN  /\ new \in Seq(ByteRange)
               /\ Separated(new)
               /\ Len(new) <= MaxRanges
               /\ \A x \in Nat : Covers(new, x) <=>
                     Covers(ranges, x) \/ (start <= x /\ x < end)
               /\ \A x \in Nat : start <= x /\ x < end => ~Covers(ranges, x)
<1> DEFINE n == Len(ranges)
           k == InsertIndex(ranges, start)
           left == MeetsLeft(ranges, start)
           right == MeetsRight(ranges, start, end)
           a == IF left THEN k - 1 ELSE k
           b == IF right THEN k + 2 ELSE k + 1
           r == [start |-> IF left THEN ranges[k].start ELSE start,
                 end   |-> IF right THEN ranges[k + 1].end ELSE end]
           new == SubSeq(ranges, 1, a) \o <<r>> \o SubSeq(ranges, b, n)
<1>0. InsertRange(ranges, start, end) = new
  BY DEF InsertRange
<1>1. n \in Nat /\ n <= MaxRanges /\ MaxRanges \in Nat
  BY FragmentAssumption
<1>2. \A i \in 1..n : ranges[i].start \in Nat /\ ranges[i].end \in Nat
  BY RangeFields
<1>3. \A i \in 1..n : ranges[i].start < ranges[i].end
  BY DEF Separated
<1>4. \A i, j \in 1..n : i < j => ranges[i].end < ranges[j].start
  BY DEF Separated
<1>5. /\ k \in 0..n
      /\ \A i \in 1..k : ranges[i].end <= start
      /\ \A i \in (k + 1)..n : end <= ranges[i].start
      /\ ~left => \A i \in 1..k : ranges[i].end < start
      /\ ~right => \A i \in (k + 1)..n : end < ranges[i].start
  BY InsertPlace
<1>6. left => k > 0 /\ k \in 1..n /\ ranges[k].end = start
  BY <1>5 DEF MeetsLeft
<1>7. right => k < n /\ k + 1 \in 1..n /\ ranges[k + 1].start = end
  BY <1>5 DEF MeetsRight
<1>8. left \in BOOLEAN /\ right \in BOOLEAN
  BY DEF MeetsLeft, MeetsRight
<1>9. left \/ right \/ n < MaxRanges
  BY DEF CanInsert
<1> HIDE DEF n, k, left, right
<1>10. a \in 0..n /\ b \in (a + 1)..(n + 1)
  BY <1>1, <1>5, <1>6, <1>7
<1>11. /\ r \in ByteRange /\ r.start < r.end
       /\ r.start = (IF left THEN ranges[k].start ELSE start)
       /\ r.end = (IF right THEN ranges[k + 1].end ELSE end)
  <2>1. left => ranges[k].start \in Nat /\ ranges[k].start < start
    BY <1>2, <1>3, <1>6
  <2>2. right => ranges[k + 1].end \in Nat /\ end < ranges[k + 1].end
    BY <1>2, <1>3, <1>7
  <2>3. PICK x, y : /\ x = (IF left THEN ranges[k].start ELSE start)
                    /\ y = (IF right THEN ranges[k + 1].end ELSE end)
    OBVIOUS
  <2>4. x \in Nat /\ y \in Nat /\ x < y
    BY <2>1, <2>2, <2>3
  <2>5. r = [start |-> x, end |-> y]
    BY <2>3
  <2> HIDE DEF r
  <2> QED
    BY <2>3, <2>4, <2>5 DEF ByteRange
<1>12. ASSUME NEW i \in 1..a
       PROVE  ranges[i].end < r.start
  <2>1. CASE left
    <3>1. i < k /\ i \in 1..n
      BY <1>5, <1>1, <2>1
    <3> QED
      BY <1>4, <1>6, <1>11, <2>1, <3>1
  <2>2. CASE ~left
    BY <1>5, <1>11, <2>2
  <2> QED
    BY <2>1, <2>2
<1>13. ASSUME NEW i \in b..n
       PROVE  r.end < ranges[i].start
  <2>1. CASE right
    <3>1. k + 1 < i /\ i \in 1..n
      BY <1>5, <1>1, <2>1
    <3> QED
      BY <1>4, <1>7, <1>11, <2>1, <3>1
  <2>2. CASE ~right
    BY <1>5, <1>11, <2>2
  <2> QED
    BY <2>1, <2>2
<1> HIDE DEF a, b, r
<1>14. /\ Separated(new)
       /\ \A x \in Nat : Covers(new, x) <=>
             \/ \E i \in 1..a : Holds(ranges[i], x)
             \/ Holds(r, x)
             \/ \E i \in b..n : Holds(ranges[i], x)
  BY <1>10, <1>11, <1>12, <1>13, SpliceSeparated DEF n
<1>15. new \in Seq(ByteRange) /\ Len(new) = a + 1 + (n - b + 1)
  BY <1>10, <1>11, SpliceElements DEF n
<1> HIDE DEF new
<1>16. Len(new) <= MaxRanges
  BY <1>1, <1>5, <1>8, <1>9, <1>15 DEF a, b
<1>17. ASSUME NEW x \in Nat, start <= x /\ x < end
       PROVE  ~Covers(ranges, x)
  <2>1. ASSUME NEW i \in 1..n
        PROVE  ~Holds(ranges[i], x)
    <3>1. i \in 1..k \/ i \in (k + 1)..n
      BY <1>5
    <3> QED
      BY <1>2, <1>5, <1>17, <3>1 DEF Holds
  <2> QED
    BY <2>1 DEF Covers, Holds, n
<1>18. ASSUME NEW x \in Nat
       PROVE  Covers(new, x) <=> Covers(ranges, x) \/ (start <= x /\ x < end)
  <2>0. Covers(ranges, x) <=> \E i \in 1..n : Holds(ranges[i], x)
    BY DEF Covers, Holds, n
  <2>1. ASSUME Holds(r, x)
        PROVE  Covers(ranges, x) \/ (start <= x /\ x < end)
    <3>1. CASE x < start
      BY <1>6, <1>11, <2>0, <2>1, <3>1 DEF Holds
    <3>2. CASE x >= end
      BY <1>7, <1>11, <2>0, <2>1, <3>2 DEF Holds
    <3> QED
      BY <3>1, <3>2
  <2>2. ASSUME NEW i \in 1..n, Holds(ranges[i], x)
        PROVE  Covers(new, x)
    <3>1. i \in 1..a \/ i \in b..n \/ (left /\ i = k) \/ (right /\ i = k + 1)
      BY <1>1, <1>5 DEF a, b
    <3>2. CASE left /\ i = k
      <4>1. Holds(r, x)
        BY <1>2, <1>3, <1>6, <1>7, <1>11, <2>2, <3>2 DEF Holds
      <4> QED
        BY <1>14, <4>1
    <3>3. CASE right /\ i = k + 1
      <4>1. Holds(r, x)
        BY <1>2, <1>3, <1>6, <1>7, <1>11, <2>2, <3>3 DEF Holds
      <4> QED
        BY <1>14, <4>1
    <3> QED
      BY <1>14, <2>2, <3>1, <3>2, <3>3
  <2>3. ASSUME start <= x /\ x < end
        PROVE  Covers(new, x)
    <3>1. Holds(r, x)
      BY <1>2, <1>3, <1>6, <1>7, <1>11, <2>3 DEF Holds
    <3> QED
      BY <1>14, <3>1
  <2>4. (1..a) \subseteq 1..n /\ (b..n) \subseteq 1..n
    BY <1>1, <1>10
  <2> QED
    BY <1>14, <2>0, <2>1, <2>2, <2>3, <2>4
<1> QED
  BY <1>0, <1>14, <1>15, <1>16, <1>17, <1>18

-----------------------------------------------------------------------------
(***************************************************************************)
(* The inductive invariant                                                 *)
(***************************************************************************)
SentMessage == [source : Source, id : MessageId, type : DataType,
                len : MessageLen, chunk : ChunkLen]

\* A byte of a buffer under the key comes from a message with that key's source
\* and the buffer's type and length.
ByteFits(key, buffer, uid) ==
    /\ uid \in DOMAIN sent
    /\ sent[uid].source = key[1]
    /\ sent[uid].type = buffer.type
    /\ sent[uid].len = buffer.len

\* A buffer in use: RangesTrackBytes in the form the provers need, and where the
\* bytes come from.
BufferOK(key, buffer) ==
    /\ buffer \in Buffer
    /\ DOMAIN buffer.data = 0..(buffer.len - 1)
    /\ Separated(buffer.ranges)
    /\ Len(buffer.ranges) <= MaxRanges
    /\ \A b \in Nat : b \in Written(buffer) <=> Covers(buffer.ranges, b)
    /\ buffer.received_bytes = Cardinality(Written(buffer))
    /\ \A b \in Written(buffer) : ByteFits(key, buffer, buffer.data[b])

\* A node numbers its messages from 0, so that no id passes the number sent.
SendersOK ==
    /\ sent \in Seq(SentMessage)
    /\ Len(sent) <= MaxMessages
    /\ next_message_id \in [Source -> Nat]
    /\ \A source \in Source : next_message_id[source] <= Len(sent)

\* BudgetExact with the sum by its name.
BudgetSum ==
    /\ current_reassembly_bytes = SumLen(reassembly, ActiveKeys)
    /\ MaxBytes # 0 => current_reassembly_bytes <= MaxBytes
    /\ Cardinality(ActiveKeys) <= MaxBuffers

FragmentInv ==
    /\ SendersOK
    /\ reassembly \in [Key -> Buffer \cup {NoBuffer}]
    /\ \A key \in ActiveKeys : BufferOK(key, reassembly[key])
    /\ IsFiniteSet(ActiveKeys)
    /\ BudgetSum
    /\ CompletedWhole

\* The fields of a sent message.
LEMMA SentFields ==
    ASSUME SendersOK, NEW uid \in DOMAIN sent
    PROVE  /\ sent[uid].source \in Source /\ sent[uid].id \in MessageId
           /\ sent[uid].type \in DataType
           /\ sent[uid].len \in MessageLen /\ sent[uid].len \in Nat \ {0}
           /\ sent[uid].chunk \in ChunkLen /\ sent[uid].chunk \in Nat \ {0}
           /\ uid \in 1..MaxMessages /\ uid # NoByte
<1>1. sent[uid] \in SentMessage
  BY DEF SendersOK
<1>2. uid \in 1..MaxMessages
  BY FragmentAssumption DEF SendersOK
<1> QED
  BY <1>1, <1>2, FragmentAssumption DEF SentMessage

\* The fields of a buffer.
LEMMA BufferFields ==
    ASSUME NEW buffer \in Buffer
    PROVE  /\ buffer.type \in DataType
           /\ buffer.len \in MessageLen /\ buffer.len \in Nat \ {0}
           /\ buffer.ranges \in Seq(ByteRange)
           /\ buffer.received_bytes \in Nat
           /\ \A b \in DOMAIN buffer.data : buffer.data[b] \in (1..MaxMessages) \cup {NoByte}
           /\ buffer # NoBuffer
<1>1. buffer.ranges \in Seq(ByteRange)
  BY DEF Buffer, ByteRange
<1>2. PICK len \in MessageLen :
         buffer.data \in [0..(len - 1) -> (1..MaxMessages) \cup {NoByte}]
  BY DEF Buffer
<1> QED
  BY <1>1, <1>2, FragmentAssumption DEF Buffer

\* What an active buffer is said to be follows from BufferOK.
LEMMA BufferTracks ==
    ASSUME NEW key, NEW buffer, BufferOK(key, buffer)
    PROVE  /\ \A i \in DOMAIN buffer.ranges :
                 buffer.ranges[i].start < buffer.ranges[i].end
           /\ \A i \in 1..(Len(buffer.ranges) - 1) :
                 buffer.ranges[i].end < buffer.ranges[i + 1].start
           /\ UNION {Bytes(buffer.ranges[i]) : i \in DOMAIN buffer.ranges} = Written(buffer)
<1> DEFINE ranges == buffer.ranges
<1>0. buffer \in Buffer
  BY DEF BufferOK
<1>1. ranges \in Seq(ByteRange)
  BY <1>0, BufferFields
<1>2. DOMAIN ranges = 1..Len(ranges) /\ Len(ranges) \in Nat
  BY <1>1
<1>3. \A i \in 1..Len(ranges) : ranges[i].start \in Nat /\ ranges[i].end \in Nat
  BY <1>1, RangeFields
<1>4. Written(buffer) \subseteq Nat
  BY <1>0, BufferFields DEF BufferOK, Written
<1> HIDE DEF ranges
<1>5. ASSUME NEW b
      PROVE  b \in UNION {Bytes(ranges[i]) : i \in DOMAIN ranges} <=> b \in Written(buffer)
  <2>1. ASSUME NEW i \in DOMAIN ranges, b \in Bytes(ranges[i])
        PROVE  b \in Written(buffer)
    <3>1. b \in Nat /\ ranges[i].start <= b /\ b < ranges[i].end
      BY <1>2, <1>3, <2>1 DEF Bytes
    <3> QED
      BY <1>2, <3>1 DEF BufferOK, Covers, ranges
  <2>2. ASSUME b \in Written(buffer)
        PROVE  \E i \in DOMAIN ranges : b \in Bytes(ranges[i])
    <3>1. PICK i \in 1..Len(ranges) : ranges[i].start <= b /\ b < ranges[i].end
      BY <1>4, <2>2 DEF BufferOK, Covers, ranges
    <3> QED
      BY <1>2, <1>3, <1>4, <2>2, <3>1 DEF Bytes
  <2> QED
    BY <2>1, <2>2
<1>6. UNION {Bytes(ranges[i]) : i \in DOMAIN ranges} = Written(buffer)
  BY <1>5
<1>7. Separated(ranges)
  BY DEF BufferOK, ranges
<1>8. \A i \in 1..(Len(ranges) - 1) : ranges[i].end < ranges[i + 1].start
  <2> SUFFICES ASSUME NEW i \in 1..(Len(ranges) - 1)
               PROVE  ranges[i].end < ranges[i + 1].start
    OBVIOUS
  <2>1. i \in 1..Len(ranges) /\ i + 1 \in 1..Len(ranges) /\ i < i + 1
    BY <1>2
  <2> QED
    BY <1>7, <2>1 DEF Separated
<1> QED
  BY <1>2, <1>6, <1>7, <1>8 DEF Separated, ranges

\* The invariant is at least what the runs check.
LEMMA InvariantSuffices ==
    FragmentInv => TypeOK /\ RangesTrackBytes /\ BudgetExact /\ CompletedWhole
<1> SUFFICES ASSUME FragmentInv
             PROVE  TypeOK /\ RangesTrackBytes /\ BudgetExact /\ CompletedWhole
  OBVIOUS
<1>1. RangesTrackBytes
  BY BufferTracks DEF FragmentInv, RangesTrackBytes, BufferOK
<1>2. \A uid \in DOMAIN sent : sent[uid] \in SentMessage
  BY DEF FragmentInv, SendersOK
<1>3. next_message_id \in [Source -> 0..MaxMessages]
  BY FragmentAssumption DEF FragmentInv, SendersOK
<1>4. current_reassembly_bytes \in Nat
  <2>1. \A key \in ActiveKeys : reassembly[key].len \in Nat
    BY BufferFields DEF FragmentInv, BufferOK
  <2>2. current_reassembly_bytes = SumLen(reassembly, ActiveKeys)
    BY DEF FragmentInv, BudgetSum
  <2> QED
    BY <2>1, <2>2, LensNat DEF FragmentInv
<1>5. BudgetExact
  BY DEF FragmentInv, BudgetSum, BudgetExact, SumLen
<1> QED
  BY <1>1, <1>2, <1>3, <1>4, <1>5 DEF TypeOK, SentMessage, FragmentInv, BufferOK

-----------------------------------------------------------------------------
(***************************************************************************)
(* Every step keeps the invariant                                          *)
(***************************************************************************)
LEMMA InitInv == Init => FragmentInv
<1> SUFFICES ASSUME Init PROVE FragmentInv
  OBVIOUS
<1>1. ActiveKeys = {}
  BY DEF Init, ActiveKeys, Active
<1>2. IsFiniteSet({}) /\ Cardinality({}) = 0
  BY FS_EmptySet
<1>3. SumLen(reassembly, {}) = 0
  BY LensNone
<1>4. BudgetSum
  <2>1. current_reassembly_bytes = SumLen(reassembly, ActiveKeys)
    BY <1>1, <1>3 DEF Init
  <2>2. MaxBuffers \in Nat /\ MaxBytes \in Nat
    BY FragmentAssumption
  <2> QED
    BY <1>1, <1>2, <2>1, <2>2 DEF BudgetSum, Init
<1>5. SendersOK
  BY FragmentAssumption DEF Init, SendersOK
<1> QED
  BY <1>1, <1>2, <1>4, <1>5 DEF Init, FragmentInv, CompletedWhole

\* The invariant speaks of sent only through the messages in it: it survives a
\* step that leaves the manager alone and only adds messages.
LEMMA SenderStepInv ==
    ASSUME FragmentInv, SendersOK',
           UNCHANGED <<reassembly, current_reassembly_bytes, handed_over>>,
           \A uid \in DOMAIN sent : uid \in DOMAIN sent' /\ sent'[uid] = sent[uid]
    PROVE  FragmentInv'
<1>1. ActiveKeys' = ActiveKeys
  BY DEF ActiveKeys, Active
<1>2. ASSUME NEW key \in ActiveKeys
      PROVE  BufferOK(key, reassembly[key])'
  <2>1. BufferOK(key, reassembly[key])
    BY DEF FragmentInv
  <2> QED
    BY <2>1 DEF BufferOK, ByteFits, Written
<1>3. BudgetSum'
  BY <1>1 DEF FragmentInv, BudgetSum
<1>4. CompletedWhole'
  BY DEF FragmentInv, CompletedWhole
<1> QED
  BY <1>1, <1>2, <1>3, <1>4 DEF FragmentInv

\* xgl_transport_send_fragmented touches only the sender: the invariant holds.
LEMMA SendFragmentedInv ==
    ASSUME FragmentInv, NEW source \in Source, NEW type \in DataType,
           NEW len \in MessageLen, NEW chunk \in ChunkLen,
           SendFragmented(source, type, len, chunk)
    PROVE  FragmentInv'
<1> DEFINE message == [source |-> source, id |-> next_message_id[source],
                       type |-> type, len |-> len, chunk |-> chunk]
<1>1. sent \in Seq(SentMessage) /\ Len(sent) \in Nat
  BY DEF FragmentInv, SendersOK
<1>2. next_message_id[source] \in MessageId
  BY <1>1, FragmentAssumption DEF FragmentInv, SendersOK, SendFragmented, MessageId
<1>3. message \in SentMessage
  BY <1>2 DEF SentMessage
<1>4. sent' = Append(sent, message)
  BY DEF SendFragmented
<1> HIDE DEF message
<1>5. /\ sent' \in Seq(SentMessage) /\ Len(sent') = Len(sent) + 1
      /\ \A uid \in DOMAIN sent : uid \in DOMAIN sent' /\ sent'[uid] = sent[uid]
  BY <1>1, <1>3, <1>4, AppendProperties
<1>6. /\ next_message_id' \in [Source -> Nat]
      /\ \A s \in Source : next_message_id'[s] <= Len(sent')
  BY <1>1, <1>5 DEF FragmentInv, SendersOK, SendFragmented
<1>7. SendersOK'
  BY <1>1, <1>5, <1>6, FragmentAssumption DEF SendersOK, SendFragmented, SentMessage
<1> QED
  BY <1>5, <1>7, SenderStepInv DEF SendFragmented

\* A restarted sender may use an old message id again; the receiver is
\* untouched and the invariant holds.
LEMMA SenderRestartInv ==
    ASSUME FragmentInv, NEW source \in Source, SenderRestart(source)
    PROVE  FragmentInv'
<1>1. SendersOK'
  BY DEF FragmentInv, SendersOK, SenderRestart, SentMessage
<1> QED
  BY <1>1, SenderStepInv DEF SenderRestart

\* Removing buffers and their reservation keeps the budget exact.
LEMMA FreeInv ==
    ASSUME FragmentInv, NEW keys \in SUBSET ActiveKeys, Free(keys)
    PROVE  FragmentInv'
<1>1. /\ reassembly \in [Key -> Buffer \cup {NoBuffer}]
      /\ IsFiniteSet(ActiveKeys) /\ ActiveKeys \subseteq Key
  BY DEF FragmentInv, ActiveKeys
<1>2. /\ reassembly' \in [Key -> Buffer \cup {NoBuffer}]
      /\ \A key \in Key : reassembly'[key] = IF key \in keys THEN NoBuffer ELSE reassembly[key]
  BY <1>1 DEF Free
<1>3. ActiveKeys' = ActiveKeys \ keys
  BY <1>2 DEF ActiveKeys, Active
<1>4. IsFiniteSet(ActiveKeys') /\ Cardinality(ActiveKeys') <= Cardinality(ActiveKeys)
  BY <1>1, <1>3, FS_Subset
<1>5. \A key \in ActiveKeys : reassembly[key].len \in Nat
  BY BufferFields DEF FragmentInv, BufferOK
<1>6. BudgetSum'
  <2>1. SumLen(reassembly, ActiveKeys) =
           SumLen(reassembly, keys) + SumLen(reassembly, ActiveKeys')
    BY <1>1, <1>3, <1>5, LensMinus
  <2>2. SumLen(reassembly, ActiveKeys') = SumLen(reassembly', ActiveKeys')
    <3>1. \A key \in ActiveKeys' : reassembly[key].len = reassembly'[key].len
      BY <1>1, <1>2, <1>3
    <3> QED
      BY <1>4, <3>1, LensSame
  <2>3. /\ SumLen(reassembly, keys) \in Nat
        /\ SumLen(reassembly, ActiveKeys') \in Nat
    <3>1. IsFiniteSet(keys)
      BY <1>1, FS_Subset
    <3> QED
      BY <1>3, <1>4, <1>5, <3>1, LensNat
  <2>4. current_reassembly_bytes = SumLen(reassembly, ActiveKeys)
    BY DEF FragmentInv, BudgetSum
  <2>5. current_reassembly_bytes' = current_reassembly_bytes - SumLen(reassembly, keys)
    BY DEF Free, SumLen
  <2>6. current_reassembly_bytes' = SumLen(reassembly', ActiveKeys')
    BY <2>1, <2>2, <2>3, <2>4, <2>5
  <2>7. MaxBytes # 0 => current_reassembly_bytes' <= MaxBytes
    BY <2>1, <2>3, <2>4, <2>5, FragmentAssumption DEF FragmentInv, BudgetSum
  <2>8. Cardinality(ActiveKeys') <= MaxBuffers
    <3>1. /\ Cardinality(ActiveKeys) <= MaxBuffers
          /\ Cardinality(ActiveKeys) \in Nat /\ Cardinality(ActiveKeys') \in Nat
          /\ MaxBuffers \in Nat
      BY <1>1, <1>4, FS_CardinalityType, FragmentAssumption DEF FragmentInv, BudgetSum
    <3> QED
      BY <1>4, <3>1
  <2> QED
    BY <2>6, <2>7, <2>8 DEF BudgetSum
<1>7. ASSUME NEW key \in ActiveKeys'
      PROVE  BufferOK(key, reassembly[key])'
  <2>1. BufferOK(key, reassembly[key]) /\ reassembly'[key] = reassembly[key]
    BY <1>1, <1>2, <1>3 DEF FragmentInv
  <2>2. sent' = sent
    BY DEF Free
  <2> QED
    BY <2>1, <2>2 DEF BufferOK, ByteFits, Written
<1>8. CompletedWhole' /\ SendersOK'
  BY DEF FragmentInv, CompletedWhole, SendersOK, Free, SentMessage
<1> QED
  BY <1>2, <1>4, <1>6, <1>7, <1>8 DEF FragmentInv

\* The smaller of two numbers, as Min gives it.
LEMMA MinOfTwo ==
    ASSUME NEW x \in Int, NEW y \in Int
    PROVE  Min({x, y}) \in {x, y} /\ Min({x, y}) <= x /\ Min({x, y}) <= y
<1>1. \E m \in {x, y} : \A z \in {x, y} : m <= z
  OBVIOUS
<1> QED
  BY <1>1 DEF Min

\* A new buffer has no byte.
LEMMA FreshBufferOK ==
    ASSUME SendersOK, NEW uid \in DOMAIN sent, NEW key
    PROVE  /\ BufferOK(key, FreshBuffer(sent[uid]))
           /\ FreshBuffer(sent[uid]).type = sent[uid].type
           /\ FreshBuffer(sent[uid]).len = sent[uid].len
<1> DEFINE message == sent[uid]
           buffer == FreshBuffer(message)
<1>1. message.type \in DataType /\ message.len \in MessageLen /\ message.len \in Nat \ {0}
  BY SentFields
<1> HIDE DEF message
<1>2. /\ buffer.type = message.type /\ buffer.len = message.len
      /\ buffer.ranges = <<>> /\ buffer.received_bytes = 0
      /\ buffer.data = [b \in 0..(message.len - 1) |-> NoByte]
  BY DEF FreshBuffer
<1>3. buffer \in Buffer
  <2>1. buffer.data \in [0..(message.len - 1) -> (1..MaxMessages) \cup {NoByte}]
    BY <1>2
  <2>2. buffer.data \in UNION {[0..(len - 1) -> (1..MaxMessages) \cup {NoByte}] :
                                  len \in MessageLen}
    BY <1>1, <2>1
  <2>3. <<>> \in Seq([start : Nat, end : Nat])
    OBVIOUS
  <2> QED
    BY <1>1, <1>2, <2>2, <2>3 DEF FreshBuffer, Buffer
<1> HIDE DEF buffer
<1>4. Written(buffer) = {}
  BY <1>2 DEF Written
<1>5. Len(buffer.ranges) = 0
  BY <1>2
<1>6. Separated(buffer.ranges) /\ \A b \in Nat : ~Covers(buffer.ranges, b)
  BY <1>5 DEF Separated, Covers
<1>7. Cardinality({}) = 0
  BY FS_EmptySet
<1>8. Len(buffer.ranges) <= MaxRanges
  BY <1>5, FragmentAssumption
<1> QED
  BY <1>2, <1>3, <1>4, <1>6, <1>7, <1>8 DEF BufferOK, buffer, message

\* The bytes of one fragment in a buffer that takes it.
Fill(buffer, uid, offset, end) ==
    [buffer EXCEPT
        !.ranges = InsertRange(@, offset, end),
        !.received_bytes = @ + (end - offset),
        !.data = [b \in DOMAIN @ |-> IF b \in offset..(end - 1) THEN uid ELSE @[b]]]

\* Copying a fragment into a buffer of its message keeps the buffer in order:
\* the new range covers bytes of the same message.
LEMMA FillOK ==
    ASSUME SendersOK, NEW uid \in DOMAIN sent, NEW key, key[1] = sent[uid].source,
           NEW buffer, BufferOK(key, buffer),
           buffer.type = sent[uid].type, buffer.len = sent[uid].len,
           NEW offset \in Nat, NEW end \in Nat, offset < end, end <= buffer.len,
           CanInsert(buffer.ranges, offset, end)
    PROVE  /\ BufferOK(key, Fill(buffer, uid, offset, end))
           /\ Fill(buffer, uid, offset, end).type = buffer.type
           /\ Fill(buffer, uid, offset, end).len = buffer.len
<1> DEFINE filled == Fill(buffer, uid, offset, end)
           piece == offset..(end - 1)
           old == Written(buffer)
<1>1. buffer \in Buffer /\ DOMAIN buffer.data = 0..(buffer.len - 1)
  BY DEF BufferOK
<1>2. /\ buffer.len \in MessageLen /\ buffer.len \in Nat /\ buffer.received_bytes \in Nat
      /\ buffer.ranges \in Seq(ByteRange)
      /\ \A b \in DOMAIN buffer.data : buffer.data[b] \in (1..MaxMessages) \cup {NoByte}
  BY <1>1, BufferFields
<1>3. /\ filled.type = buffer.type /\ filled.len = buffer.len
      /\ filled.ranges = InsertRange(buffer.ranges, offset, end)
      /\ filled.received_bytes = buffer.received_bytes + (end - offset)
      /\ filled.data = [b \in 0..(buffer.len - 1) |->
                           IF b \in piece THEN uid ELSE buffer.data[b]]
  BY <1>1 DEF Fill, Buffer
<1>4. uid \in 1..MaxMessages /\ uid # NoByte
  BY SentFields
<1>5. /\ filled.ranges \in Seq(ByteRange)
      /\ Separated(filled.ranges)
      /\ Len(filled.ranges) <= MaxRanges
      /\ \A x \in Nat : Covers(filled.ranges, x) <=>
            Covers(buffer.ranges, x) \/ (offset <= x /\ x < end)
      /\ \A x \in Nat : offset <= x /\ x < end => ~Covers(buffer.ranges, x)
  <2>1. Separated(buffer.ranges) /\ Len(buffer.ranges) <= MaxRanges
    BY DEF BufferOK
  <2> HIDE DEF filled
  <2> QED
    BY <1>2, <1>3, <2>1, InsertRangeKeeps
<1>6. filled \in Buffer
  <2>1. filled.data \in [0..(buffer.len - 1) -> (1..MaxMessages) \cup {NoByte}]
    BY <1>1, <1>2, <1>3, <1>4
  <2>2. filled.data \in UNION {[0..(len - 1) -> (1..MaxMessages) \cup {NoByte}] :
                                  len \in MessageLen}
    BY <1>2, <2>1
  <2>3. filled.received_bytes \in Nat
    BY <1>2, <1>3
  <2>4. filled.ranges \in Seq([start : Nat, end : Nat])
    BY <1>5 DEF ByteRange
  <2> QED
    BY <1>1, <1>3, <2>2, <2>3, <2>4 DEF Fill, Buffer
<1> HIDE DEF filled
<1>7. Written(filled) = old \cup piece
  <2>1. piece \subseteq 0..(buffer.len - 1)
    BY <1>2
  <2>2. DOMAIN filled.data = 0..(buffer.len - 1)
    BY <1>3
  <2>3. \A b \in 0..(buffer.len - 1) :
           filled.data[b] = IF b \in piece THEN uid ELSE buffer.data[b]
    BY <1>3
  <2> HIDE DEF piece
  <2> QED
    BY <1>1, <1>4, <2>1, <2>2, <2>3 DEF Written
<1>8. old \subseteq 0..(buffer.len - 1) /\ old \subseteq Nat
  BY <1>1, <1>2 DEF Written
<1>9. IsFiniteSet(old) /\ IsFiniteSet(piece)
  <2>1. IsFiniteSet(0..(buffer.len - 1)) /\ IsFiniteSet(piece)
    <3>1. 0 \in Nat /\ 0 <= buffer.len /\ offset <= end
      BY <1>2
    <3> QED
      BY <1>2, <3>1, IntervalCounts
  <2> QED
    BY <1>8, <2>1, FS_Subset
<1>10. old \cap piece = {}
  <2>1. \A b \in old : Covers(buffer.ranges, b)
    BY <1>8 DEF BufferOK
  <2> QED
    BY <1>5, <1>8, <2>1
<1>11. Cardinality(piece) = end - offset
  BY IntervalCounts
<1>12. Cardinality(Written(filled)) = filled.received_bytes
  <2>1. Cardinality(old \cup piece) =
           Cardinality(old) + Cardinality(piece) - Cardinality(old \cap piece)
    BY <1>9, FS_Union
  <2>2. Cardinality(old \cap piece) = 0
    BY <1>10, FS_EmptySet
  <2>3. Cardinality(old) = buffer.received_bytes
    BY DEF BufferOK
  <2> QED
    BY <1>2, <1>3, <1>7, <1>11, <2>1, <2>2, <2>3
<1>13. ASSUME NEW b \in Nat
       PROVE  b \in Written(filled) <=> Covers(filled.ranges, b)
  <2>1. b \in old <=> Covers(buffer.ranges, b)
    BY DEF BufferOK
  <2>2. b \in piece <=> offset <= b /\ b < end
    OBVIOUS
  <2> QED
    BY <1>5, <1>7, <2>1, <2>2
<1>14. ASSUME NEW b \in Written(filled)
       PROVE  ByteFits(key, filled, filled.data[b])
  <2>1. CASE b \in piece
    <3>1. filled.data[b] = uid
      BY <1>2, <1>3, <2>1
    <3> QED
      BY <1>3, <3>1 DEF ByteFits
  <2>2. CASE b \notin piece
    <3>1. b \in old /\ filled.data[b] = buffer.data[b]
      BY <1>3, <1>7, <1>8, <2>2
    <3>2. ByteFits(key, buffer, buffer.data[b])
      BY <3>1 DEF BufferOK
    <3> QED
      BY <1>3, <3>1, <3>2 DEF ByteFits
  <2> QED
    BY <2>1, <2>2
<1>15. DOMAIN filled.data = 0..(filled.len - 1)
  BY <1>3
<1> QED
  BY <1>3, <1>5, <1>6, <1>12, <1>13, <1>14, <1>15 DEF BufferOK, filled

\* xgl_fragment_process keeps the invariant: whether it rejects the fragment,
\* creates or replaces a buffer, fills one or completes the message.
LEMMA ProcessFragmentInv ==
    ASSUME FragmentInv, NEW uid \in DOMAIN sent, NEW offset \in Offsets(sent[uid]),
           ProcessFragment(uid, offset)
    PROVE  FragmentInv'
<1> DEFINE message == sent[uid]
           key == <<message.source, message.id>>
           end == Min({offset + message.chunk, message.len})
           buffer == IF Active(key) THEN reassembly[key] ELSE FreshBuffer(message)
           filled == Fill(buffer, uid, offset, end)
           reserved == current_reassembly_bytes + (IF Active(key) THEN 0 ELSE buffer.len)
           Stored == /\ filled.received_bytes < filled.len
                     /\ reassembly' = [reassembly EXCEPT ![key] = filled]
                     /\ current_reassembly_bytes' = reserved
                     /\ UNCHANGED handed_over
           Completed == /\ filled.received_bytes = filled.len
                        /\ reassembly' = [reassembly EXCEPT ![key] = NoBuffer]
                        /\ current_reassembly_bytes' = reserved - filled.len
                        /\ handed_over' = {[source |-> message.source,
                                            type |-> filled.type, data |-> filled.data]}
<1>1. /\ Active(key) \/ BudgetAllows(message.len)
      /\ buffer.type = message.type /\ buffer.len = message.len
      /\ CanInsert(buffer.ranges, offset, end)
      /\ Stored \/ Completed
      /\ UNCHANGED <<sent, next_message_id>>
  BY DEF ProcessFragment, Fill
<1>2. /\ message.source \in Source /\ message.id \in MessageId
      /\ message.len \in Nat \ {0} /\ message.chunk \in Nat \ {0}
  BY SentFields DEF FragmentInv
<1>3. key \in Key /\ key[1] = message.source
  BY <1>2 DEF Key
<1>4. offset \in Nat /\ offset < message.len
  BY <1>2 DEF Offsets
<1>5. end \in Nat /\ offset < end /\ end <= message.len
  <2> DEFINE x == offset + message.chunk
             y == message.len
  <2>1. x \in Int /\ y \in Int /\ offset < x /\ offset < y /\ offset \in Int
    BY <1>2, <1>4
  <2> HIDE DEF x, y
  <2>2. Min({x, y}) \in {x, y} /\ Min({x, y}) <= x /\ Min({x, y}) <= y
    BY <2>1, MinOfTwo
  <2>3. Min({x, y}) \in Int /\ offset < Min({x, y})
    BY <2>1, <2>2
  <2> QED
    BY <1>4, <2>2, <2>3 DEF x, y
<1> HIDE DEF end
<1>6. reassembly \in [Key -> Buffer \cup {NoBuffer}] /\ SendersOK
  BY DEF FragmentInv
<1>7. Active(key) <=> key \in ActiveKeys
  BY <1>3 DEF ActiveKeys
<1> HIDE DEF key
<1>8. BufferOK(key, buffer)
  <2>1. CASE Active(key)
    BY <1>7, <2>1 DEF FragmentInv
  <2>2. CASE ~Active(key)
    BY <1>6, <2>2, FreshBufferOK
  <2> QED
    BY <2>1, <2>2
<1> HIDE DEF buffer
<1>9. BufferOK(key, filled) /\ filled.type = message.type /\ filled.len = message.len
  BY <1>1, <1>3, <1>4, <1>5, <1>6, <1>8, FillOK
<1> HIDE DEF filled
<1>10. filled \in Buffer /\ filled # NoBuffer
  BY <1>9, BufferFields DEF BufferOK
<1>11. SendersOK'
  BY <1>1, <1>6 DEF SendersOK, SentMessage
<1>12. /\ IsFiniteSet(ActiveKeys) /\ ActiveKeys \subseteq Key
       /\ Cardinality(ActiveKeys) \in Nat /\ Cardinality(ActiveKeys) <= MaxBuffers
       /\ {MaxBuffers, MaxBytes} \subseteq Nat
  BY FS_CardinalityType, FragmentAssumption DEF FragmentInv, BudgetSum, ActiveKeys
<1>13. \A k \in ActiveKeys : reassembly[k].len \in Nat
  BY BufferFields DEF FragmentInv, BufferOK
<1>14. /\ current_reassembly_bytes = SumLen(reassembly, ActiveKeys)
       /\ SumLen(reassembly, ActiveKeys) \in Nat
       /\ MaxBytes # 0 => current_reassembly_bytes <= MaxBytes
  BY <1>12, <1>13, LensNat DEF FragmentInv, BudgetSum
<1>15. reserved \in Nat /\ (MaxBytes # 0 => reserved <= MaxBytes)
  BY <1>1, <1>2, <1>12, <1>14 DEF BudgetAllows
<1>16. ASSUME NEW k \in ActiveKeys, reassembly'[k] = reassembly[k]
       PROVE  BufferOK(k, reassembly[k])'
  <2>1. BufferOK(k, reassembly[k])
    BY DEF FragmentInv
  <2> QED
    BY <1>1, <1>16, <2>1 DEF BufferOK, ByteFits, Written
<1>17. reassembly' \in [Key -> Buffer \cup {NoBuffer}]
  BY <1>1, <1>6, <1>10
\* The buffers other than the one under the key, and what they hold.
<1> DEFINE Others == ActiveKeys \ {key}
<1>18. /\ IsFiniteSet(Others) /\ SumLen(reassembly, Others) \in Nat
       /\ Cardinality(Others) <= Cardinality(ActiveKeys)
       /\ Cardinality(Others) \in Nat
       /\ reserved = SumLen(reassembly, Others) + message.len
       /\ Cardinality(Others) + 1 <= MaxBuffers
  <2>1. IsFiniteSet(Others) /\ Cardinality(Others) <= Cardinality(ActiveKeys)
    BY <1>12, FS_Subset
  <2>2. SumLen(reassembly, Others) \in Nat /\ Cardinality(Others) \in Nat
    BY <1>13, <2>1, LensNat, FS_CardinalityType
  <2>3. CASE Active(key)
    <3>1. SumLen(reassembly, ActiveKeys) = reassembly[key].len + SumLen(reassembly, Others)
      BY <1>7, <1>12, <1>13, <2>3, LensRemove
    <3>2. reassembly[key].len = message.len
      BY <1>1, <2>3 DEF buffer
    <3>3. Cardinality(Others) = Cardinality(ActiveKeys) - 1
      BY <1>7, <1>12, <2>3, FS_RemoveElement
    <3> QED
      BY <1>2, <1>12, <1>14, <2>1, <2>2, <2>3, <3>1, <3>2, <3>3
  <2>4. CASE ~Active(key)
    <3>1. Others = ActiveKeys
      BY <1>7, <2>4
    <3>2. Cardinality(ActiveKeys) < MaxBuffers
      BY <1>1, <2>4 DEF BudgetAllows
    <3> QED
      BY <1>1, <1>2, <1>12, <1>14, <2>1, <2>2, <2>4, <3>1, <3>2
  <2> QED
    BY <2>3, <2>4
<1>19. \A k \in Others : k \in Key /\ reassembly'[k] = reassembly[k]
  BY <1>1, <1>6, <1>12
<1>20. SumLen(reassembly', Others) = SumLen(reassembly, Others)
  BY <1>18, <1>19, LensSame
<1>21. CASE Stored
  <2>1. reassembly'[key] = filled
    BY <1>3, <1>6, <1>21
  <2>2. ActiveKeys' = Others \cup {key}
    BY <1>3, <1>6, <1>10, <1>12, <1>21 DEF ActiveKeys, Active
  <2>3. /\ IsFiniteSet(ActiveKeys')
        /\ Cardinality(ActiveKeys') = Cardinality(Others) + 1
    BY <1>18, <2>2, FS_AddElement
  <2>4. SumLen(reassembly', ActiveKeys') = filled.len + SumLen(reassembly', Others)
    <3>1. \A k \in ActiveKeys' : reassembly'[k].len \in Nat
      BY <1>2, <1>9, <1>13, <1>19, <2>1, <2>2
    <3>2. key \in ActiveKeys' /\ ActiveKeys' \ {key} = Others
      BY <2>2
    <3> HIDE DEF Others
    <3> QED
      BY <2>1, <2>3, <3>1, <3>2, LensRemove
  <2>5. BudgetSum'
    <3>1. current_reassembly_bytes' = SumLen(reassembly', ActiveKeys')
      BY <1>2, <1>9, <1>18, <1>20, <1>21, <2>4
    <3>2. Cardinality(ActiveKeys') <= MaxBuffers
      BY <1>18, <2>3
    <3> QED
      BY <1>15, <1>21, <3>1, <3>2 DEF BudgetSum
  <2>6. ASSUME NEW k, k = key
        PROVE  BufferOK(k, reassembly[k])'
    <3>1. BufferOK(k, filled) /\ reassembly'[k] = filled
      BY <1>9, <2>1, <2>6
    <3> QED
      BY <1>1, <3>1 DEF BufferOK, ByteFits, Written
  <2>7. \A k \in ActiveKeys' : BufferOK(k, reassembly[k])'
    BY <1>16, <1>19, <2>2, <2>6
  <2>8. CompletedWhole'
    BY <1>1, <1>21 DEF FragmentInv, CompletedWhole
  <2> QED
    BY <1>11, <1>17, <2>3, <2>5, <2>7, <2>8 DEF FragmentInv
<1>22. CASE Completed
  <2>1. ActiveKeys' = Others
    BY <1>3, <1>6, <1>12, <1>22 DEF ActiveKeys, Active
  <2>2. BudgetSum'
    <3>1. current_reassembly_bytes' = SumLen(reassembly', ActiveKeys')
      BY <1>2, <1>9, <1>18, <1>20, <1>22, <2>1
    <3>2. Cardinality(ActiveKeys') <= MaxBuffers
      BY <1>12, <1>18, <2>1
    <3>3. MaxBytes # 0 => current_reassembly_bytes' <= MaxBytes
      BY <1>2, <1>9, <1>12, <1>15, <1>22
    <3> QED
      BY <3>1, <3>2, <3>3 DEF BudgetSum
  <2>3. \A k \in ActiveKeys' : BufferOK(k, reassembly[k])'
    BY <1>16, <1>19, <2>1
  \* As many bytes as the message has were written, so none is missing.
  <2>4. Written(filled) = 0..(filled.len - 1)
    <3>1. /\ Written(filled) \subseteq 0..(filled.len - 1)
          /\ filled.received_bytes = Cardinality(Written(filled))
      BY <1>9 DEF BufferOK, Written
    <3>2. /\ IsFiniteSet(0..(filled.len - 1))
          /\ Cardinality(0..(filled.len - 1)) = filled.len
      <4>1. filled.len \in Nat /\ 0 \in Nat /\ 0 <= filled.len /\ filled.len - 0 = filled.len
        BY <1>2, <1>9
      <4> QED
        BY <4>1, IntervalCounts
    <3> QED
      BY <1>22, <3>1, <3>2, FS_Subset
  <2>5. CompletedWhole'
    <3> SUFFICES ASSUME NEW b \in DOMAIN filled.data
                 PROVE  /\ filled.data[b] \in DOMAIN sent
                        /\ sent[filled.data[b]].source = message.source
                        /\ sent[filled.data[b]].type = filled.type
                        /\ DOMAIN filled.data = 0..(sent[filled.data[b]].len - 1)
      BY <1>1, <1>22 DEF CompletedWhole
    <3>1. DOMAIN filled.data = 0..(filled.len - 1)
      BY <1>9 DEF BufferOK
    <3>2. ByteFits(key, filled, filled.data[b])
      BY <1>9, <2>4, <3>1 DEF BufferOK
    <3> QED
      BY <1>3, <3>1, <3>2 DEF ByteFits
  <2> QED
    BY <1>11, <1>17, <1>18, <2>1, <2>2, <2>3, <2>5 DEF FragmentInv
<1> QED
  BY <1>1, <1>21, <1>22

-----------------------------------------------------------------------------
\* The inductive invariant of the fragment manager: with the type invariant and
\* the properties below it says where every byte of a buffer came from and which
\* ids the senders may have used, in the form that every operation preserves.
THEOREM FragmentInvariant == Spec => []FragmentInv
<1>1. FragmentInv /\ [Next]_vars => FragmentInv'
  <2> SUFFICES ASSUME FragmentInv, [Next]_vars
               PROVE  FragmentInv'
    OBVIOUS
  <2>1. ASSUME NEW source \in Source, NEW type \in DataType, NEW len \in MessageLen,
               NEW chunk \in ChunkLen, SendFragmented(source, type, len, chunk)
        PROVE  FragmentInv'
    BY <2>1, SendFragmentedInv
  <2>2. ASSUME NEW source \in Source, SenderRestart(source)
        PROVE  FragmentInv'
    BY <2>2, SenderRestartInv
  <2>3. ASSUME NEW uid \in DOMAIN sent, NEW offset \in Offsets(sent[uid]),
               ProcessFragment(uid, offset)
        PROVE  FragmentInv'
    BY <2>3, ProcessFragmentInv
  <2>4. ASSUME NEW expired \in SUBSET ActiveKeys, ProcessTimeouts(expired)
        PROVE  FragmentInv'
    BY <2>4, FreeInv DEF ProcessTimeouts
  <2>5. ASSUME NEW source \in Source, ClearScope(source)
        PROVE  FragmentInv'
    <3>1. {key \in ActiveKeys : key[1] = source} \in SUBSET ActiveKeys
      OBVIOUS
    <3> QED
      BY <2>5, <3>1, FreeInv DEF ClearScope
  <2>6. CASE UNCHANGED vars
    <3>1. SendersOK'
      BY <2>6 DEF vars, FragmentInv, SendersOK, SentMessage
    <3> QED
      BY <2>6, <3>1, SenderStepInv DEF vars
  <2> QED
    BY <2>1, <2>2, <2>3, <2>4, <2>5, <2>6 DEF Next
<1> QED
  BY <1>1, InitInv, PTL DEF Spec

\* The type invariant of the fragment manager and the senders' counters.
THEOREM FragmentTypes == Spec => []TypeOK
<1>1. FragmentInv => TypeOK
  BY InvariantSuffices
<1> QED
  BY <1>1, FragmentInvariant, PTL

\* Whatever order the fragments come in, however they overlap and however often
\* they are repeated, fragment_insert_received_range keeps an array of separate
\* ranges that is exactly the set of bytes written, and received_bytes counts
\* them.
THEOREM RangesDescribeBytes == Spec => []RangesTrackBytes
<1>1. FragmentInv => RangesTrackBytes
  BY InvariantSuffices
<1> QED
  BY <1>1, FragmentInvariant, PTL

\* What is reserved against the budget is the sum of what the active buffers
\* hold, on every path by which a buffer comes and goes, and no limit is passed.
THEOREM BudgetStaysExact == Spec => []BudgetExact
<1>1. FragmentInv => BudgetExact
  BY InvariantSuffices
<1> QED
  BY <1>1, FragmentInvariant, PTL

\* A message handed to rx_callback has no byte that was not received, and no
\* byte of another source, type or length.
THEOREM OnlyWholeMessages == Spec => []CompletedWhole
<1>1. FragmentInv => CompletedWhole
  BY InvariantSuffices
<1> QED
  BY <1>1, FragmentInvariant, PTL

=============================================================================
