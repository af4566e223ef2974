---------------------------- MODULE RuntimeProofs ----------------------------
(***************************************************************************)
(* Timeouts and deadlines, proved for every clock size, boot reading,      *)
(* timeout, queue length and number of events: nothing expires early or is *)
(* missed, the deadline the main loop sleeps for covers every timeout, and *)
(* the estimator and the backoff stay within their limits.                 *)
(***************************************************************************)
EXTENDS Runtime, CommonLemmas, TLAPS

-----------------------------------------------------------------------------
(***************************************************************************)
(* The clock                                                               *)
(***************************************************************************)
\* What the clock reads at a real time.
At(t) == (boot + t) % ClockSize

\* The assumption on the constants, one by one.
LEMMA ConstantBounds ==
    /\ ClockSize \in Nat \ {0} /\ ClockSize % 2 = 0
    /\ BootReadings \subseteq Reading
    /\ DefaultRto \in Nat \ {0} /\ MinRto \in Nat \ {0} /\ MaxRto \in Nat \ {0}
    /\ BackoffCap \in Nat \ {0} /\ FragmentTimeout \in Nat \ {0}
    /\ PollInterval \in Nat \ {0}
    /\ MinRto <= DefaultRto /\ DefaultRto <= MaxRto
    /\ IdleTimeout \in Nat /\ MaxTime \in Nat
    /\ SendTimeouts \subseteq Nat /\ RttSamples \subseteq Nat
  BY RuntimeAssumption DEF Reading

\* A remainder is a reading.
LEMMA RemainderIsReading ==
    ASSUME NEW x \in Int
    PROVE  x % ClockSize \in Reading
<1> DEFINE c == ClockSize
<1>1. c \in Nat \ {0}
  BY ConstantBounds
<1> HIDE DEF c
<1>2. x % c \in 0..(c - 1)
  BY <1>1
<1> QED
  BY <1>2 DEF Reading, c

\* The remainder of a small difference.
LEMMA SmallRemainder ==
    ASSUME NEW d \in Int, d < ClockSize, -ClockSize <= d
    PROVE  d % ClockSize = IF d >= 0 THEN d ELSE d + ClockSize
<1> DEFINE c == ClockSize
<1>1. c \in Nat \ {0}
  BY ConstantBounds
<1>2. d < c /\ -c <= d
  OBVIOUS
<1> HIDE DEF c
<1>3. CASE d >= 0
  BY <1>1, <1>2, <1>3, OwnRemainder DEF c
<1>4. CASE d < 0
  <2>0. PICK one \in Int, e \in Int : one = 1 /\ e = d + c
    BY <1>1
  <2>1. e - d = c * one /\ e \in Nat /\ e < c
    BY <1>1, <1>2, <1>4, <2>0
  <2>2. e % c = e
    BY <1>1, <2>1, OwnRemainder
  <2>3. e % c = d % c
    BY <1>1, <2>1, SameRemainder
  <2> QED
    BY <1>4, <2>0, <2>2, <2>3 DEF c
<1> QED
  BY <1>3, <1>4

\* A remainder never exceeds the natural number it is taken of.
LEMMA RemainderBelow ==
    ASSUME NEW x \in Nat
    PROVE  x % ClockSize <= x
<1> DEFINE c == ClockSize
<1>1. c \in Nat \ {0}
  BY ConstantBounds
<1> HIDE DEF c
<1> DEFINE q == x \div c
           r == x % c
<1>2. q \in Int /\ r \in Int /\ x = c * q + r /\ 0 <= r /\ r < c
  BY <1>1
<1> HIDE DEF q, r
<1>3. q >= 0
  <2>1. CASE q <= -1
    <3>1. c * q <= -c
      BY <1>1, <1>2, <2>1
    <3> QED
      BY <1>1, <1>2, <3>1
  <2> QED
    BY <1>2, <2>1
<1>4. c * q >= 0
  <2>1. CASE q = 0
    BY <1>1, <2>1
  <2>2. CASE q >= 1
    <3>1. c * q >= c
      BY <1>1, <1>2, <2>2
    <3> QED
      BY <1>1, <1>2, <3>1
  <2> QED
    BY <1>2, <1>3, <2>1, <2>2
<1>5. r <= x
  <2> DEFINE cq == c * q
  <2>1. cq \in Int /\ cq >= 0 /\ x = cq + r
    BY <1>1, <1>2, <1>4
  <2> HIDE DEF cq
  <2> QED
    BY <1>2, <2>1
<1> QED
  BY <1>5 DEF r, c

\* A number is its remainder and a multiple of the modulus.
LEMMA RemainderOf ==
    ASSUME NEW x \in Int
    PROVE  \E k \in Int : x - (x % ClockSize) = ClockSize * k
<1> DEFINE c == ClockSize
<1>1. c \in Nat \ {0}
  BY ConstantBounds
<1> HIDE DEF c
<1> DEFINE q == x \div c
           r == x % c
<1>2. q \in Int /\ r \in Int /\ x = c * q + r
  BY <1>1
<1> HIDE DEF q, r
<1>3. c * q \in Int
  BY <1>1, <1>2
<1>4. x - r = c * q
  BY <1>2, <1>3
<1> QED
  BY <1>2, <1>4 DEF r, c

\* A timeout added to a reading: the reading at the real time it falls due.
LEMMA ReadingPlus ==
    ASSUME boot \in Int, NEW t \in Int, NEW d \in Int
    PROVE  (At(t) + d) % ClockSize = At(t + d)
<1> DEFINE c == ClockSize
           x == boot + t
<1>1. c \in Nat \ {0} /\ x \in Int
  BY ConstantBounds
<1>2. PICK k \in Int : x - (x % c) = c * k
  BY <1>1, RemainderOf
<1>3. x % c \in Int
  BY <1>1, RemainderIsReading DEF Reading
<1> DEFINE r == x % c
           ck == c * k
<1>4. ck \in Int /\ r \in Int /\ x - r = ck
  BY <1>1, <1>2, <1>3
<1> HIDE DEF c, x, r, ck
<1>5. (x + d) - (r + d) = ck /\ x + d \in Int /\ r + d \in Int
  BY <1>1, <1>4
<1>6. (x + d) % c = (r + d) % c
  BY <1>1, <1>5, SameRemainder DEF ck
<1>7. x + d = boot + (t + d)
  BY DEF x
<1> QED
  BY <1>6, <1>7 DEF At, c, x, r

\* The unsigned difference of two readings.
LEMMA ElapsedIs ==
    ASSUME boot \in Int, NEW a \in Int, NEW b \in Int
    PROVE  Elapsed(At(a), At(b)) = (a - b) % ClockSize
<1> DEFINE c == ClockSize
           x == boot + a
           y == boot + b
<1>1. c \in Nat \ {0} /\ x \in Int /\ y \in Int
  BY ConstantBounds
<1>2. PICK k \in Int : x - (x % c) = c * k
  BY <1>1, RemainderOf
<1>3. PICK l \in Int : y - (y % c) = c * l
  BY <1>1, RemainderOf
<1>4. x % c \in Int /\ y % c \in Int
  BY <1>1, RemainderIsReading DEF Reading
<1> DEFINE r == x % c
           s == y % c
           ck == c * k
           cl == c * l
           m == k - l
<1>5. r \in Int /\ s \in Int /\ ck \in Int /\ cl \in Int /\ x - r = ck /\ y - s = cl
  BY <1>1, <1>2, <1>3, <1>4
<1>6. m \in Int /\ c * m = ck - cl
  BY <1>1
<1>7. x - y = a - b
  OBVIOUS
<1> HIDE DEF c, x, y, r, s, ck, cl, m
<1>8. (a - b) - (r - s) = c * m /\ a - b \in Int /\ r - s \in Int
  BY <1>1, <1>5, <1>6, <1>7
<1>9. (a - b) % c = (r - s) % c
  BY <1>1, <1>6, <1>8, SameRemainder
<1> QED
  BY <1>9 DEF Elapsed, At, c, x, y, r, s

\* Half of an even clock size, twice, is the clock size.
LEMMA HalfTurn ==
    /\ ClockSize \div 2 \in Nat
    /\ ClockSize = 2 * (ClockSize \div 2)
  BY ConstantBounds

\* The signed difference of two readings that are less than half a turn apart
\* is the difference of the real times.
LEMMA SignedIs ==
    ASSUME boot \in Int, NEW a \in Int, NEW b \in Int,
           a - b < ClockSize \div 2, b - a < ClockSize \div 2
    PROVE  SignedDifference(At(a), At(b)) = a - b
<1> DEFINE d == a - b
           c == ClockSize
           h == ClockSize \div 2
<1>1. c \in Nat \ {0} /\ h \in Nat /\ c = 2 * h /\ d \in Int /\ d < h /\ -d < h
  BY ConstantBounds, HalfTurn
<1>2. Elapsed(At(a), At(b)) = d % c
  BY ElapsedIs
<1>3. d < c /\ -c <= d
  <2> HIDE DEF c, h, d
  <2> QED
    BY <1>1
<1>4. d % c = IF d >= 0 THEN d ELSE d + c
  BY <1>1, <1>3, SmallRemainder
<1>5. SignedDifference(At(a), At(b)) = IF d % c >= h THEN (d % c) - c ELSE d % c
  BY <1>2 DEF SignedDifference
<1> HIDE DEF c, h
<1>6. CASE d >= 0
  BY <1>1, <1>4, <1>5, <1>6
<1>7. CASE d < 0
  BY <1>1, <1>4, <1>5, <1>7
<1> QED
  BY <1>1, <1>6, <1>7

-----------------------------------------------------------------------------
(***************************************************************************)
(* The exponential backoff                                                 *)
(***************************************************************************)
IsDoubling(f, initial) ==
    f = [n \in 0..10 |-> IF n = 0 THEN initial ELSE Lesser(f[n - 1] * 2, BackoffCap)]

\* The powers of two the loop can reach.
Power(n) ==
    IF n = 0 THEN 1 ELSE IF n = 1 THEN 2 ELSE IF n = 2 THEN 4
    ELSE IF n = 3 THEN 8 ELSE IF n = 4 THEN 16 ELSE IF n = 5 THEN 32
    ELSE IF n = 6 THEN 64 ELSE IF n = 7 THEN 128 ELSE IF n = 8 THEN 256
    ELSE IF n = 9 THEN 512 ELSE 1024

\* Each of them is twice the one before.
LEMMA PowerDoubles ==
    /\ Power(0) = 1
    /\ \A n \in 0..10 : Power(n) \in Nat \ {0}
    /\ \A n \in 1..10 : Power(n) = 2 * Power(n - 1)
  BY DEF Power

\* They are what exponentiation gives.
LEMMA PowerIs ==
    ASSUME NEW n \in 0..10
    PROVE  2^n = Power(n)
<1>1. \/ n = 0 \/ n = 1 \/ n = 2 \/ n = 3 \/ n = 4 \/ n = 5
      \/ n = 6 \/ n = 7 \/ n = 8 \/ n = 9 \/ n = 10
  OBVIOUS
<1>2. CASE n = 0
  <2>1. 2^0 = Power(0)
    BY DEF Power
  <2> QED
    BY <1>2, <2>1, Zenon
<1>3. CASE n = 1
  <2>1. 2^1 = Power(1)
    BY DEF Power
  <2> QED
    BY <1>3, <2>1, Zenon
<1>4. CASE n = 2
  <2>1. 2^2 = Power(2)
    BY DEF Power
  <2> QED
    BY <1>4, <2>1, Zenon
<1>5. CASE n = 3
  <2>1. 2^3 = Power(3)
    BY DEF Power
  <2> QED
    BY <1>5, <2>1, Zenon
<1>6. CASE n = 4
  <2>1. 2^4 = Power(4)
    BY DEF Power
  <2> QED
    BY <1>6, <2>1, Zenon
<1>7. CASE n = 5
  <2>1. 2^5 = Power(5)
    BY DEF Power
  <2> QED
    BY <1>7, <2>1, Zenon
<1>8. CASE n = 6
  <2>1. 2^6 = Power(6)
    BY DEF Power
  <2> QED
    BY <1>8, <2>1, Zenon
<1>9. CASE n = 7
  <2>1. 2^7 = Power(7)
    BY DEF Power
  <2> QED
    BY <1>9, <2>1, Zenon
<1>10. CASE n = 8
  <2>1. 2^8 = Power(8)
    BY DEF Power
  <2> QED
    BY <1>10, <2>1, Zenon
<1>11. CASE n = 9
  <2>1. 2^9 = Power(9)
    BY DEF Power
  <2> QED
    BY <1>11, <2>1, Zenon
<1>12. CASE n = 10
  <2>1. 2^10 = Power(10)
    BY DEF Power
  <2> QED
    BY <1>12, <2>1, Zenon
<1> QED
  BY <1>1, <1>2, <1>3, <1>4, <1>5, <1>6, <1>7, <1>8, <1>9, <1>10, <1>11, <1>12

\* The doubled timeout, capped after each doubling, has a closed form.
LEMMA DoublingExists ==
    ASSUME NEW initial \in Nat
    PROVE  IsDoubling([n \in 0..10 |-> IF n = 0 THEN initial
                                       ELSE Lesser(initial * Power(n), BackoffCap)],
                      initial)
<1> DEFINE f == [n \in 0..10 |-> IF n = 0 THEN initial
                                 ELSE Lesser(initial * Power(n), BackoffCap)]
<1>1. ASSUME NEW n \in 1..10
      PROVE  f[n] = Lesser(f[n - 1] * 2, BackoffCap)
  <2>1. PICK x, y : x = initial * Power(n - 1) /\ y = initial * Power(n)
    OBVIOUS
  <2>2. Power(n - 1) \in Nat /\ Power(n) = 2 * Power(n - 1)
    BY PowerDoubles
  <2>3. x \in Nat /\ y = 2 * x
    BY <2>1, <2>2
  <2>4. f[n] = Lesser(y, BackoffCap)
    BY <2>1
  <2>5. CASE n = 1
    <3>1. x = initial
      BY <2>1, <2>5, PowerDoubles
    <3> QED
      BY <2>3, <2>4, <2>5, <3>1
  <2>6. CASE n # 1
    <3>1. f[n - 1] = Lesser(x, BackoffCap)
      BY <2>1, <2>6
    <3>2. Lesser(Lesser(x, BackoffCap) * 2, BackoffCap) = Lesser(2 * x, BackoffCap)
      BY <2>3, ConstantBounds DEF Lesser
    <3> QED
      BY <2>3, <2>4, <3>1, <3>2
  <2> QED
    BY <2>5, <2>6
<1>2. f = [n \in 0..10 |-> f[n]] /\ f[0] = initial
  OBVIOUS
<1> HIDE DEF f
<1>3. f = [n \in 0..10 |-> IF n = 0 THEN initial ELSE Lesser(f[n - 1] * 2, BackoffCap)]
  BY <1>1, <1>2
<1> QED
  BY <1>3 DEF IsDoubling, f

\* Functions that double in this way agree.
LEMMA DoublingUnique ==
    ASSUME NEW initial \in Nat, NEW f, NEW g,
           IsDoubling(f, initial), IsDoubling(g, initial)
    PROVE  \A n \in 0..10 : f[n] = g[n]
<1>0. f[0] = g[0]
  BY DEF IsDoubling
<1>s. \A n \in 1..10 : f[n - 1] = g[n - 1] => f[n] = g[n]
  BY DEF IsDoubling
<1>1. f[1] = g[1] BY <1>0, <1>s
<1>2. f[2] = g[2] BY <1>1, <1>s
<1>3. f[3] = g[3] BY <1>2, <1>s
<1>4. f[4] = g[4] BY <1>3, <1>s
<1>5. f[5] = g[5] BY <1>4, <1>s
<1>6. f[6] = g[6] BY <1>5, <1>s
<1>7. f[7] = g[7] BY <1>6, <1>s
<1>8. f[8] = g[8] BY <1>7, <1>s
<1>9. f[9] = g[9] BY <1>8, <1>s
<1>10. f[10] = g[10] BY <1>9, <1>s
<1> QED
  BY <1>0, <1>1, <1>2, <1>3, <1>4, <1>5, <1>6, <1>7, <1>8, <1>9, <1>10

\* xgl_reliable_calc_backoff: the first timeout as it is, then the timeout
\* times a power of two, or the cap.
LEMMA BackoffIs ==
    ASSUME NEW initial \in Nat, NEW r \in Nat
    PROVE  /\ Lesser(r, 10) \in 0..10
           /\ xgl_reliable_calc_backoff(initial, r) =
                 IF r = 0 THEN initial
                 ELSE Lesser(initial * Power(Lesser(r, 10)), BackoffCap)
<1> DEFINE f == CHOOSE g : IsDoubling(g, initial)
           e == [n \in 0..10 |-> IF n = 0 THEN initial
                                 ELSE Lesser(initial * Power(n), BackoffCap)]
<1>1. IsDoubling(f, initial) /\ IsDoubling(e, initial)
  BY DoublingExists
<1>2. Lesser(r, 10) \in 0..10 /\ (Lesser(r, 10) = 0 <=> r = 0)
  BY DEF Lesser
<1>3. xgl_reliable_calc_backoff(initial, r) = f[Lesser(r, 10)]
  BY DEF xgl_reliable_calc_backoff, IsDoubling
<1> HIDE DEF f
<1>4. f[Lesser(r, 10)] = e[Lesser(r, 10)]
  <2> HIDE DEF e
  <2> QED
    BY <1>1, <1>2, DoublingUnique
<1> QED
  BY <1>2, <1>3, <1>4

\* The backoff is positive, and after a retry at most the cap.
LEMMA BackoffBounds ==
    ASSUME NEW initial \in Nat \ {0}, NEW r \in Nat \ {0}
    PROVE  xgl_reliable_calc_backoff(initial, r) \in 1..BackoffCap
<1>1. PICK p, x : p = Power(Lesser(r, 10)) /\ x = initial * p
  OBVIOUS
<1>2. p \in Nat \ {0} /\ xgl_reliable_calc_backoff(initial, r) = Lesser(x, BackoffCap)
  BY <1>1, BackoffIs, PowerDoubles
<1>3. x \in Nat /\ x >= initial
  BY <1>1, <1>2
<1> QED
  BY <1>2, <1>3, ConstantBounds DEF Lesser

\* The closed form of the property, and that waiting never gets shorter.
LEMMA BackoffSound ==
    ASSUME NEW initial \in 1..BackoffCap, NEW n \in 0..12
    PROVE  /\ xgl_reliable_calc_backoff(initial, n)
                  = Lesser(initial * 2^Lesser(n, 10), BackoffCap)
           /\ xgl_reliable_calc_backoff(initial, n)
                  <= xgl_reliable_calc_backoff(initial, n + 1)
<1>0. initial \in Nat \ {0} /\ initial <= BackoffCap /\ n \in Nat /\ n + 1 \in Nat /\ n + 1 # 0
  BY ConstantBounds
<1>1. PICK i, j : i = Lesser(n, 10) /\ j = Lesser(n + 1, 10)
  OBVIOUS
<1>2. i \in 0..10 /\ j \in 0..10 /\ (j = i \/ j = i + 1) /\ (n = 0 => i = 0)
  BY <1>1 DEF Lesser
<1>3. PICK p, q : p = Power(i) /\ q = Power(j)
  OBVIOUS
<1>4. p \in Nat \ {0} /\ q \in Nat \ {0} /\ p <= q
  <2>1. p \in Nat \ {0} /\ q \in Nat \ {0}
    BY <1>2, <1>3, PowerDoubles
  <2>2. CASE j = i
    BY <1>3, <2>1, <2>2
  <2>3. CASE j = i + 1
    <3>1. q = 2 * p
      BY <1>2, <1>3, <2>3, PowerDoubles
    <3> QED
      BY <2>1, <3>1
  <2> QED
    BY <1>2, <2>2, <2>3
<1>5. PICK x, y : x = initial * p /\ y = initial * q
  OBVIOUS
<1>6. x \in Nat /\ y \in Nat /\ x <= y
  BY <1>0, <1>4, <1>5
<1>7. /\ xgl_reliable_calc_backoff(initial, n) =
             IF n = 0 THEN initial ELSE Lesser(x, BackoffCap)
      /\ xgl_reliable_calc_backoff(initial, n + 1) = Lesser(y, BackoffCap)
  BY <1>0, <1>1, <1>3, <1>5, BackoffIs
<1>8. n = 0 => x = initial
  <2>1. n = 0 => p = 1
    BY <1>2, <1>3, PowerDoubles
  <2> QED
    BY <1>0, <1>5, <2>1
<1>9. xgl_reliable_calc_backoff(initial, n) = Lesser(x, BackoffCap)
  BY <1>0, <1>7, <1>8 DEF Lesser
<1>10. Lesser(x, BackoffCap) <= Lesser(y, BackoffCap)
  BY <1>6, ConstantBounds DEF Lesser
<1>11. 2^i = p
  BY <1>2, <1>3, PowerIs
<1> QED
  BY <1>1, <1>5, <1>7, <1>9, <1>10, <1>11

-----------------------------------------------------------------------------
(***************************************************************************)
(* The estimator                                                           *)
(***************************************************************************)
Estimate == [srtt : Nat, rttvar : Nat, rto : MinRto..MaxRto, initialized : BOOLEAN]

\* An estimate that is one, once initialised, lies between two samples.
Between(est, lo, hi) == est.initialized => lo <= est.srtt /\ est.srtt <= hi

\* Smoothing moves a value towards the measurement and not beyond it.
LEMMA SmoothedBetween ==
    ASSUME NEW old \in Int, NEW target \in Int, NEW error \in Int, error = target - old,
           NEW shift \in {2, 3}
    PROVE  /\ Smoothed(old, error, shift) \in Int
           /\ old <= target => /\ old <= Smoothed(old, error, shift)
                               /\ Smoothed(old, error, shift) <= target
           /\ target <= old => /\ target <= Smoothed(old, error, shift)
                               /\ Smoothed(old, error, shift) <= old
<1>1. CASE shift = 2
  <2>1. Smoothed(old, error, shift) = old + (error \div 4)
    BY <1>1 DEF Smoothed
  <2> QED
    BY <2>1
<1>2. CASE shift = 3
  <2>1. Smoothed(old, error, shift) = old + (error \div 8)
    BY <1>2 DEF Smoothed
  <2> QED
    BY <2>1
<1> QED
  BY <1>1, <1>2

\* xgl_rtt_update, for every estimate and every measurement: a negative one
\* counts as zero, the smoothed time stays between old and new, the deviation
\* does not become negative and the RTO is within its limits.
LEMMA RttUpdateSound ==
    ASSUME NEW est \in Estimate, NEW measured \in Int, NEW lo \in Nat, NEW hi \in Nat,
           Between(est, lo, hi),
           lo <= NonNegative(measured), NonNegative(measured) <= hi
    PROVE  /\ xgl_rtt_update(est, measured) \in Estimate
           /\ xgl_rtt_update(est, measured).initialized
           /\ Between(xgl_rtt_update(est, measured), lo, hi)
<1>0. est.srtt \in Nat /\ est.rttvar \in Nat /\ est.initialized \in BOOLEAN
  BY DEF Estimate
<1>1. PICK m \in Nat : m = NonNegative(measured)
  BY DEF NonNegative
<1>2. PICK dev \in Nat : dev = Magnitude(m - est.srtt)
  BY <1>0 DEF Magnitude
<1>3. PICK srtt, rttvar :
          /\ srtt = IF est.initialized THEN Smoothed(est.srtt, m - est.srtt, 3) ELSE m
          /\ rttvar = IF est.initialized THEN Smoothed(est.rttvar, dev - est.rttvar, 2)
                      ELSE m \div 2
  OBVIOUS
<1>4. xgl_rtt_update(est, measured) =
          [srtt |-> srtt, rttvar |-> rttvar, initialized |-> TRUE,
           rto |-> Clamp(srtt + 4 * rttvar, MinRto, MaxRto)]
  BY <1>1, <1>2, <1>3 DEF xgl_rtt_update, NonNegative
<1>5. srtt \in Nat /\ lo <= srtt /\ srtt <= hi
  <2>1. CASE est.initialized
    <3>1. PICK old \in Int, target \in Int, error \in Int, shift \in {2, 3} :
              old = est.srtt /\ target = m /\ error = target - old /\ shift = 3
      BY <1>0
    <3>2. PICK s : s = Smoothed(old, error, shift)
      OBVIOUS
    <3>3. /\ s \in Int
          /\ old <= target => old <= s /\ s <= target
          /\ target <= old => target <= s /\ s <= old
      BY <3>1, <3>2, SmoothedBetween
    <3> QED
      BY <1>0, <1>1, <1>3, <2>1, <3>1, <3>2, <3>3 DEF Between
  <2>2. CASE ~est.initialized
    BY <1>1, <1>3, <2>2
  <2> QED
    BY <2>1, <2>2
<1>6. rttvar \in Nat
  <2>1. CASE est.initialized
    <3>1. PICK old \in Int, target \in Int, error \in Int, shift \in {2, 3} :
              old = est.rttvar /\ target = dev /\ error = target - old /\ shift = 2
      BY <1>0
    <3>2. PICK s : s = Smoothed(old, error, shift)
      OBVIOUS
    <3>3. /\ s \in Int
          /\ old <= target => old <= s /\ s <= target
          /\ target <= old => target <= s /\ s <= old
      BY <3>1, <3>2, SmoothedBetween
    <3> QED
      BY <1>0, <1>3, <2>1, <3>1, <3>2, <3>3
  <2>2. CASE ~est.initialized
    BY <1>3, <2>2
  <2> QED
    BY <2>1, <2>2
<1>7. Clamp(srtt + 4 * rttvar, MinRto, MaxRto) \in MinRto..MaxRto
  BY <1>5, <1>6, ConstantBounds DEF Clamp
<1> QED
  BY <1>4, <1>5, <1>6, <1>7 DEF Estimate, Between

\* The estimates after each of a sequence of measurements.
EstimateStep(g, s, t) ==
    IF t = {} THEN xgl_rtt_init ELSE xgl_rtt_update(g[t \ {Max(t)}], s[Max(t)])
IsEstimates(g, s) == g = [t \in SUBSET DOMAIN s |-> EstimateStep(g, s, t)]

\* The largest of a set of positions is one of them.
LEMMA MaxIn ==
    ASSUME NEW t \in SUBSET Int, IsFiniteSet(t), t # {}
    PROVE  Max(t) \in t /\ \A i \in t : i <= Max(t)
<1>1. \E m \in t : \A n \in t : m >= n
  BY LargestExists
<1>2. Max(t) \in t /\ \A n \in t : Max(t) >= n
  BY <1>1 DEF Max
<1> QED
  BY <1>2

\* The initial estimate is one.
LEMMA RttInitSound == xgl_rtt_init \in Estimate /\ ~xgl_rtt_init.initialized
  BY ConstantBounds DEF xgl_rtt_init, Estimate

\* Folding xgl_rtt_update over measurements.
LEMMA EstimatesExist ==
    ASSUME NEW s, DOMAIN s \in SUBSET Int, IsFiniteSet(DOMAIN s),
           \A i \in DOMAIN s : s[i] \in Int
    PROVE  \E g : /\ IsEstimates(g, s)
                  /\ FoldLeft(xgl_rtt_update, xgl_rtt_init, s) = g[DOMAIN s]
<1>1. PICK S, V : S = DOMAIN s /\ V = Estimate
  OBVIOUS
<1>2. PICK pick : pick = [t \in SUBSET S |-> Max(t)]
  OBVIOUS
<1>3. PICK op : op = [i \in S |-> [v \in V |-> xgl_rtt_update(v, s[i])]]
  OBVIOUS
<1>4. Picks(pick, S)
  <2>1. ASSUME NEW t \in SUBSET S, t # {}
        PROVE  pick[t] \in t
    <3>1. t \in SUBSET Int /\ IsFiniteSet(t)
      BY <1>1, FS_Subset
    <3>2. Max(t) \in t
      BY <2>1, <3>1, MaxIn
    <3> QED
      BY <1>2, <3>2
  <2> QED
    BY <2>1 DEF Picks
<1>5. Closed(op, S, V)
  <2>1. ASSUME NEW i \in S, NEW v \in V
        PROVE  xgl_rtt_update(v, s[i]) \in V
    <3>1. PICK m \in Int : m = s[i]
      BY <1>1
    <3>2. PICK n \in Nat : n = NonNegative(m)
      BY DEF NonNegative
    <3>3. v \in Estimate /\ v.srtt \in Nat
      BY <1>1 DEF Estimate
    <3>4. PICK hi \in Nat : v.srtt <= hi /\ n <= hi
      <4>1. v.srtt + n \in Nat /\ v.srtt <= v.srtt + n /\ n <= v.srtt + n
        BY <3>3
      <4> QED
        BY <4>1
    <3>5. PICK zero \in Nat : zero = 0
      OBVIOUS
    <3>6. Between(v, zero, hi) /\ zero <= NonNegative(m) /\ NonNegative(m) <= hi
      BY <3>2, <3>3, <3>4, <3>5 DEF Between
    <3>7. xgl_rtt_update(v, m) \in Estimate
      BY <3>3, <3>6, RttUpdateSound
    <3> QED
      BY <1>1, <3>1, <3>7
  <2> QED
    BY <1>3, <2>1 DEF Closed
<1>6. PICK base : base = xgl_rtt_init
  OBVIOUS
<1>7. base \in V /\ IsFiniteSet(S)
  BY <1>1, <1>6, RttInitSound
<1>g. PICK g : IsFold(g, S, V, base, pick, op)
  BY <1>4, <1>5, <1>7, FoldExists
<1>8. g \in [SUBSET S -> V] /\ \A t \in SUBSET S : g[t] = FoldStep(g, base, pick, op, t)
  BY <1>g DEF IsFold
<1>9. ASSUME NEW t \in SUBSET S
      PROVE  g[t] = EstimateStep(g, s, t)
  <2>1. CASE t # {}
    <3>1. PICK x : x = Max(t)
      OBVIOUS
    <3>2. pick[t] = x /\ x \in S /\ t \ {x} \in SUBSET S
      BY <1>2, <1>4, <2>1, <3>1 DEF Picks
    <3>3. g[t \ {x}] \in V
      BY <1>8, <3>2
    <3>4. op[x][g[t \ {x}]] = xgl_rtt_update(g[t \ {x}], s[x])
      BY <1>3, <3>2, <3>3
    <3> QED
      BY <1>8, <2>1, <3>1, <3>2, <3>4 DEF FoldStep, EstimateStep
  <2> QED
    BY <1>6, <1>8, <2>1 DEF FoldStep, EstimateStep
<1>10. IsEstimates(g, s)
  <2>1. g = [t \in SUBSET S |-> g[t]]
    BY <1>8
  <2>2. g = [t \in SUBSET S |-> EstimateStep(g, s, t)]
    BY <1>9, <2>1
  <2> QED
    BY <1>1, <2>2 DEF IsEstimates
<1>11. PICK h : h = CHOOSE f : IsEstimates(f, s)
  OBVIOUS
<1>12. IsEstimates(h, s)
  BY <1>10, <1>11
<1>13. FoldLeft(xgl_rtt_update, xgl_rtt_init, s) = (CHOOSE f : IsEstimates(f, s))[DOMAIN s]
  BY DEF FoldLeft, MapThenFoldSet, IsEstimates, EstimateStep
<1> QED
  BY <1>11, <1>12, <1>13

\* Three measurements, folded: the smoothed time lies between any bounds of
\* the measurements.
LEMMA ThreeSamples ==
    ASSUME NEW a \in Int, NEW b \in Int, NEW c \in Int, NEW lo \in Nat, NEW hi \in Nat,
           \A m \in {a, b, c} : lo <= NonNegative(m) /\ NonNegative(m) <= hi,
           NEW est, est = FoldLeft(xgl_rtt_update, xgl_rtt_init, <<a, b, c>>)
    PROVE  est \in Estimate /\ lo <= est.srtt /\ est.srtt <= hi
<1>1. PICK s : s = <<a, b, c>>
  OBVIOUS
<1>2. /\ DOMAIN s = 1..3 /\ s[1] = a /\ s[2] = b /\ s[3] = c
      /\ DOMAIN s \in SUBSET Int /\ \A i \in DOMAIN s : s[i] \in Int
  BY <1>1
<1>3. IsFiniteSet(DOMAIN s)
  <2>1. PICK i \in Int, j \in Int : i = 1 /\ j = 3
    OBVIOUS
  <2>2. IsFiniteSet(i..j)
    BY FS_Interval
  <2> QED
    BY <1>2, <2>1, <2>2
<1>4. PICK g : IsEstimates(g, s) /\ FoldLeft(xgl_rtt_update, xgl_rtt_init, s) = g[DOMAIN s]
  BY <1>2, <1>3, EstimatesExist
<1>5. est = g[1..3] /\ \A t \in SUBSET (1..3) : g[t] = EstimateStep(g, s, t)
  BY <1>1, <1>2, <1>4 DEF IsEstimates
<1>6. ASSUME NEW t \in SUBSET (1..3), t # {}
      PROVE  Max(t) \in t /\ (\A i \in t : i <= Max(t))
             /\ g[t] = xgl_rtt_update(g[t \ {Max(t)}], s[Max(t)])
  <2>1. t \in SUBSET Int /\ IsFiniteSet(t)
    BY <1>2, <1>3, FS_Subset
  <2> QED
    BY <1>5, <1>6, <2>1, MaxIn DEF EstimateStep
<1>7. PICK e0, e1, e2 : e0 = g[{}] /\ e1 = g[{1}] /\ e2 = g[{1, 2}]
  OBVIOUS
<1>8. e0 = xgl_rtt_init
  <2>1. {} \in SUBSET (1..3)
    OBVIOUS
  <2> QED
    BY <1>5, <1>7, <2>1 DEF EstimateStep
<1>9. e1 = xgl_rtt_update(e0, a)
  <2>1. {1} \in SUBSET (1..3) /\ {1} # {}
    OBVIOUS
  <2>2. Max({1}) = 1 /\ {1} \ {1} = {}
    BY <1>6, <2>1
  <2> QED
    BY <1>2, <1>6, <1>7, <2>1, <2>2
<1>10. e2 = xgl_rtt_update(e1, b)
  <2>1. {1, 2} \in SUBSET (1..3) /\ {1, 2} # {}
    OBVIOUS
  <2>2. PICK m : m = Max({1, 2})
    OBVIOUS
  <2>3. m \in {1, 2} /\ 2 <= m /\ g[{1, 2}] = xgl_rtt_update(g[{1, 2} \ {m}], s[m])
    BY <1>6, <2>1, <2>2, Zenon
  <2>4. m = 2 /\ {1, 2} \ {m} = {1}
    BY <2>3
  <2> QED
    BY <1>2, <1>7, <2>3, <2>4
<1>11. est = xgl_rtt_update(e2, c)
  <2>1. 1..3 \in SUBSET (1..3) /\ 1..3 # {} /\ 3 \in 1..3 /\ 1..3 = {1, 2, 3}
    OBVIOUS
  <2>2. PICK m : m = Max(1..3)
    OBVIOUS
  <2>3. m \in 1..3 /\ 3 <= m /\ g[1..3] = xgl_rtt_update(g[(1..3) \ {m}], s[m])
    BY <1>6, <2>1, <2>2, Zenon
  <2>4. m = 3 /\ (1..3) \ {m} = {1, 2}
    BY <2>1, <2>3
  <2> QED
    BY <1>2, <1>5, <1>7, <2>3, <2>4
<1>12. e0 \in Estimate /\ Between(e0, lo, hi)
  BY <1>8, RttInitSound DEF Between
<1>13. e1 \in Estimate /\ Between(e1, lo, hi)
  BY <1>9, <1>12, RttUpdateSound
<1>14. e2 \in Estimate /\ Between(e2, lo, hi)
  BY <1>10, <1>13, RttUpdateSound
<1>15. est \in Estimate /\ est.initialized /\ Between(est, lo, hi)
  BY <1>11, <1>14, RttUpdateSound
<1> QED
  BY <1>15 DEF Between

\* The property of the estimator and the backoff, in every state.
LEMMA EstimatorHolds == EstimatorSound
<1>1. ASSUME NEW s \in SampleSequences
      PROVE  LET est == FoldLeft(xgl_rtt_update, xgl_rtt_init, s)
                 samples == {NonNegative(s[i]) : i \in 1..3}
             IN  /\ \E m \in samples : m <= est.srtt
                 /\ \E m \in samples : est.srtt <= m
                 /\ est.rttvar >= 0
                 /\ est.rto \in MinRto..MaxRto
  <2>1. PICK a, b, c \in RttSamples \union {-1} : s = <<a, b, c>>
    BY DEF SampleSequences
  <2>2. a \in Int /\ b \in Int /\ c \in Int
    BY <2>1, ConstantBounds
  <2>3. PICK x \in Nat, y \in Nat, z \in Nat :
            x = NonNegative(a) /\ y = NonNegative(b) /\ z = NonNegative(c)
    BY <2>2 DEF NonNegative
  <2>4. PICK lo \in {x, y, z} : lo <= x /\ lo <= y /\ lo <= z
    OBVIOUS
  <2>5. PICK hi \in {x, y, z} : x <= hi /\ y <= hi /\ z <= hi
    OBVIOUS
  <2>6. lo \in Nat /\ hi \in Nat
    OBVIOUS
  <2>7. \A m \in {a, b, c} : lo <= NonNegative(m) /\ NonNegative(m) <= hi
    BY <2>3, <2>4, <2>5
  <2>8. PICK est : est = FoldLeft(xgl_rtt_update, xgl_rtt_init, <<a, b, c>>)
    OBVIOUS
  <2>9. est \in Estimate /\ lo <= est.srtt /\ est.srtt <= hi
    BY <2>2, <2>6, <2>7, <2>8, ThreeSamples
  <2>10. PICK samples : samples = {NonNegative(s[i]) : i \in 1..3}
    OBVIOUS
  <2>11. {x, y, z} \subseteq samples
    <3>1. s[1] = a /\ s[2] = b /\ s[3] = c
      BY <2>1
    <3> QED
      BY <2>3, <2>10, <3>1
  <2>12. est.rttvar \in Nat /\ est.rto \in MinRto..MaxRto
    BY <2>9 DEF Estimate
  <2>13. /\ \E m \in samples : m <= est.srtt
         /\ \E m \in samples : est.srtt <= m
         /\ est.rttvar >= 0
         /\ est.rto \in MinRto..MaxRto
    BY <2>9, <2>11, <2>12
  <2> QED
    BY <2>1, <2>8, <2>10, <2>13
<1> QED
  BY <1>1, BackoffSound DEF EstimatorSound

\* The estimate stays between the smallest and the largest measurement, the RTO
\* within its limits and the backoff is the doubled timeout up to its cap: for
\* all measurements and all limits.
THEOREM EstimatorStaysSound == Spec => []EstimatorSound
<1>1. EstimatorSound
  BY EstimatorHolds
<1> QED
  BY <1>1, PTL

-----------------------------------------------------------------------------
(***************************************************************************)
(* The inductive invariant                                                 *)
(***************************************************************************)
\* The timeouts a packet can have: given, initial, or backed off.
Timeout == (SendTimeouts \ {0}) \union {DefaultRto} \union 1..BackoffCap

Packet == [send_timestamp : Reading, timeout_ms : Timeout,
           initial_timeout_ms : Timeout, retry_count : Nat, at : Nat]

\* A packet carries the reading of the real time it was sent at.
PacketOK(p) == p \in Packet /\ p.at <= now /\ p.send_timestamp = At(p.at)

QueueOK(q) == q \in Seq(Packet) /\ \A i \in DOMAIN q : PacketOK(q[i])

PeerState == [exists : {TRUE}, last_active_ms : Reading, active_at : Int,
              earliest_deadline_ms : Reading]

\* A peer was last active at a time that has passed, or never.
PeerOK(p) ==
    /\ p \in PeerState
    /\ \/ p.active_at \in 0..now /\ p.last_active_ms = At(p.active_at)
       \/ p.active_at = -IdleTimeout

BufferState == [exists : {TRUE}, first_fragment_time : Reading, at : Nat]
BufferOK(b) == b \in BufferState /\ b.at <= now /\ b.first_fragment_time = At(b.at)

ClockOK == boot \in Reading /\ now \in Nat /\ now <= MaxTime

\* xgl_run works with the reading of its start.
RunOK ==
    /\ running \in BOOLEAN /\ reading \in BOOLEAN
    /\ run_time \in Reading /\ route_last_read_ms \in Reading
    /\ running => run_at \in Nat /\ run_at <= now /\ run_time = At(run_at)

\* Outside xgl_run the deadline of the peer is the one of its queue.
DeadlineFresh ==
    ~running /\ peer.exists =>
        peer.earliest_deadline_ms = transport_update_peer_deadline(queue)

RuntimeInv ==
    /\ ClockOK
    /\ RunOK
    /\ QueueOK(queue)
    /\ PeerOK(peer) \/ (peer = NoPeer /\ queue = <<>>)
    /\ BufferOK(buffer) \/ buffer = NoBuffer
    /\ DeadlineFresh

-----------------------------------------------------------------------------
(***************************************************************************)
(* What is left of a queue                                                 *)
(***************************************************************************)
Rank(T, i) == Cardinality({h \in T : h <= i})
Ranked(T) == \A j \in 1..Cardinality(T) : \E i \in T : Rank(T, i) = j

\* Every position of a set of n indices has the rank of one of 1 to n, and
\* every rank is taken.
LEMMA RanksTaken ==
    ASSUME NEW S \in SUBSET Int, IsFiniteSet(S)
    PROVE  Ranked(S)
<1> DEFINE P == {T \in SUBSET S : Ranked(T)}
<1>1. ASSUME NEW T \in SUBSET S, \A x \in T : T \ {x} \in P
      PROVE  T \in P
  <2>0. IsFiniteSet(T) /\ Cardinality(T) \in Nat /\ T \in SUBSET Int
    BY FS_Subset, FS_CardinalityType
  <2>1. CASE T = {}
    <3>1. Cardinality(T) = 0
      BY <2>1, FS_EmptySet
    <3> QED
      BY <3>1 DEF Ranked
  <2>2. CASE T # {}
    <3>1. PICK m \in T : \A i \in T : i <= m
      BY <2>0, <2>2, MaxIn
    <3>2. PICK U : U = T \ {m}
      OBVIOUS
    <3>3. Ranked(U) /\ Cardinality(U) = Cardinality(T) - 1
      BY <1>1, <2>0, <3>1, <3>2, FS_RemoveElement
    <3>4. ASSUME NEW j \in 1..Cardinality(T)
          PROVE  \E i \in T : Rank(T, i) = j
      <4>1. CASE j = Cardinality(T)
        <5>1. {h \in T : h <= m} = T
          BY <3>1
        <5> QED
          BY <3>1, <4>1, <5>1 DEF Rank
      <4>2. CASE j # Cardinality(T)
        <5>1. j \in 1..Cardinality(U)
          BY <2>0, <3>3, <4>2
        <5>2. PICK i \in U : Rank(U, i) = j
          BY <3>3, <5>1 DEF Ranked
        <5>3. i \in T /\ i <= m /\ i # m /\ i \in Int /\ m \in Int
          BY <2>0, <3>1, <3>2, <5>2
        <5>4. {h \in T : h <= i} = {h \in U : h <= i}
          BY <3>2, <5>3
        <5> QED
          BY <5>2, <5>3, <5>4 DEF Rank
      <4> QED
        BY <4>1, <4>2
    <3> QED
      BY <3>4 DEF Ranked
  <2> QED
    BY <2>1, <2>2
<1>2. S \in P
  <2> HIDE DEF P
  <2>1. \A T \in SUBSET S : (\A x \in T : T \ {x} \in P) => T \in P
    BY <1>1
  <2>2. \A T \in SUBSET S : T \in P
    BY <2>1, SubsetInduction
  <2> QED
    BY <2>2
<1> QED
  BY <1>2

\* Chosen makes a sequence of entries of the queue at these positions.
LEMMA ChosenFrom ==
    ASSUME NEW n \in Nat, NEW q, NEW indices \in SUBSET (1..n)
    PROVE  \E c \in Nat :
              /\ Chosen(q, indices) = [j \in 1..c |-> Chosen(q, indices)[j]]
              /\ \A j \in 1..c : \E i \in indices : Chosen(q, indices)[j] = q[i]
<1>1. IsFiniteSet(indices) /\ indices \in SUBSET Int
  <2>1. PICK one \in Int : one = 1
    OBVIOUS
  <2>2. IsFiniteSet(one..n)
    BY FS_Interval
  <2>3. PICK all : all = 1..n
    OBVIOUS
  <2>4. IsFiniteSet(all) /\ indices \in SUBSET all /\ all \in SUBSET Int
    BY <2>1, <2>2, <2>3
  <2>5. IsFiniteSet(indices)
    BY <2>4, FS_Subset
  <2> QED
    BY <2>4, <2>5
<1>2. PICK c : c = Cardinality(indices)
  OBVIOUS
<1>3. c \in Nat
  BY <1>1, <1>2, FS_CardinalityType
<1>4. Ranked(indices)
  BY <1>1, RanksTaken
<1> DEFINE Nth(j) == CHOOSE i \in indices : Rank(indices, i) = j
<1>5. \A j \in 1..c : Nth(j) \in indices
  BY <1>2, <1>4 DEF Ranked
<1>6. Chosen(q, indices) = [j \in 1..c |-> q[Nth(j)]]
  BY <1>2 DEF Chosen, Rank
<1> HIDE DEF Nth
<1>7. \A j \in 1..c : Chosen(q, indices)[j] = q[Nth(j)]
  BY <1>6
<1>8. Chosen(q, indices) = [j \in 1..c |-> Chosen(q, indices)[j]]
  BY <1>6, <1>7
<1> QED
  BY <1>3, <1>5, <1>7, <1>8

\* If the entries of a queue are packets in order, so are those left of it.
LEMMA ChosenOK ==
    ASSUME NEW n \in Nat, NEW q, NEW indices \in SUBSET (1..n),
           \A i \in indices : PacketOK(q[i])
    PROVE  QueueOK(Chosen(q, indices))
<1>1. PICK k : k = Chosen(q, indices)
  OBVIOUS
<1>2. PICK c \in Nat : /\ k = [j \in 1..c |-> k[j]]
                       /\ \A j \in 1..c : \E i \in indices : k[j] = q[i]
  BY <1>1, ChosenFrom
<1>3. \A j \in 1..c : PacketOK(k[j])
  BY <1>2
<1>4. \A j \in 1..c : k[j] \in Packet
  BY <1>3 DEF PacketOK
<1>5. k \in Seq(Packet) /\ DOMAIN k = 1..c
  BY <1>2, <1>4
<1>6. QueueOK(k)
  BY <1>3, <1>5 DEF QueueOK
<1> QED
  BY <1>1, <1>6

-----------------------------------------------------------------------------
(***************************************************************************)
(* The deadline of a queue                                                 *)
(***************************************************************************)
TakeDeadline(earliest, p) ==
    IF /\ p.send_timestamp # 0
       /\ \/ earliest = 0
          \/ EarlierThan(AbsoluteDeadline(p), earliest)
    THEN AbsoluteDeadline(p) ELSE earliest
DeadlineStep(g, q, s) ==
    IF s = {} THEN 0 ELSE TakeDeadline(g[s \ {Max(s)}], q[Max(s)])
IsDeadlines(g, q) == g = [s \in SUBSET DOMAIN q |-> DeadlineStep(g, q, s)]

\* Readings and timeouts are numbers.
LEMMA ReadingInt == (\A r \in Reading : r \in Int) /\ 0 \in Reading
  BY ConstantBounds DEF Reading

\* A timeout is positive.
LEMMA TimeoutNat == \A t \in Timeout : t \in Nat /\ t # 0
<1>1. SendTimeouts \ {0} \subseteq Nat \ {0} /\ DefaultRto \in Nat \ {0}
  BY ConstantBounds
<1>2. 1..BackoffCap \subseteq Nat \ {0}
  BY ConstantBounds
<1> QED
  BY <1>1, <1>2 DEF Timeout

\* A packet falls due at a reading.
LEMMA AbsoluteReading ==
    ASSUME NEW p \in Packet
    PROVE  AbsoluteDeadline(p) \in Reading
<1>1. p.send_timestamp \in Reading /\ p.timeout_ms \in Timeout
  BY DEF Packet
<1>2. p.send_timestamp \in Int
  BY <1>1, ReadingInt
<1>3. p.timeout_ms \in Int
  BY <1>1, TimeoutNat
<1>4. PICK x : x = p.send_timestamp + p.timeout_ms
  OBVIOUS
<1>5. x \in Int
  BY <1>2, <1>3, <1>4
<1> QED
  BY <1>4, <1>5, RemainderIsReading DEF AbsoluteDeadline

\* The loop of transport_update_peer_deadline, as a function of the positions
\* it has seen; its result is a reading.
LEMMA DeadlinesExist ==
    ASSUME NEW q \in Seq(Packet)
    PROVE  \E g : /\ IsDeadlines(g, q)
                  /\ g \in [SUBSET DOMAIN q -> Reading]
                  /\ transport_update_peer_deadline(q) = g[DOMAIN q]
<1>1. PICK S, V : S = DOMAIN q /\ V = Reading
  OBVIOUS
<1>2. PICK n \in Nat : S = 1..n
  <2>1. Len(q) \in Nat /\ DOMAIN q = 1..Len(q)
    OBVIOUS
  <2> QED
    BY <1>1, <2>1
<1>3. IsFiniteSet(S) /\ S \in SUBSET Int
  <2>1. PICK one \in Int : one = 1
    OBVIOUS
  <2>2. IsFiniteSet(one..n)
    BY FS_Interval
  <2> QED
    BY <1>2, <2>1, <2>2
<1>4. \A i \in S : q[i] \in Packet
  BY <1>1
<1>5. PICK pick : pick = [t \in SUBSET S |-> Max(t)]
  OBVIOUS
<1>6. PICK op : op = [i \in S |-> [v \in V |-> TakeDeadline(v, q[i])]]
  OBVIOUS
<1>7. Picks(pick, S)
  <2>1. ASSUME NEW t \in SUBSET S, t # {}
        PROVE  pick[t] \in t
    <3>1. t \in SUBSET Int /\ IsFiniteSet(t)
      BY <1>3, FS_Subset
    <3>2. Max(t) \in t
      BY <2>1, <3>1, MaxIn
    <3> QED
      BY <1>5, <3>2
  <2> QED
    BY <2>1 DEF Picks
<1>8. Closed(op, S, V)
  <2>1. ASSUME NEW i \in S, NEW v \in V
        PROVE  TakeDeadline(v, q[i]) \in V
    <3>1. AbsoluteDeadline(q[i]) \in Reading
      BY <1>4, AbsoluteReading
    <3> QED
      BY <1>1, <3>1 DEF TakeDeadline
  <2> QED
    BY <1>6, <2>1 DEF Closed
<1>9. PICK base : base = 0
  OBVIOUS
<1>10. base \in V
  BY <1>1, <1>9, ReadingInt
<1>11. PICK g : IsFold(g, S, V, base, pick, op)
  BY <1>3, <1>7, <1>8, <1>10, FoldExists
<1>12. g \in [SUBSET S -> V] /\ \A t \in SUBSET S : g[t] = FoldStep(g, base, pick, op, t)
  BY <1>11 DEF IsFold
<1>13. ASSUME NEW t \in SUBSET S
      PROVE  g[t] = DeadlineStep(g, q, t)
  <2>1. CASE t # {}
    <3>1. PICK x : x = Max(t)
      OBVIOUS
    <3>2. pick[t] = x /\ x \in S /\ t \ {x} \in SUBSET S
      BY <1>5, <1>7, <2>1, <3>1 DEF Picks
    <3>3. g[t \ {x}] \in V
      BY <1>12, <3>2
    <3>4. op[x][g[t \ {x}]] = TakeDeadline(g[t \ {x}], q[x])
      BY <1>6, <3>2, <3>3
    <3> QED
      BY <1>12, <2>1, <3>1, <3>2, <3>4 DEF FoldStep, DeadlineStep
  <2> QED
    BY <1>9, <1>12, <2>1 DEF FoldStep, DeadlineStep
<1>14. IsDeadlines(g, q)
  <2>1. g = [t \in SUBSET S |-> g[t]]
    BY <1>12
  <2>2. g = [t \in SUBSET S |-> DeadlineStep(g, q, t)]
    BY <1>13, <2>1
  <2> QED
    BY <1>1, <2>2 DEF IsDeadlines
<1>15. PICK h : h = CHOOSE f : IsDeadlines(f, q)
  OBVIOUS
<1>16. IsDeadlines(h, q)
  BY <1>14, <1>15
<1>17. transport_update_peer_deadline(q) = (CHOOSE f : IsDeadlines(f, q))[DOMAIN q]
  BY DEF transport_update_peer_deadline, FoldLeft, MapThenFoldSet, IsDeadlines,
         DeadlineStep, TakeDeadline
<1>18. h = g
  <2> DEFINE Same == {t \in SUBSET S : h[t] = g[t]}
  <2>1. \A t \in SUBSET S : h[t] = DeadlineStep(h, q, t)
    BY <1>1, <1>16 DEF IsDeadlines
  <2>2. ASSUME NEW t \in SUBSET S, \A x \in t : t \ {x} \in Same
        PROVE  t \in Same
    <3>1. CASE t # {}
      <4>1. PICK x : x = Max(t)
        OBVIOUS
      <4>2. x \in t
        BY <1>5, <1>7, <3>1, <4>1 DEF Picks
      <4>3. h[t \ {x}] = g[t \ {x}]
        BY <2>2, <4>2
      <4> QED
        BY <1>13, <2>1, <4>1, <4>3 DEF DeadlineStep
    <3> QED
      BY <1>13, <2>1, <3>1 DEF DeadlineStep
  <2>3. \A t \in SUBSET S : t \in Same
    <3> HIDE DEF Same
    <3>1. \A t \in SUBSET S : (\A x \in t : t \ {x} \in Same) => t \in Same
      BY <2>2
    <3> QED
      BY <1>3, <3>1, SubsetInduction
  <2>4. h = [t \in SUBSET S |-> h[t]] /\ g = [t \in SUBSET S |-> g[t]]
    BY <1>1, <1>12, <1>16 DEF IsDeadlines
  <2>5. \A t \in SUBSET S : h[t] = g[t]
    BY <2>3
  <2> QED
    BY <2>4, <2>5
<1> QED
  BY <1>1, <1>12, <1>14, <1>15, <1>17, <1>18

\* Without packets there is no deadline; a deadline is a reading.
LEMMA DeadlineReading ==
    /\ transport_update_peer_deadline(<<>>) = 0
    /\ \A q \in Seq(Packet) : transport_update_peer_deadline(q) \in Reading
<1>1. ASSUME NEW q \in Seq(Packet)
      PROVE  transport_update_peer_deadline(q) \in Reading
  <2>1. PICK g : /\ g \in [SUBSET DOMAIN q -> Reading]
                 /\ transport_update_peer_deadline(q) = g[DOMAIN q]
    BY DeadlinesExist
  <2> QED
    BY <2>1
<1>0. <<>> \in Seq(Packet)
  OBVIOUS
<1>2. PICK q : q \in Seq(Packet) /\ q = <<>>
  BY <1>0
<1>3. PICK g : IsDeadlines(g, q) /\ transport_update_peer_deadline(q) = g[DOMAIN q]
  BY <1>2, DeadlinesExist
<1>4. DOMAIN q = {}
  BY <1>2
<1>5. g[{}] = 0
  BY <1>3, <1>4 DEF IsDeadlines, DeadlineStep
<1> QED
  BY <1>1, <1>2, <1>3, <1>4, <1>5

-----------------------------------------------------------------------------
(***************************************************************************)
(* Packets, peers and readings in a state of the invariant                 *)
(***************************************************************************)
\* A packet in order stays so while time passes.
LEMMA PacketOnward ==
    ASSUME boot' = boot, now \in Nat, now' \in Nat, now <= now', NEW p, PacketOK(p)
    PROVE  PacketOK(p)'
<1>1. p.at \in Nat
  BY DEF PacketOK, Packet
<1> QED
  BY <1>1 DEF PacketOK, At

\* So does a queue.
LEMMA QueueOnward ==
    ASSUME boot' = boot, now \in Nat, now' \in Nat, now <= now', NEW q, QueueOK(q)
    PROVE  QueueOK(q)'
  BY PacketOnward DEF QueueOK

\* So does a peer state.
LEMMA PeerOnward ==
    ASSUME boot' = boot, now \in Nat, now' \in Nat, now <= now', NEW p, PeerOK(p)
    PROVE  PeerOK(p)'
<1>1. p \in PeerState /\ p.active_at \in Int
  BY DEF PeerOK, PeerState
<1>2. p.active_at \in 0..now => p.active_at \in 0..now'
  BY <1>1
<1> QED
  BY <1>1, <1>2 DEF PeerOK, At

\* So does a reassembly buffer.
LEMMA BufferOnward ==
    ASSUME boot' = boot, now \in Nat, now' \in Nat, now <= now', NEW b, BufferOK(b)
    PROVE  BufferOK(b)'
<1>1. b.at \in Nat
  BY DEF BufferOK, BufferState
<1> QED
  BY <1>1 DEF BufferOK, At

\* The clock gives the reading of the present.
LEMMA ClockReading ==
    ASSUME ClockOK
    PROVE  /\ xgl_time_ms = At(now) /\ xgl_time_ms \in Reading
           /\ now \in Nat /\ boot \in Int
<1>1. now \in Nat /\ boot \in Int
  BY ReadingInt DEF ClockOK
<1>2. PICK x \in Int : x = boot + now
  BY <1>1
<1>3. x % ClockSize \in Reading
  BY RemainderIsReading
<1> QED
  BY <1>1, <1>2, <1>3 DEF xgl_time_ms, At

\* A peer that was active now is in order.
LEMMA ActiveOK ==
    ASSUME ClockOK, NEW p, PeerOK(p)
    PROVE  /\ PeerOK(Active(p)) /\ Active(p).exists
           /\ Active(p).earliest_deadline_ms = p.earliest_deadline_ms
<1>1. PICK stamp \in Reading : stamp = xgl_time_ms /\ stamp = At(now)
  BY ClockReading
<1>2. PICK t \in Int : t = now /\ t \in 0..now
  BY ClockReading
<1>3. p \in PeerState
  BY DEF PeerOK
<1>4. PICK a : a = [p EXCEPT !.last_active_ms = stamp, !.active_at = t]
  OBVIOUS
<1>5. /\ a \in PeerState /\ a.exists /\ a.earliest_deadline_ms = p.earliest_deadline_ms
      /\ a.last_active_ms = stamp /\ a.active_at = t
  BY <1>3, <1>4 DEF PeerState
<1>6. Active(p) = a
  BY <1>1, <1>2, <1>4 DEF Active
<1>7. PeerOK(a)
  BY <1>1, <1>2, <1>5 DEF PeerOK
<1> QED
  BY <1>5, <1>6, <1>7

\* Computing the deadline keeps a peer in order.
LEMMA WithDeadlineOK ==
    ASSUME NEW p, PeerOK(p), NEW q \in Seq(Packet)
    PROVE  /\ PeerOK(WithDeadline(p, q)) /\ WithDeadline(p, q).exists
           /\ WithDeadline(p, q).earliest_deadline_ms = transport_update_peer_deadline(q)
<1>1. PICK d \in Reading : d = transport_update_peer_deadline(q)
  BY DeadlineReading
<1>2. p \in PeerState
  BY DEF PeerOK
<1>3. PICK a : a = [p EXCEPT !.earliest_deadline_ms = d]
  OBVIOUS
<1>4. /\ a \in PeerState /\ a.exists /\ a.earliest_deadline_ms = d
      /\ a.last_active_ms = p.last_active_ms /\ a.active_at = p.active_at
  BY <1>2, <1>3 DEF PeerState
<1>5. WithDeadline(p, q) = a
  BY <1>1, <1>3 DEF WithDeadline
<1>6. PeerOK(a)
  BY <1>4 DEF PeerOK
<1> QED
  BY <1>1, <1>4, <1>5, <1>6

\* The peer state found or created is in order; a new one is there only when
\* nothing is queued, and has no deadline.
LEMMA GetOrCreateOK ==
    ASSUME RuntimeInv
    PROVE  /\ PeerOK(GetOrCreate)
           /\ GetOrCreate = peer \/ (queue = <<>> /\ GetOrCreate.earliest_deadline_ms = 0)
<1>1. PICK z \in Int : z = -IdleTimeout
  BY ConstantBounds
<1>2. PICK n : n = [exists |-> TRUE, last_active_ms |-> 0, active_at |-> z,
                    earliest_deadline_ms |-> 0]
  OBVIOUS
<1>3. n \in PeerState /\ n.active_at = z /\ n.earliest_deadline_ms = 0
  BY <1>2, ReadingInt DEF PeerState
<1>4. n = NewPeer
  BY <1>1, <1>2 DEF NewPeer
<1>5. PeerOK(NewPeer) /\ NewPeer.earliest_deadline_ms = 0
  BY <1>1, <1>3, <1>4 DEF PeerOK
<1>6. CASE PeerOK(peer)
  <2>1. peer.exists
    BY <1>6 DEF PeerOK, PeerState
  <2> QED
    BY <1>6, <2>1 DEF GetOrCreate
<1>7. CASE peer = NoPeer /\ queue = <<>>
  <2>1. ~peer.exists
    BY <1>7 DEF NoPeer
  <2> QED
    BY <1>5, <1>7, <2>1 DEF GetOrCreate
<1> QED
  BY <1>6, <1>7 DEF RuntimeInv

\* A packet sent again at a time that has passed is in order.
LEMMA ResentOK ==
    ASSUME NEW p, PacketOK(p), NEW t \in Nat, t <= now, NEW stamp \in Reading, stamp = At(t)
    PROVE  PacketOK(Resent(p, stamp, t))
<1>1. /\ p \in Packet /\ p.retry_count \in Nat /\ p.initial_timeout_ms \in Timeout
  BY DEF PacketOK, Packet
<1>2. p.initial_timeout_ms \in Nat \ {0}
  BY <1>1, TimeoutNat
<1>3. PICK r : r = p.retry_count + 1
  OBVIOUS
<1>4. r \in Nat \ {0} /\ r \in Nat
  BY <1>1, <1>3
<1>5. PICK wait : wait = xgl_reliable_calc_backoff(p.initial_timeout_ms, r)
  OBVIOUS
<1>6. wait \in Timeout
  BY <1>2, <1>4, <1>5, BackoffBounds DEF Timeout
<1>7. PICK new : new = [[p EXCEPT !.send_timestamp = stamp, !.at = t] EXCEPT
                           !.retry_count = r, !.timeout_ms = wait]
  OBVIOUS
<1>8. new \in Packet /\ new.at = t /\ new.send_timestamp = stamp
  BY <1>1, <1>4, <1>6, <1>7 DEF Packet
<1>9. PICK mid : mid = [p EXCEPT !.send_timestamp = stamp, !.at = t]
  OBVIOUS
<1>10. mid.retry_count = p.retry_count
  BY <1>1, <1>9 DEF Packet
<1>11. Resent(p, stamp, t) = new
  BY <1>3, <1>5, <1>7, <1>9, <1>10 DEF Resent, Stamped
<1> QED
  BY <1>8, <1>11 DEF PacketOK

\* A step that leaves the clock alone keeps the invariant if what it puts into
\* the queue, the peer state and the buffer is in order, and the deadline is
\* fresh when xgl_run is over.
LEMMA StepInv ==
    ASSUME RuntimeInv, boot' = boot, now' = now, RunOK',
           NEW q, queue' = q, QueueOK(q),
           NEW p, peer' = p, PeerOK(p) \/ (p = NoPeer /\ q = <<>>),
           NEW b, buffer' = b, BufferOK(b) \/ b = NoBuffer,
           ~running' /\ p.exists => p.earliest_deadline_ms = transport_update_peer_deadline(q)
    PROVE  RuntimeInv'
<1>0. boot' = boot /\ now \in Nat /\ now' \in Nat /\ now <= now'
  BY DEF RuntimeInv, ClockOK
<1>1. ClockOK'
  BY DEF RuntimeInv, ClockOK
<1>2. QueueOK(queue)'
  <2>1. QueueOK(q)'
    BY <1>0, QueueOnward
  <2> QED
    BY <2>1 DEF QueueOK, PacketOK, At
<1>3. PeerOK(peer)' \/ (peer = NoPeer /\ queue = <<>>)'
  <2>1. PeerOK(p) => PeerOK(p)'
    BY <1>0, PeerOnward
  <2>2. PeerOK(p)' => PeerOK(peer)'
    BY DEF PeerOK, At
  <2>3. (p = NoPeer /\ q = <<>>) => (peer = NoPeer /\ queue = <<>>)'
    BY DEF NoPeer
  <2> QED
    BY <2>1, <2>2, <2>3
<1>4. BufferOK(buffer)' \/ (buffer = NoBuffer)'
  <2>1. BufferOK(b) => BufferOK(b)'
    BY <1>0, BufferOnward
  <2>2. BufferOK(b)' => BufferOK(buffer)'
    BY DEF BufferOK, At
  <2>3. b = NoBuffer => (buffer = NoBuffer)'
    BY DEF NoBuffer
  <2> QED
    BY <2>1, <2>2, <2>3
<1>5. DeadlineFresh'
  BY DEF DeadlineFresh
<1> QED
  BY <1>1, <1>2, <1>3, <1>4, <1>5 DEF RuntimeInv

-----------------------------------------------------------------------------
(***************************************************************************)
(* Every step keeps the invariant                                          *)
(***************************************************************************)
\* The parts of the invariant an unchanged variable brings along.
LEMMA InvParts ==
    ASSUME RuntimeInv
    PROVE  /\ ClockOK /\ RunOK /\ QueueOK(queue) /\ queue \in Seq(Packet)
           /\ PeerOK(peer) \/ (peer = NoPeer /\ queue = <<>>)
           /\ BufferOK(buffer) \/ buffer = NoBuffer
           /\ DeadlineFresh
           /\ DOMAIN queue = 1..Len(queue) /\ Len(queue) \in Nat
           /\ \A i \in DOMAIN queue : PacketOK(queue[i])
           /\ queue # <<>> => PeerOK(peer) /\ peer.exists
<1>1. PeerOK(peer) => peer.exists
  BY DEF PeerOK, PeerState
<1> QED
  BY <1>1 DEF RuntimeInv, QueueOK

\* The variables of xgl_run untouched.
LEMMA RunKept ==
    ASSUME RunOK, UNCHANGED clockVars, UNCHANGED runVars
    PROVE  RunOK' /\ boot' = boot /\ now' = now /\ running' = running
  BY DEF RunOK, clockVars, runVars, At

\* Time passes.
LEMMA TickInv ==
    ASSUME RuntimeInv, Tick
    PROVE  RuntimeInv'
<1>0. MaxTime \in Nat /\ ClockOK /\ RunOK
  BY ConstantBounds DEF RuntimeInv
<1>1. /\ boot' = boot /\ now \in Nat /\ now' = now + 1 /\ now' \in Nat /\ now <= now'
      /\ now' <= MaxTime
  BY <1>0 DEF Tick, ClockOK
<1>2. /\ queue' = queue /\ peer' = peer /\ buffer' = buffer /\ running' = running
      /\ reading' = reading /\ run_time' = run_time /\ run_at' = run_at
      /\ route_last_read_ms' = route_last_read_ms
  BY DEF Tick, runVars
<1>3. ClockOK'
  BY <1>0, <1>1 DEF ClockOK
<1>4. RunOK'
  BY <1>0, <1>1, <1>2 DEF RunOK, At
<1>5. PICK q, p, b : q = queue /\ p = peer /\ b = buffer
  OBVIOUS
<1>6. QueueOK(queue)'
  <2>1. QueueOK(q)'
    BY <1>1, <1>5, QueueOnward DEF RuntimeInv
  <2> QED
    BY <1>2, <1>5, <2>1 DEF QueueOK, PacketOK, At
<1>7. PeerOK(peer)' \/ (peer = NoPeer /\ queue = <<>>)'
  <2>1. PeerOK(p) => PeerOK(p)'
    BY <1>1, PeerOnward
  <2>2. PeerOK(p)' => PeerOK(peer)'
    BY <1>2, <1>5 DEF PeerOK, At
  <2>3. peer = NoPeer /\ queue = <<>> => (peer = NoPeer /\ queue = <<>>)'
    BY <1>2 DEF NoPeer
  <2> QED
    BY <1>5, <2>1, <2>2, <2>3 DEF RuntimeInv
<1>8. BufferOK(buffer)' \/ (buffer = NoBuffer)'
  <2>1. BufferOK(b) => BufferOK(b)'
    BY <1>1, BufferOnward
  <2>2. BufferOK(b)' => BufferOK(buffer)'
    BY <1>2, <1>5 DEF BufferOK, At
  <2>3. buffer = NoBuffer => (buffer = NoBuffer)'
    BY <1>2 DEF NoBuffer
  <2> QED
    BY <1>5, <2>1, <2>2, <2>3 DEF RuntimeInv
<1>9. DeadlineFresh'
  BY <1>2 DEF RuntimeInv, DeadlineFresh
<1> QED
  BY <1>3, <1>4, <1>6, <1>7, <1>8, <1>9 DEF RuntimeInv

\* xgl_send puts a packet with a fresh stamp at the end of the queue and
\* computes the deadline again.
LEMMA SendInv ==
    ASSUME RuntimeInv, NEW given \in SendTimeouts, Send(given)
    PROVE  RuntimeInv'
<1>1. RunOK' /\ boot' = boot /\ now' = now
  BY InvParts, RunKept DEF Send
<1>2. PICK stamp \in Reading, t \in Nat : stamp = xgl_time_ms /\ stamp = At(now) /\ t = now
  BY InvParts, ClockReading
<1>3. PICK wait \in Timeout : wait = transport_send_timeout_ms(given)
  <2>1. given \in Nat
    BY ConstantBounds
  <2>2. xgl_rtt_init.rto = DefaultRto
    BY DEF xgl_rtt_init
  <2>3. CASE given > 0
    <3>1. given \in Timeout
      BY <2>1, <2>3 DEF Timeout
    <3> QED
      BY <2>3, <3>1 DEF transport_send_timeout_ms
  <2>4. CASE ~(given > 0)
    <3>1. DefaultRto \in Timeout
      BY DEF Timeout
    <3> QED
      BY <2>2, <2>4, <3>1 DEF transport_send_timeout_ms
  <2> QED
    BY <2>3, <2>4
<1>4. PICK new : new = [retry_count |-> 0, at |-> t, send_timestamp |-> stamp,
                        initial_timeout_ms |-> wait, timeout_ms |-> wait]
  OBVIOUS
<1>5. new \in Packet /\ new.at = t /\ new.send_timestamp = stamp
  BY <1>4 DEF Packet
<1>6. PacketOK(new)
  BY <1>2, <1>5 DEF PacketOK
<1>7. PICK q : q = Append(queue, new)
  OBVIOUS
<1>8. queue' = q
  BY <1>2, <1>3, <1>4, <1>7 DEF Send
<1>9. QueueOK(q) /\ q \in Seq(Packet)
  <2>1. q \in Seq(Packet)
    BY <1>5, <1>7, InvParts
  <2>2. \A i \in DOMAIN q : q[i] = new \/ (i \in DOMAIN queue /\ q[i] = queue[i])
    BY <1>5, <1>7, InvParts
  <2> QED
    BY <1>6, <2>1, <2>2, InvParts DEF QueueOK
<1>10. PICK p : p = Active(WithDeadline(GetOrCreate, q))
  OBVIOUS
<1>11. peer' = p
  BY <1>8, <1>10 DEF Send
<1>12. PeerOK(p) /\ p.earliest_deadline_ms = transport_update_peer_deadline(q)
  <2>1. PICK w : w = WithDeadline(GetOrCreate, q)
    OBVIOUS
  <2>2. PeerOK(w) /\ w.earliest_deadline_ms = transport_update_peer_deadline(q)
    BY <1>9, <2>1, GetOrCreateOK, WithDeadlineOK
  <2> QED
    BY <1>10, <2>1, <2>2, InvParts, ActiveOK
<1>13. PICK b : b = buffer
  OBVIOUS
<1>14. buffer' = b /\ (BufferOK(b) \/ b = NoBuffer)
  BY <1>13, InvParts DEF Send
<1> QED
  BY <1>1, <1>8, <1>9, <1>11, <1>12, <1>14, StepInv

\* A refused xgl_send may leave a new peer state, without a deadline.
LEMMA SendRefusedInv ==
    ASSUME RuntimeInv, SendRefused
    PROVE  RuntimeInv'
<1>1. RunOK' /\ boot' = boot /\ now' = now /\ running' = running
  BY InvParts, RunKept DEF SendRefused
<1>2. PICK q, p, b : q = queue /\ p = GetOrCreate /\ b = buffer
  OBVIOUS
<1>3. queue' = q /\ peer' = p /\ buffer' = b
  BY <1>2 DEF SendRefused
<1>4. QueueOK(q) /\ PeerOK(p) /\ (BufferOK(b) \/ b = NoBuffer)
  BY <1>2, InvParts, GetOrCreateOK
<1>5. ~running /\ p.exists => p.earliest_deadline_ms = transport_update_peer_deadline(q)
  <2>1. CASE p = peer
    BY <1>2, <2>1, InvParts DEF DeadlineFresh
  <2>2. CASE queue = <<>> /\ p.earliest_deadline_ms = 0
    BY <1>2, <2>2, DeadlineReading
  <2> QED
    BY <1>2, <2>1, <2>2, GetOrCreateOK
<1> QED
  BY <1>1, <1>3, <1>4, <1>5, StepInv

\* xgl_run reads the clock.
LEMMA RunInv ==
    ASSUME RuntimeInv, NEW throttled \in BOOLEAN, xgl_run(throttled)
    PROVE  RuntimeInv'
<1>1. boot' = boot /\ now' = now /\ running' = TRUE
  BY DEF xgl_run, clockVars
<1>2. xgl_time_ms = At(now) /\ xgl_time_ms \in Reading /\ now \in Nat
  BY InvParts, ClockReading
<1>3. ShouldRead(throttled) \in BOOLEAN
  BY DEF ShouldRead
<1>4. route_last_read_ms' \in Reading
  BY <1>2, InvParts DEF xgl_run, RunOK
<1>5. run_at' = now /\ run_time' = At(now)
  BY <1>2 DEF xgl_run
<1>6. At(run_at)' = At(now)
  BY <1>1, <1>5 DEF At
<1>7. RunOK'
  BY <1>1, <1>2, <1>3, <1>4, <1>5, <1>6 DEF RunOK, xgl_run
<1>8. PICK q, p, b : q = queue /\ p = peer /\ b = buffer
  OBVIOUS
<1>9. queue' = q /\ peer' = p /\ buffer' = b
  BY <1>8 DEF xgl_run
<1>10. /\ QueueOK(q) /\ (BufferOK(b) \/ b = NoBuffer)
       /\ PeerOK(p) \/ (p = NoPeer /\ q = <<>>)
  BY <1>8, InvParts
<1> QED
  BY <1>1, <1>7, <1>9, <1>10, StepInv

\* What every arrival leaves alone.
LEMMA ReceivingKeeps ==
    ASSUME RuntimeInv, Receiving
    PROVE  RunOK' /\ boot' = boot /\ now' = now /\ running' = TRUE
  BY InvParts, RunKept DEF Receiving

\* A data packet makes the peer active and may open or end a reassembly.
LEMMA ReceiveDataInv ==
    ASSUME RuntimeInv, NEW fragment \in BOOLEAN, ReceiveData(fragment)
    PROVE  RuntimeInv'
<1>1. RunOK' /\ boot' = boot /\ now' = now /\ running' = TRUE
  BY ReceivingKeeps DEF ReceiveData
<1>2. PICK q, p : q = queue /\ p = Active(GetOrCreate)
  OBVIOUS
<1>3. queue' = q /\ peer' = p
  BY <1>2 DEF ReceiveData
<1>4. QueueOK(q) /\ PeerOK(p)
  BY <1>2, InvParts, GetOrCreateOK, ActiveOK
<1>5. PICK stamp \in Reading, t \in Nat : stamp = xgl_time_ms /\ stamp = At(now) /\ t = now
  BY InvParts, ClockReading
<1>6. PICK new : new = [exists |-> TRUE, first_fragment_time |-> stamp, at |-> t]
  OBVIOUS
<1>7. new \in BufferState /\ new.at = t /\ new.first_fragment_time = stamp
  BY <1>6 DEF BufferState
<1>8. BufferOK(new)
  BY <1>5, <1>7 DEF BufferOK
<1>9. PICK b : b = buffer'
  OBVIOUS
<1>10. b \in {buffer, NoBuffer, new}
  BY <1>5, <1>6, <1>9 DEF ReceiveData
<1>11. BufferOK(b) \/ b = NoBuffer
  BY <1>8, <1>10, InvParts
<1> QED
  BY <1>1, <1>3, <1>4, <1>9, <1>11, StepInv

\* An acknowledgement takes a packet out of the queue.
LEMMA ReceiveAckInv ==
    ASSUME RuntimeInv, NEW i \in DOMAIN queue, ReceiveAck(i)
    PROVE  RuntimeInv'
<1>1. RunOK' /\ boot' = boot /\ now' = now /\ running' = TRUE
  BY ReceivingKeeps DEF ReceiveAck
<1>2. PICK left : left = DOMAIN queue \ {i}
  OBVIOUS
<1>3. PICK q : q = Chosen(queue, left)
  OBVIOUS
<1>4. QueueOK(q) /\ q \in Seq(Packet)
  <2>1. PICK n \in Nat : n = Len(queue) /\ left \in SUBSET (1..n)
    BY <1>2, InvParts
  <2>2. \A j \in left : PacketOK(queue[j])
    BY <1>2, InvParts
  <2>3. QueueOK(q)
    BY <1>3, <2>1, <2>2, ChosenOK
  <2> QED
    BY <2>3 DEF QueueOK
<1>5. PICK p : p = WithDeadline(peer, q)
  OBVIOUS
<1>6. queue' = q /\ peer' = p
  BY <1>2, <1>3, <1>5 DEF ReceiveAck
<1>7. PeerOK(p)
  <2>1. PeerOK(peer)
    BY InvParts
  <2> QED
    BY <1>4, <1>5, <2>1, WithDeadlineOK
<1>8. PICK b : b = buffer
  OBVIOUS
<1>9. buffer' = b /\ (BufferOK(b) \/ b = NoBuffer)
  BY <1>8, InvParts DEF ReceiveAck
<1> QED
  BY <1>1, <1>4, <1>6, <1>7, <1>9, StepInv

\* A SACK: holes are sent again with the present stamp, the packets it names
\* leave the queue, up to where the lower layer refuses.
LEMMA ReceiveSackInv ==
    ASSUME RuntimeInv, NEW walked, NEW received \in SUBSET walked,
           NEW stop \in 1..(Len(queue) + 1), ReceiveSack(walked, received, stop)
    PROVE  RuntimeInv'
<1>1. RunOK' /\ boot' = boot /\ now' = now /\ running' = TRUE
  BY ReceivingKeeps DEF ReceiveSack
<1>2. PICK stamp \in Reading, t \in Nat : stamp = xgl_time_ms /\ stamp = At(now) /\ t = now
  BY InvParts, ClockReading
<1> DEFINE holes == walked \ received
<1>3. PICK resent : resent = [i \in DOMAIN queue |->
                                 IF i \in holes /\ i < stop
                                 THEN Resent(queue[i], stamp, t) ELSE queue[i]]
  OBVIOUS
<1>4. PICK left : left = {i \in DOMAIN queue : i \notin received \/ i >= stop}
  OBVIOUS
<1>5. PICK q : q = Chosen(resent, left)
  OBVIOUS
<1>6. queue' = q
  BY <1>2, <1>3, <1>4, <1>5 DEF ReceiveSack
<1> HIDE DEF holes
<1>7. QueueOK(q) /\ q \in Seq(Packet)
  <2>1. PICK n \in Nat : n = Len(queue) /\ left \in SUBSET (1..n)
    BY <1>4, InvParts
  <2>2. ASSUME NEW i \in left
        PROVE  PacketOK(resent[i])
    <3>1. i \in DOMAIN queue /\ PacketOK(queue[i])
      BY <1>4, InvParts
    <3>2. PacketOK(Resent(queue[i], stamp, t))
      BY <1>2, <3>1, ResentOK
    <3> QED
      BY <1>3, <3>1, <3>2
  <2>3. QueueOK(q)
    BY <1>5, <2>1, <2>2, ChosenOK
  <2> QED
    BY <2>3 DEF QueueOK
<1>8. PICK p : p = peer'
  OBVIOUS
<1>9. PeerOK(p)
  <2>1. PeerOK(peer)
    <3>1. peer.exists
      BY DEF ReceiveSack
    <3> QED
      BY <3>1, InvParts DEF NoPeer
  <2>2. PeerOK(WithDeadline(peer, q))
    BY <1>7, <2>1, WithDeadlineOK
  <2>3. p = WithDeadline(peer, q) \/ p = peer
    BY <1>6, <1>8 DEF ReceiveSack
  <2> QED
    BY <2>1, <2>2, <2>3
<1>10. PICK b : b = buffer
  OBVIOUS
<1>11. buffer' = b /\ (BufferOK(b) \/ b = NoBuffer)
  BY <1>10, InvParts DEF ReceiveSack
<1> QED
  BY <1>1, <1>6, <1>7, <1>8, <1>9, <1>11, StepInv

\* A SACK without a bit set sends one packet again.
LEMMA ReceiveEmptySackInv ==
    ASSUME RuntimeInv, NEW i \in DOMAIN queue, ReceiveEmptySack(i)
    PROVE  RuntimeInv'
<1>1. RunOK' /\ boot' = boot /\ now' = now /\ running' = TRUE
  BY ReceivingKeeps DEF ReceiveEmptySack
<1>2. PICK stamp \in Reading, t \in Nat : stamp = xgl_time_ms /\ stamp = At(now) /\ t = now
  BY InvParts, ClockReading
<1>3. PICK new : new = Resent(queue[i], stamp, t)
  OBVIOUS
<1>4. PacketOK(new) /\ new \in Packet
  <2>1. PacketOK(queue[i])
    BY InvParts
  <2>2. PacketOK(new)
    BY <1>2, <1>3, <2>1, ResentOK
  <2> QED
    BY <2>2 DEF PacketOK
<1>5. PICK q : q = [queue EXCEPT ![i] = new]
  OBVIOUS
<1>6. queue' = q
  BY <1>2, <1>3, <1>5 DEF ReceiveEmptySack
<1>7. QueueOK(q) /\ q # <<>>
  <2>1. queue \in Seq(Packet)
    BY InvParts
  <2>2. q \in Seq(Packet) /\ DOMAIN q = DOMAIN queue
    BY <1>4, <1>5, <2>1
  <2>3. \A j \in DOMAIN q : q[j] = new \/ q[j] = queue[j]
    BY <1>5, <2>2
  <2> QED
    BY <1>4, <2>2, <2>3, InvParts DEF QueueOK
<1>8. PICK p, b : p = peer /\ b = buffer
  OBVIOUS
<1>9. peer' = p /\ buffer' = b /\ PeerOK(p) /\ (BufferOK(b) \/ b = NoBuffer)
  <2>1. queue # <<>>
    OBVIOUS
  <2> QED
    BY <1>8, <2>1, InvParts DEF ReceiveEmptySack
<1> QED
  BY <1>1, <1>6, <1>7, <1>9, StepInv

\* The empty queue is in order.
LEMMA EmptyQueueOK == QueueOK(<<>>)
<1>1. <<>> \in Seq(Packet) /\ DOMAIN <<>> = {}
  OBVIOUS
<1> QED
  BY <1>1 DEF QueueOK

\* A HELLO of another session clears queue and reassembly.
LEMMA ReceiveHelloInv ==
    ASSUME RuntimeInv, ReceiveHello
    PROVE  RuntimeInv'
<1>1. RunOK' /\ boot' = boot /\ now' = now /\ running' = TRUE
  BY ReceivingKeeps DEF ReceiveHello
<1>2. PICK q, p, b : q = <<>> /\ p = Active(GetOrCreate) /\ b = NoBuffer
  OBVIOUS
<1>3. queue' = q /\ peer' = p /\ buffer' = b
  BY <1>2 DEF ReceiveHello
<1>4. QueueOK(q) /\ PeerOK(p)
  BY <1>2, InvParts, EmptyQueueOK, GetOrCreateOK, ActiveOK
<1> QED
  BY <1>1, <1>2, <1>3, <1>4, StepInv

\* The end of xgl_run: packets that are due are sent again with the reading of
\* its start, and the deadline is computed for what is left.
LEMMA TransportRunInv ==
    ASSUME RuntimeInv, NEW refused \in SUBSET DOMAIN queue, xgl_transport_run(refused)
    PROVE  RuntimeInv'
<1>1. /\ boot' = boot /\ now' = now /\ running' = FALSE /\ reading' = FALSE
      /\ run_time' = 0 /\ route_last_read_ms' = route_last_read_ms
  BY DEF xgl_transport_run, clockVars
<1>2. RunOK'
  BY <1>1, InvParts, ReadingInt DEF RunOK
<1>3. run_at \in Nat /\ run_at <= now /\ run_time \in Reading /\ run_time = At(run_at)
  BY InvParts DEF RunOK, xgl_transport_run
<1>4. PICK resent : resent = [i \in DOMAIN queue |->
                                 IF Due(queue[i]) /\ i \notin refused
                                 THEN Resent(queue[i], run_time, run_at) ELSE queue[i]]
  OBVIOUS
<1>5. PICK left : left = DOMAIN queue \ {i \in DOMAIN queue :
                             Due(queue[i]) /\ queue[i].retry_count >= MaxRetry}
  OBVIOUS
<1>6. PICK q : q = Chosen(resent, left)
  OBVIOUS
<1>7. queue' = q
  BY <1>4, <1>5, <1>6 DEF xgl_transport_run, AfterRetransmissions
<1>8. QueueOK(q) /\ q \in Seq(Packet)
  <2>1. PICK n \in Nat : n = Len(queue) /\ left \in SUBSET (1..n)
    BY <1>5, InvParts
  <2>2. ASSUME NEW i \in left
        PROVE  PacketOK(resent[i])
    <3>1. i \in DOMAIN queue /\ PacketOK(queue[i])
      BY <1>5, InvParts
    <3>2. PacketOK(Resent(queue[i], run_time, run_at))
      BY <1>3, <3>1, ResentOK
    <3> QED
      BY <1>4, <3>1, <3>2
  <2>3. QueueOK(q)
    BY <1>6, <2>1, <2>2, ChosenOK
  <2> QED
    BY <2>3 DEF QueueOK
<1>9. ~peer.exists => q = <<>>
  <2> SUFFICES ASSUME ~peer.exists PROVE q = <<>>
    OBVIOUS
  <2>1. queue = <<>>
    BY InvParts
  <2>2. left = {} /\ left \in SUBSET (1..0)
    BY <1>5, <2>1
  <2>3. PICK c \in Nat : /\ q = [j \in 1..c |-> q[j]]
                         /\ \A j \in 1..c : \E i \in left : q[j] = resent[i]
    BY <1>6, <2>2, ChosenFrom
  <2>4. c = 0
    <3>1. CASE c >= 1
      <4>1. 1 \in 1..c
        BY <3>1
      <4> QED
        BY <2>2, <2>3, <4>1
    <3> QED
      BY <3>1
  <2> QED
    BY <1>8, <2>3, <2>4
<1>10. PICK p : p = peer'
  OBVIOUS
<1>11. p = IF Reclaimed(q) THEN NoPeer ELSE IF peer.exists THEN WithDeadline(peer, q) ELSE peer
  BY <1>7, <1>10 DEF xgl_transport_run
<1>12. /\ PeerOK(p) \/ (p = NoPeer /\ q = <<>>)
       /\ p.exists => p.earliest_deadline_ms = transport_update_peer_deadline(q)
  <2>0. ~NoPeer.exists
    BY DEF NoPeer
  <2>1. CASE Reclaimed(q)
    BY <1>11, <2>0, <2>1 DEF Reclaimed
  <2>2. CASE ~Reclaimed(q) /\ peer.exists
    <3>1. PeerOK(peer)
      BY <2>0, <2>2, InvParts
    <3> QED
      BY <1>8, <1>11, <2>2, <3>1, WithDeadlineOK
  <2>3. CASE ~Reclaimed(q) /\ ~peer.exists
    <3>1. ~PeerOK(peer)
      BY <2>3 DEF PeerOK, PeerState
    <3> QED
      BY <1>9, <1>11, <2>3, <3>1, InvParts
  <2> QED
    BY <2>1, <2>2, <2>3
<1>13. PICK b : b = buffer'
  OBVIOUS
<1>14. BufferOK(b) \/ b = NoBuffer
  BY <1>13, InvParts DEF xgl_transport_run
<1> QED
  BY <1>1, <1>2, <1>7, <1>8, <1>10, <1>12, <1>13, <1>14, StepInv

\* The first state is in order.
LEMMA InitInv ==
    ASSUME Init
    PROVE  RuntimeInv
<1>1. ClockOK
  BY ConstantBounds DEF Init, ClockOK
<1>2. RunOK
  BY ReadingInt DEF Init, RunOK
<1>3. QueueOK(queue)
  BY EmptyQueueOK DEF Init
<1>4. ~peer.exists
  BY DEF Init, NoPeer
<1> QED
  BY <1>1, <1>2, <1>3, <1>4 DEF Init, RuntimeInv, DeadlineFresh

\* Every step keeps the invariant.
LEMMA NextInv ==
    ASSUME RuntimeInv, [Next]_vars
    PROVE  RuntimeInv'
<1>1. CASE Tick
  BY <1>1, TickInv
<1>2. CASE \E given \in SendTimeouts : Send(given)
  BY <1>2, SendInv
<1>3. CASE SendRefused
  BY <1>3, SendRefusedInv
<1>4. CASE \E throttled \in BOOLEAN : xgl_run(throttled)
  BY <1>4, RunInv
<1>5. CASE \E fragment \in BOOLEAN : ReceiveData(fragment)
  BY <1>5, ReceiveDataInv
<1>6. CASE \E i \in DOMAIN queue : ReceiveAck(i)
  BY <1>6, ReceiveAckInv
<1>7. CASE \E first \in DOMAIN queue \cup {1}, last \in DOMAIN queue \cup {0} :
             \E received \in SUBSET (first..last), stop \in 1..(Len(queue) + 1) :
                ReceiveSack(first..last, received, stop)
  BY <1>7, ReceiveSackInv, Zenon
<1>8. CASE \E i \in DOMAIN queue : ReceiveEmptySack(i)
  BY <1>8, ReceiveEmptySackInv
<1>9. CASE ReceiveHello
  BY <1>9, ReceiveHelloInv
<1>10. CASE \E refused \in SUBSET DOMAIN queue : xgl_transport_run(refused)
  BY <1>10, TransportRunInv
<1>11. CASE UNCHANGED vars
  BY <1>11 DEF vars, RuntimeInv, ClockOK, RunOK, At, QueueOK, PacketOK, PeerOK, BufferOK,
     DeadlineFresh
<1> QED
  BY <1>1, <1>2, <1>3, <1>4, <1>5, <1>6, <1>7, <1>8, <1>9, <1>10, <1>11 DEF Next

\* The inductive invariant: stamps are the readings of the times they stand for,
\* and outside xgl_run the peer's deadline is the one of its queue.
THEOREM RuntimeInvariant == Spec => []RuntimeInv
  BY InitInv, NextInv, PTL DEF Spec

-----------------------------------------------------------------------------
(***************************************************************************)
(* What the invariant says of the program                                  *)
(***************************************************************************)
\* A state of the invariant is well typed.
LEMMA InvTypes ==
    ASSUME RuntimeInv
    PROVE  TypeOK
<1>1. now \in Nat
  BY DEF RuntimeInv, ClockOK
<1>2. PICK P : P = [send_timestamp : Reading, timeout_ms : Nat \ {0},
                    initial_timeout_ms : Nat \ {0}, retry_count : Nat, at : 0..now]
  OBVIOUS
<1>3. ASSUME NEW p, PacketOK(p)
      PROVE  p \in P
  <2>1. p \in Packet /\ p.timeout_ms \in Timeout /\ p.initial_timeout_ms \in Timeout
    BY <1>3 DEF PacketOK, Packet
  <2>2. p.timeout_ms \in Nat \ {0} /\ p.initial_timeout_ms \in Nat \ {0}
    BY <2>1, TimeoutNat
  <2>3. p.at \in 0..now
    BY <1>1, <1>3, <2>1 DEF PacketOK, Packet
  <2> QED
    BY <1>2, <2>1, <2>2, <2>3 DEF Packet
<1>4. queue \in Seq(P)
  <2>1. PICK n \in Nat : n = Len(queue)
    BY InvParts
  <2>2. queue = [i \in 1..n |-> queue[i]]
    BY <2>1, InvParts
  <2>3. \A i \in 1..n : queue[i] \in P
    BY <1>3, <2>1, InvParts
  <2> QED
    BY <2>2, <2>3
<1>5. peer.exists => peer.last_active_ms \in Reading /\ peer.earliest_deadline_ms \in Reading
  <2>1. PeerOK(peer) => peer.last_active_ms \in Reading /\ peer.earliest_deadline_ms \in Reading
    BY DEF PeerOK, PeerState
  <2>2. ~NoPeer.exists
    BY DEF NoPeer
  <2> QED
    BY <2>1, <2>2, InvParts
<1>6. buffer.exists => buffer.first_fragment_time \in Reading /\ buffer.at \in 0..now
  <2>1. BufferOK(buffer) => buffer.first_fragment_time \in Reading /\ buffer.at \in 0..now
    BY <1>1 DEF BufferOK, BufferState
  <2>2. ~NoBuffer.exists
    BY DEF NoBuffer
  <2> QED
    BY <2>1, <2>2, InvParts
<1> QED
  BY <1>2, <1>4, <1>5, <1>6, InvParts DEF TypeOK, RunOK

\* Stamps are clock readings of moments that have passed, timeouts are positive
\* and packets are in flight only for a peer that exists.
THEOREM RuntimeTypes == Spec => []TypeOK
  BY RuntimeInvariant, InvTypes, PTL

-----------------------------------------------------------------------------
(***************************************************************************)
(* Expiry                                                                  *)
(***************************************************************************)
\* The comparison of xgl_run's reading with a stamp that is not younger: what
\* counts as expired has expired in real time, and what had expired when
\* xgl_run started counts, if the clock has not turned round since.
LEMMA ExpiredIs ==
    ASSUME RuntimeInv, running, NEW t \in Nat, NEW timeout \in Nat
    PROVE  /\ t <= run_at /\ Elapsed(run_time, At(t)) >= timeout => now - t >= timeout
           /\ MaxTime < ClockSize /\ run_at - t >= timeout =>
                  Elapsed(run_time, At(t)) >= timeout
<1>1. /\ run_at \in Nat /\ run_at <= now /\ run_time = At(run_at) /\ now \in Nat
      /\ now <= MaxTime /\ boot \in Int /\ MaxTime \in Nat
  BY ReadingInt, ConstantBounds DEF RuntimeInv, RunOK, ClockOK
<1>2. PICK d \in Int : d = run_at - t
  BY <1>1
<1>3. Elapsed(run_time, At(t)) = d % ClockSize
  BY <1>1, <1>2, ElapsedIs
<1>4. PICK e \in Int : e = d % ClockSize
  BY RemainderIsReading, ReadingInt
<1>5. CASE t <= run_at
  <2>1. d \in Nat /\ e <= d
    BY <1>1, <1>2, <1>4, <1>5, RemainderBelow
  <2>2. MaxTime < ClockSize => e = d
    <3> SUFFICES ASSUME MaxTime < ClockSize PROVE e = d
      OBVIOUS
    <3>1. d < ClockSize /\ -ClockSize <= d /\ d >= 0
      BY <1>1, <1>2, <2>1, ConstantBounds
    <3> QED
      BY <1>4, <3>1, SmallRemainder
  <2> QED
    BY <1>1, <1>2, <1>3, <1>4, <2>1, <2>2
<1>6. CASE ~(t <= run_at)
  BY <1>1, <1>6
<1> QED
  BY <1>5, <1>6

\* Nothing expires early, except what was stamped after xgl_run had read the
\* clock.
NothingEarly ==
    running =>
        /\ \A i \in EarlyPackets : queue[i].at > run_at
        /\ EarlyBuffer => buffer.at > run_at
        /\ EarlyPeer => peer.active_at > run_at

\* Nothing that had expired when xgl_run read the clock is missed.
NothingMissed ==
    running =>
        /\ \A i \in DOMAIN queue :
               queue[i].send_timestamp # 0 /\ run_at - queue[i].at >= queue[i].timeout_ms
               => Due(queue[i])
        /\ /\ buffer.exists /\ buffer.first_fragment_time # 0
           /\ run_at - buffer.at >= FragmentTimeout
           => BufferTimedOut

\* The fields of a packet in order that expiry is about.
LEMMA PacketFields ==
    ASSUME NEW p, PacketOK(p)
    PROVE  /\ p.at \in Nat /\ p.timeout_ms \in Nat /\ p.timeout_ms \in Timeout
           /\ p.at <= now /\ p.send_timestamp = At(p.at)
  BY TimeoutNat DEF PacketOK, Packet

\* The fields of a reassembly buffer, when there is one.
LEMMA BufferFields ==
    ASSUME RuntimeInv, buffer.exists
    PROVE  buffer.at \in Nat /\ buffer.at <= now /\ buffer.first_fragment_time = At(buffer.at)
<1>1. ~NoBuffer.exists
  BY DEF NoBuffer
<1> QED
  BY <1>1, InvParts DEF BufferOK, BufferState

\* The invariant leaves nothing to expire early.
LEMMA InvNothingEarly ==
    ASSUME RuntimeInv
    PROVE  NothingEarly
<1> SUFFICES ASSUME running
             PROVE  /\ \A i \in EarlyPackets : queue[i].at > run_at
                    /\ EarlyBuffer => buffer.at > run_at
                    /\ EarlyPeer => peer.active_at > run_at
  BY DEF NothingEarly
<1>0. run_at \in Nat /\ now \in Nat
  BY InvParts DEF RunOK, ClockOK
<1>1. ASSUME NEW i \in EarlyPackets
      PROVE  queue[i].at > run_at
  <2>1. PICK p : p = queue[i]
    OBVIOUS
  <2>2. PacketOK(p) /\ Due(p) /\ now - p.at < p.timeout_ms
    BY <2>1, InvParts DEF EarlyPackets
  <2>3. PICK t \in Nat, w \in Nat : t = p.at /\ w = p.timeout_ms /\ p.send_timestamp = At(t)
    BY <2>2, PacketFields
  <2>4. Elapsed(run_time, At(t)) >= w /\ now - t < w
    BY <2>2, <2>3 DEF Due, Expired
  <2>5. ~(t <= run_at)
    <3>1. t <= run_at => now - t >= w
      BY <2>4, ExpiredIs
    <3> QED
      BY <1>0, <2>4, <3>1
  <2> QED
    BY <1>0, <2>1, <2>3, <2>5
<1>2. ASSUME EarlyBuffer
      PROVE  buffer.at > run_at
  <2>1. PICK t \in Nat : t = buffer.at /\ buffer.first_fragment_time = At(t)
    BY <1>2, BufferFields DEF EarlyBuffer, BufferTimedOut
  <2>2. PICK w \in Nat : w = FragmentTimeout
    BY ConstantBounds
  <2>3. Elapsed(run_time, At(t)) >= w /\ now - t < w
    BY <1>2, <2>1, <2>2 DEF EarlyBuffer, BufferTimedOut, Expired
  <2>4. ~(t <= run_at)
    <3>1. t <= run_at => now - t >= w
      BY <2>3, ExpiredIs
    <3> QED
      BY <1>0, <2>3, <3>1
  <2> QED
    BY <1>0, <2>1, <2>4
<1>3. ASSUME EarlyPeer
      PROVE  peer.active_at > run_at
  <2>1. /\ peer.exists /\ Elapsed(run_time, peer.last_active_ms) >= IdleTimeout
        /\ now - peer.active_at < IdleTimeout
    BY <1>3 DEF EarlyPeer, Reclaimed
  <2>2. PICK w \in Nat : w = IdleTimeout
    BY ConstantBounds
  <2>3. PeerOK(peer)
    <3>1. ~NoPeer.exists
      BY DEF NoPeer
    <3> QED
      BY <2>1, <3>1, InvParts
  <2>4. CASE peer.active_at = -IdleTimeout
    BY <1>0, <2>1, <2>2, <2>4
  <2>5. CASE peer.active_at \in 0..now /\ peer.last_active_ms = At(peer.active_at)
    <3>1. PICK t \in Nat : t = peer.active_at /\ peer.last_active_ms = At(t)
      BY <2>5
    <3>2. Elapsed(run_time, At(t)) >= w /\ now - t < w
      BY <2>1, <2>2, <3>1
    <3>3. t <= run_at => now - t >= w
      BY <3>2, ExpiredIs
    <3> QED
      BY <1>0, <3>1, <3>2, <3>3
  <2> QED
    BY <2>3, <2>4, <2>5 DEF PeerOK
<1> QED
  BY <1>1, <1>2, <1>3

\* And nothing to be missed, as long as the clock has not turned round since
\* the system started.
LEMMA InvNothingMissed ==
    ASSUME RuntimeInv, MaxTime < ClockSize
    PROVE  NothingMissed
<1> SUFFICES ASSUME running
             PROVE  /\ \A i \in DOMAIN queue :
                           /\ queue[i].send_timestamp # 0
                           /\ run_at - queue[i].at >= queue[i].timeout_ms
                           => Due(queue[i])
                    /\ /\ buffer.exists /\ buffer.first_fragment_time # 0
                       /\ run_at - buffer.at >= FragmentTimeout
                       => BufferTimedOut
  BY DEF NothingMissed
<1>1. ASSUME NEW i \in DOMAIN queue, queue[i].send_timestamp # 0,
             run_at - queue[i].at >= queue[i].timeout_ms
      PROVE  Due(queue[i])
  <2>1. PICK p : p = queue[i] /\ PacketOK(p)
    BY InvParts
  <2>2. PICK t \in Nat, w \in Nat : t = p.at /\ w = p.timeout_ms /\ p.send_timestamp = At(t)
    BY <2>1, PacketFields
  <2>3. Elapsed(run_time, At(t)) >= w
    <3>1. run_at - t >= w
      BY <1>1, <2>1, <2>2
    <3> QED
      BY <3>1, ExpiredIs
  <2> QED
    BY <1>1, <2>1, <2>2, <2>3 DEF Due, Expired
<1>2. ASSUME buffer.exists, buffer.first_fragment_time # 0,
             run_at - buffer.at >= FragmentTimeout
      PROVE  BufferTimedOut
  <2>1. PICK t \in Nat : t = buffer.at /\ buffer.first_fragment_time = At(t)
    BY <1>2, BufferFields
  <2>2. PICK w \in Nat : w = FragmentTimeout
    BY ConstantBounds
  <2>3. Elapsed(run_time, At(t)) >= w
    <3>1. run_at - t >= w
      BY <1>2, <2>1, <2>2
    <3> QED
      BY <3>1, ExpiredIs
  <2> QED
    BY <1>2, <2>1, <2>2, <2>3 DEF BufferTimedOut, Expired
<1> QED
  BY <1>1, <1>2

\* However long the system runs and however often its clock turns round: the
\* end of xgl_run retransmits no packet, frees no reassembly buffer and reclaims
\* no peer before its time, except what was stamped after xgl_run had read the
\* clock.
THEOREM NeverEarly == Spec => []NothingEarly
  BY RuntimeInvariant, InvNothingEarly, PTL

\* Within one turn of the clock, from any boot reading, nothing is missed
\* either: expiry is on time.
THEOREM ExpiresOnTime == MaxTime < ClockSize => (Spec => []ExpiryOnTime)
<1> SUFFICES ASSUME MaxTime < ClockSize PROVE Spec => []ExpiryOnTime
  OBVIOUS
<1>1. RuntimeInv => ExpiryOnTime
  <2> SUFFICES ASSUME RuntimeInv PROVE ExpiryOnTime
    OBVIOUS
  <2>1. NothingEarly /\ NothingMissed
    BY InvNothingEarly, InvNothingMissed
  <2> QED
    BY <2>1 DEF NothingEarly, NothingMissed, ExpiryOnTime
<1> QED
  BY <1>1, RuntimeInvariant, PTL

-----------------------------------------------------------------------------
(***************************************************************************)
(* The deadline the main loop sleeps for                                   *)
(***************************************************************************)
\* The clock is less than half a turn from its boot reading when the last
\* timeout falls due: the range in which signed differences order readings.
WithinHalfTurn ==
    /\ MaxTime < ClockSize \div 2
    /\ \A t \in Timeout : MaxTime + t < ClockSize \div 2

\* The real time a packet falls due at.
FallsDue(p) == p.at + p.timeout_ms

\* When a packet in order falls due, and what the clock reads then.
LEMMA FallsDueAt ==
    ASSUME ClockOK, WithinHalfTurn, NEW p, PacketOK(p)
    PROVE  /\ FallsDue(p) \in Nat /\ FallsDue(p) < ClockSize \div 2
           /\ AbsoluteDeadline(p) = At(FallsDue(p))
<1>1. /\ boot \in Int /\ now \in Nat /\ now <= MaxTime /\ MaxTime \in Nat
      /\ ClockSize \div 2 \in Nat
  BY ReadingInt, ConstantBounds, HalfTurn DEF ClockOK
<1>2. PICK t \in Nat, w \in Nat : /\ t = p.at /\ w = p.timeout_ms /\ w \in Timeout
                                  /\ t <= now /\ p.send_timestamp = At(t)
  BY PacketFields
<1>3. MaxTime + w < ClockSize \div 2
  BY <1>2 DEF WithinHalfTurn
<1>4. (At(t) + w) % ClockSize = At(t + w)
  <2>1. boot \in Int /\ t \in Int /\ w \in Int
    BY <1>1, <1>2
  <2> QED
    BY <2>1, ReadingPlus, Zenon
<1>5. t + w \in Nat /\ t + w < ClockSize \div 2
  BY <1>1, <1>2, <1>3
<1> QED
  BY <1>2, <1>4, <1>5 DEF FallsDue, AbsoluteDeadline

\* Readings of two moments in this range compare as the moments do.
LEMMA EarlierIs ==
    ASSUME ClockOK, NEW a \in Nat, NEW b \in Nat, a < ClockSize \div 2, b < ClockSize \div 2
    PROVE  EarlierThan(At(a), At(b)) <=> a < b
<1>1. boot \in Int /\ ClockSize \div 2 \in Nat
  BY ReadingInt, HalfTurn DEF ClockOK
<1>2. a - b < ClockSize \div 2 /\ b - a < ClockSize \div 2
  BY <1>1
<1>3. SignedDifference(At(a), At(b)) = a - b
  BY <1>1, <1>2, SignedIs
<1> QED
  BY <1>3 DEF EarlierThan

\* The loop over the queue finds the packet that falls due first.
Earliest(g, q, s) ==
    IF s = {} THEN g[s] = 0
    ELSE \E j \in s : /\ g[s] = AbsoluteDeadline(q[j])
                      /\ \A i \in s : FallsDue(q[j]) <= FallsDue(q[i])

\* transport_update_peer_deadline returns the reading at which the first packet
\* of the queue falls due, unless a stamp or a deadline reads 0.
LEMMA DeadlineEarliest ==
    ASSUME ClockOK, WithinHalfTurn, NEW q, QueueOK(q), q # <<>>,
           \A i \in DOMAIN q : ~ReadsZero(q[i])
    PROVE  \E j \in DOMAIN q :
              /\ transport_update_peer_deadline(q) = AbsoluteDeadline(q[j])
              /\ \A i \in DOMAIN q : FallsDue(q[j]) <= FallsDue(q[i])
<1>1. q \in Seq(Packet) /\ \A i \in DOMAIN q : PacketOK(q[i])
  BY DEF QueueOK
<1>2. PICK g : IsDeadlines(g, q) /\ transport_update_peer_deadline(q) = g[DOMAIN q]
  BY <1>1, DeadlinesExist
<1>3. PICK S : S = DOMAIN q
  OBVIOUS
<1>4. IsFiniteSet(S) /\ S \in SUBSET Int /\ S # {}
  <2>1. PICK n \in Nat : n = Len(q) /\ S = 1..n
    BY <1>1, <1>3
  <2>2. PICK one \in Int : one = 1
    OBVIOUS
  <2>3. IsFiniteSet(one..n)
    BY FS_Interval
  <2>4. n # 0
    BY <1>1, <2>1
  <2>5. 1 \in S
    BY <2>1, <2>4
  <2> QED
    BY <2>1, <2>2, <2>3, <2>5
<1>5. \A s \in SUBSET S : g[s] = DeadlineStep(g, q, s)
  BY <1>2, <1>3 DEF IsDeadlines
<1>6. \A i \in S : /\ FallsDue(q[i]) \in Nat /\ FallsDue(q[i]) < ClockSize \div 2
                   /\ AbsoluteDeadline(q[i]) = At(FallsDue(q[i]))
                   /\ AbsoluteDeadline(q[i]) # 0 /\ q[i].send_timestamp # 0
  BY <1>1, <1>3, FallsDueAt DEF ReadsZero
<1> DEFINE P == {s \in SUBSET S : Earliest(g, q, s)}
<1>7. ASSUME NEW s \in SUBSET S, \A x \in s : s \ {x} \in P
      PROVE  s \in P
  <2>1. CASE s = {}
    BY <1>5, <2>1 DEF Earliest, DeadlineStep
  <2>2. CASE s # {}
    <3>1. PICK x : x = Max(s)
      OBVIOUS
    <3>2. x \in s /\ x \in S
      <4>1. s \in SUBSET Int /\ IsFiniteSet(s)
        BY <1>4, FS_Subset
      <4> QED
        BY <2>2, <3>1, <4>1, MaxIn
    <3>3. PICK rest, e : rest = s \ {x} /\ e = g[rest]
      OBVIOUS
    <3>4. Earliest(g, q, rest)
      BY <1>7, <3>2, <3>3
    <3>5. g[s] = TakeDeadline(e, q[x])
      BY <1>5, <2>2, <3>1, <3>3 DEF DeadlineStep
    <3>6. CASE rest = {}
      <4>1. e = 0
        BY <3>3, <3>4, <3>6 DEF Earliest
      <4>2. g[s] = AbsoluteDeadline(q[x])
        BY <1>6, <3>2, <3>5, <4>1 DEF TakeDeadline
      <4>3. s = {x}
        BY <3>2, <3>3, <3>6
      <4>4. \A i \in s : FallsDue(q[x]) <= FallsDue(q[i])
        BY <1>6, <3>2, <4>3
      <4> QED
        BY <2>2, <3>2, <4>2, <4>4 DEF Earliest
    <3>7. CASE rest # {}
      <4>1. PICK j \in rest : /\ e = AbsoluteDeadline(q[j])
                              /\ \A i \in rest : FallsDue(q[j]) <= FallsDue(q[i])
        BY <3>3, <3>4, <3>7 DEF Earliest
      <4>2. j \in s /\ j \in S
        BY <3>3, <4>1
      <4>3. PICK a \in Nat, b \in Nat : a = FallsDue(q[x]) /\ b = FallsDue(q[j])
        BY <1>6, <3>2, <4>2
      <4>4. EarlierThan(AbsoluteDeadline(q[x]), e) <=> a < b
        BY <1>6, <3>2, <4>1, <4>2, <4>3, EarlierIs
      <4>5. g[s] = IF a < b THEN AbsoluteDeadline(q[x]) ELSE e
        BY <1>6, <3>2, <3>5, <4>1, <4>2, <4>4 DEF TakeDeadline
      <4>6. \A i \in s : i = x \/ i \in rest
        BY <3>3
      <4>7. \A i \in s : FallsDue(q[i]) \in Nat
        BY <1>6
      <4>8. CASE a < b
        <5>1. \A i \in s : FallsDue(q[x]) <= FallsDue(q[i])
          BY <4>1, <4>3, <4>6, <4>7, <4>8
        <5> QED
          BY <2>2, <3>2, <4>5, <4>8, <5>1 DEF Earliest
      <4>9. CASE ~(a < b)
        <5>1. \A i \in s : FallsDue(q[j]) <= FallsDue(q[i])
          BY <4>1, <4>3, <4>6, <4>7, <4>9
        <5> QED
          BY <2>2, <4>1, <4>2, <4>5, <4>9, <5>1 DEF Earliest
      <4> QED
        BY <4>8, <4>9
    <3> QED
      BY <3>6, <3>7
  <2> QED
    BY <2>1, <2>2
<1>8. S \in P
  <2> HIDE DEF P
  <2>1. \A s \in SUBSET S : (\A x \in s : s \ {x} \in P) => s \in P
    BY <1>7
  <2>2. \A s \in SUBSET S : s \in P
    BY <1>4, <2>1, SubsetInduction
  <2> QED
    BY <2>2
<1>9. Earliest(g, q, S)
  BY <1>8
<1> QED
  BY <1>2, <1>3, <1>4, <1>9 DEF Earliest

\* An unsigned difference of readings is natural.
LEMMA ElapsedNat ==
    ASSUME NEW a \in Reading, NEW b \in Reading
    PROVE  Elapsed(a, b) \in Nat
<1>1. PICK d \in Int : d = a - b
  BY ReadingInt
<1>2. d % ClockSize \in Reading
  BY RemainderIsReading
<1> QED
  BY <1>1, <1>2, ConstantBounds DEF Elapsed, Reading

\* The time left until a timeout is natural.
LEMMA DeltaNat ==
    ASSUME ClockOK, NEW start \in Reading, NEW timeout \in Nat
    PROVE  deadline_delta_ms(start, timeout) \in Nat
<1>1. PICK e \in Nat : e = Elapsed(xgl_time_ms, start)
  BY ClockReading, ElapsedNat
<1> QED
  BY <1>1 DEF deadline_delta_ms

\* The three deadlines are natural, so the one returned is at most each.
LEMMA NextDeadlineLeast ==
    ASSUME RuntimeInv
    PROVE  /\ xgl_next_deadline_ms \in Nat
           /\ ReliableDeadline \in Nat /\ xgl_next_deadline_ms <= ReliableDeadline
           /\ ReassemblyDeadline \in Nat /\ xgl_next_deadline_ms <= ReassemblyDeadline
<1>0. ClockOK /\ route_last_read_ms \in Reading /\ ClockSize \in Nat
  BY InvParts, ConstantBounds DEF RunOK
<1>1. RouteDeadline \in Nat
  BY <1>0, ConstantBounds, DeltaNat DEF RouteDeadline
<1>2. ReliableDeadline \in Nat
  <2>1. CASE ~peer.exists \/ peer.earliest_deadline_ms = 0
    BY <1>0, <2>1 DEF ReliableDeadline, NoDeadline
  <2>2. CASE ~(~peer.exists \/ peer.earliest_deadline_ms = 0)
    <3>1. PICK d \in Reading : d = peer.earliest_deadline_ms
      <4>1. ~NoPeer.exists
        BY DEF NoPeer
      <4> QED
        BY <2>2, <4>1, InvParts DEF PeerOK, PeerState
    <3>2. PICK e \in Nat : e = Elapsed(d, xgl_time_ms)
      BY <1>0, ClockReading, ElapsedNat
    <3>3. PICK r \in Int : r = SignedDifference(d, xgl_time_ms)
      BY <1>0, <3>2 DEF SignedDifference
    <3> QED
      BY <2>2, <3>1, <3>3 DEF ReliableDeadline
  <2> QED
    BY <2>1, <2>2
<1>3. ReassemblyDeadline \in Nat
  <2>1. CASE ~buffer.exists \/ buffer.first_fragment_time = 0
    BY <1>0, <2>1 DEF ReassemblyDeadline, NoDeadline
  <2>2. CASE ~(~buffer.exists \/ buffer.first_fragment_time = 0)
    <3>1. buffer.first_fragment_time \in Reading
      <4>1. ~NoBuffer.exists
        BY DEF NoBuffer
      <4> QED
        BY <2>2, <4>1, InvParts DEF BufferOK, BufferState
    <3> QED
      BY <1>0, <2>2, <3>1, ConstantBounds, DeltaNat DEF ReassemblyDeadline
  <2> QED
    BY <2>1, <2>2
<1> QED
  BY <1>1, <1>2, <1>3 DEF xgl_next_deadline_ms, Lesser

\* Outside xgl_run the deadline is no later than any retransmission.
LEMMA CoversPackets ==
    ASSUME RuntimeInv, WithinHalfTurn, ~running,
           \A i \in DOMAIN queue : ~ReadsZero(queue[i]), NEW k \in DOMAIN queue
    PROVE  /\ Remaining(queue[k].at, queue[k].timeout_ms) \in Nat
           /\ ReliableDeadline <= Remaining(queue[k].at, queue[k].timeout_ms)
<1>0. /\ ClockOK /\ now \in Nat /\ boot \in Int /\ now < ClockSize \div 2
      /\ ClockSize \div 2 \in Nat
  BY InvParts, ClockReading, ConstantBounds, HalfTurn DEF ClockOK, WithinHalfTurn
<1>1. queue # <<>> /\ QueueOK(queue)
  BY InvParts
<1>2. PICK j \in DOMAIN queue :
          /\ transport_update_peer_deadline(queue) = AbsoluteDeadline(queue[j])
          /\ \A i \in DOMAIN queue : FallsDue(queue[j]) <= FallsDue(queue[i])
  BY <1>0, <1>1, DeadlineEarliest
<1>3. PacketOK(queue[j]) /\ PacketOK(queue[k])
  BY InvParts
<1>4. PICK a \in Nat, b \in Nat : a = FallsDue(queue[j]) /\ b = FallsDue(queue[k])
  BY <1>0, <1>3, FallsDueAt
<1>5. a <= b /\ a < ClockSize \div 2 /\ AbsoluteDeadline(queue[j]) = At(a)
  BY <1>0, <1>2, <1>3, <1>4, FallsDueAt
<1>6. /\ peer.exists /\ peer.earliest_deadline_ms = At(a) /\ At(a) # 0
  BY <1>1, <1>2, <1>5, InvParts DEF DeadlineFresh, ReadsZero
<1>7. xgl_time_ms = At(now)
  BY <1>0, ClockReading
<1>8. SignedDifference(At(a), At(now)) = a - now
  <2>1. a - now < ClockSize \div 2 /\ now - a < ClockSize \div 2
    BY <1>0, <1>5
  <2> QED
    BY <1>0, <2>1, SignedIs
<1>9. ReliableDeadline = IF a - now <= 0 THEN 0 ELSE a - now
  BY <1>6, <1>7, <1>8 DEF ReliableDeadline
<1>10. PICK t \in Nat, w \in Nat : t = queue[k].at /\ w = queue[k].timeout_ms
  BY <1>3, PacketFields
<1>11. b = t + w
  BY <1>4, <1>10 DEF FallsDue
<1>12. Remaining(queue[k].at, queue[k].timeout_ms) = IF now - t >= w THEN 0 ELSE w - (now - t)
  BY <1>10 DEF Remaining
<1> QED
  BY <1>0, <1>5, <1>9, <1>11, <1>12

\* Nor later than the end of a reassembly.
LEMMA CoversBuffer ==
    ASSUME RuntimeInv, WithinHalfTurn, buffer.exists, buffer.first_fragment_time # 0
    PROVE  /\ Remaining(buffer.at, FragmentTimeout) \in Nat
           /\ ReassemblyDeadline <= Remaining(buffer.at, FragmentTimeout)
<1>1. /\ ClockOK /\ now \in Nat /\ boot \in Int /\ now < ClockSize \div 2
      /\ ClockSize \div 2 \in Nat /\ ClockSize = 2 * (ClockSize \div 2)
  BY InvParts, ClockReading, ConstantBounds, HalfTurn DEF ClockOK, WithinHalfTurn
<1>2. PICK t \in Nat : t = buffer.at /\ t <= now /\ buffer.first_fragment_time = At(t)
  BY BufferFields
<1>3. PICK d \in Int : d = now - t
  BY <1>1
<1>4. Elapsed(xgl_time_ms, buffer.first_fragment_time) = d % ClockSize
  <2>1. PICK s \in Int : s = now
    BY <1>1
  <2>2. boot \in Int /\ t \in Int /\ d = s - t
    BY <1>1, <1>2, <1>3, <2>1
  <2>3. Elapsed(At(s), At(t)) = (s - t) % ClockSize
    BY <2>2, ElapsedIs, Zenon
  <2>4. xgl_time_ms = At(s)
    BY <1>1, <2>1, ClockReading
  <2> QED
    BY <1>2, <2>2, <2>3, <2>4
<1>5. d % ClockSize = d
  <2>1. d < ClockSize /\ -ClockSize <= d /\ d >= 0
    BY <1>1, <1>2, <1>3
  <2> QED
    BY <2>1, SmallRemainder
<1>6. PICK w \in Nat : w = FragmentTimeout
  BY ConstantBounds
<1>7. ReassemblyDeadline = IF d >= w THEN 0 ELSE w - d
  BY <1>4, <1>5, <1>6 DEF ReassemblyDeadline, deadline_delta_ms
<1>8. Remaining(buffer.at, FragmentTimeout) = IF d >= w THEN 0 ELSE w - d
  BY <1>2, <1>3, <1>6 DEF Remaining
<1> QED
  BY <1>3, <1>6, <1>7, <1>8

\* A main loop that sleeps for xgl_next_deadline_ms sleeps through no
\* retransmission and no reassembly timeout: for any number of packets, any
\* timeouts and any boot reading, in the range in which the code's signed
\* comparison of readings means anything.
THEOREM DeadlinesCover == WithinHalfTurn => (Spec => []DeadlineCovers)
<1> SUFFICES ASSUME WithinHalfTurn PROVE Spec => []DeadlineCovers
  OBVIOUS
<1>1. RuntimeInv => DeadlineCovers
  <2> SUFFICES ASSUME RuntimeInv, ~running
               PROVE  /\ (\A i \in DOMAIN queue : ~ReadsZero(queue[i])) =>
                             \A i \in DOMAIN queue :
                                 xgl_next_deadline_ms
                                     <= Remaining(queue[i].at, queue[i].timeout_ms)
                      /\ buffer.exists /\ buffer.first_fragment_time # 0 =>
                             xgl_next_deadline_ms <= Remaining(buffer.at, FragmentTimeout)
    BY DEF DeadlineCovers
  <2>1. ASSUME \A i \in DOMAIN queue : ~ReadsZero(queue[i]), NEW i \in DOMAIN queue
        PROVE  xgl_next_deadline_ms <= Remaining(queue[i].at, queue[i].timeout_ms)
    <3>1. PICK x, y, z : /\ x = xgl_next_deadline_ms /\ y = ReliableDeadline
                         /\ z = Remaining(queue[i].at, queue[i].timeout_ms)
      OBVIOUS
    <3>2. x \in Nat /\ y \in Nat /\ z \in Nat /\ x <= y /\ y <= z
      BY <2>1, <3>1, NextDeadlineLeast, CoversPackets
    <3> QED
      BY <3>1, <3>2
  <2>2. ASSUME buffer.exists, buffer.first_fragment_time # 0
        PROVE  xgl_next_deadline_ms <= Remaining(buffer.at, FragmentTimeout)
    <3>1. PICK x, y, z : /\ x = xgl_next_deadline_ms /\ y = ReassemblyDeadline
                         /\ z = Remaining(buffer.at, FragmentTimeout)
      OBVIOUS
    <3>2. x \in Nat /\ y \in Nat /\ z \in Nat /\ x <= y /\ y <= z
      BY <2>2, <3>1, NextDeadlineLeast, CoversBuffer
    <3> QED
      BY <3>1, <3>2
  <2> QED
    BY <2>1, <2>2
<1> QED
  BY <1>1, RuntimeInvariant, PTL
=============================================================================
