------------------------------- MODULE Lemmas -------------------------------
(***************************************************************************)
(* What the proofs of several components rest on: the least and greatest   *)
(* of a set of numbers, division, what removing one packet from a queue    *)
(* leaves behind, induction, that a recursion defines something, where the *)
(* pieces of a flattened sequence lie, folds, sums, counts and products    *)
(* over finite sets, and how much periodic work fits into a stretch of     *)
(* time.                                                                   *)
(***************************************************************************)
EXTENDS Integers, FiniteSets, Sequences, SequencesExt, SequenceTheorems,
        FiniteSetTheorems, WellFoundedInduction, TLAPS

\* A nonempty set of natural numbers has a least element (taken from the strict
\* subset ordering of its initial segments, so that it holds of any set).
LEMMA LeastExists ==
  ASSUME NEW T, T \subseteq Nat, T # {}
  PROVE  \E m \in T : \A k \in T : m <= k
<1> PICK n \in T : TRUE
  OBVIOUS
<1> DEFINE U == T \cap 0 .. n
           Below(j) == {k \in U : k <= j}
           Family == {Below(j) : j \in U}
<1>1. IsFiniteSet(U)
  <2>1. IsFiniteSet(0 .. n)
    BY FS_Interval
  <2> QED
    BY <2>1, FS_Subset
<1>2. IsWellFoundedOn(StrictSubsetOrdering(U), SUBSET U)
  <2> HIDE DEF U
  <2> QED
    BY <1>1, FS_StrictSubsetOrderingWellFounded, FS_FiniteSubsetsOfFinite
<1>3. Family \subseteq SUBSET U /\ Family # {}
  <2>1. n \in U
    OBVIOUS
  <2>2. Below(n) \in Family
    BY <2>1
  <2>3. \A j \in U : Below(j) \in SUBSET U
    OBVIOUS
  <2> HIDE DEF U, Below
  <2> QED
    BY <2>2, <2>3
<1>4. PICK x \in Family : \A y \in Family : ~(<<y, x>> \in StrictSubsetOrdering(U))
  <2> HIDE DEF U, Family
  <2> QED
    BY <1>2, <1>3, WFMin
<1>5. PICK m \in U : x = Below(m)
  OBVIOUS
<1>6. ASSUME NEW k \in T, k < m PROVE FALSE
  <2>1. k \in U /\ Below(k) \in Family
    BY <1>6
  <2>2. Below(k) \subseteq x /\ Below(k) # x
    BY <1>5, <1>6, <2>1
  <2>3. <<Below(k), x>> \in StrictSubsetOrdering(U)
    BY <2>1, <2>2, <1>3 DEF StrictSubsetOrdering
  <2> QED
    BY <1>4, <2>1, <2>3
<1> QED
  BY <1>6

\* Removing the i-th element shifts the later ones forward by one place.
LEMMA RemoveAtElements ==
  ASSUME NEW S, NEW q \in Seq(S), NEW i \in 1 .. Len(q)
  PROVE  /\ RemoveAt(q, i) \in Seq(S)
         /\ Len(RemoveAt(q, i)) = Len(q) - 1
         /\ \A j \in 1 .. Len(q) - 1 :
              RemoveAt(q, i)[j] = IF j < i THEN q[j] ELSE q[j + 1]
<1> DEFINE a == SubSeq(q, 1, i - 1)
           b == SubSeq(q, i + 1, Len(q))
<1>0. Len(q) \in Nat /\ i \in Int /\ \A j \in 1 .. Len(q) : q[j] \in S
  BY LenProperties, ElementOfSeq
<1>1. a \in Seq(S) /\ Len(a) = i - 1 /\ \A j \in 1 .. i - 1 : a[j] = q[j]
  BY <1>0, SubSeqProperties
<1>2. b \in Seq(S) /\ Len(b) = Len(q) - i /\ \A j \in 1 .. Len(q) - i : b[j] = q[i + j]
  BY <1>0, SubSeqProperties
<1>3. RemoveAt(q, i) = a \o b
  BY DEF RemoveAt
<1> HIDE DEF a, b
<1>4. a \o b \in Seq(S)
  BY <1>1, <1>2, ConcatProperties
<1>5. Len(a \o b) = (i - 1) + (Len(q) - i)
  <2>1. Len(a \o b) = Len(a) + Len(b)
    BY <1>1, <1>2, ConcatProperties, Zenon
  <2> QED
    BY <1>1, <1>2, <2>1, Zenon
<1>6. ASSUME NEW j \in 1 .. Len(q) - 1
      PROVE  (a \o b)[j] = IF j < i THEN q[j] ELSE q[j + 1]
  <2>1. j \in 1 .. (i - 1) + (Len(q) - i)
    BY <1>0
  <2>2. (a \o b)[j] = IF j <= Len(a) THEN a[j] ELSE b[j - Len(a)]
    BY <1>1, <1>2, <2>1, ConcatProperties
  <2>3. CASE j < i
    BY <1>0, <1>1, <2>2, <2>3
  <2>4. CASE ~(j < i)
    <3>1. j - (i - 1) \in 1 .. Len(q) - i /\ i + (j - (i - 1)) = j + 1
      BY <1>0, <2>4
    <3> QED
      BY <1>0, <1>1, <1>2, <2>2, <2>4, <3>1
  <2> QED
    BY <2>3, <2>4
<1> QED
  BY <1>0, <1>3, <1>4, <1>5, <1>6
-----------------------------------------------------------------------------
(* Induction, with a set of numbers in the place of a predicate *)

LEMMA StepByStep ==
  ASSUME NEW G, 0 \in G, \A n \in Nat : n \in G => n + 1 \in G
  PROVE  \A n \in Nat : n \in G
<1> DEFINE Bad == {n \in Nat : n \notin G}
<1> SUFFICES ASSUME Bad # {} PROVE FALSE
  OBVIOUS
<1>1. PICK m \in Bad : \A k \in Bad : m <= k
  BY LeastExists
<1>2. m \in Nat /\ m \notin G /\ m # 0
  OBVIOUS
<1>3. PICK k \in Nat : m = k + 1
  BY <1>2, m - 1 \in Nat
<1>4. k \notin Bad
  BY <1>1, <1>3
<1> QED
  BY <1>2, <1>3, <1>4

\* The k-th step of F takes a value in T to another.
StaysIn(F, T) == \A k \in Nat : \A x \in T : F[k][x] \in T

\* The values from base on, in n steps of F.
StepsOf(s, T, base, F, n) ==
  /\ s \in [0 .. n -> T]
  /\ s[0] = base /\ \A k \in 1 .. n : s[k] = F[k][s[k - 1]]

\* Recursion over a range of numbers has a solution.
LEMMA RecursionDefines ==
  ASSUME NEW T, NEW base, base \in T, NEW F, StaysIn(F, T), NEW n, n \in Nat
  PROVE  \E s : StepsOf(s, T, base, F, n)
<1> USE DEF StaysIn, StepsOf
<1> DEFINE Solves(s, m) == StepsOf(s, T, base, F, m)
           Solved == {m \in Nat : \E s : Solves(s, m)}
<1>1. 0 \in Solved
  <2>1. PICK s : s = [k \in 0 .. 0 |-> base]
    OBVIOUS
  <2>2. Solves(s, 0)
    BY <2>1
  <2> QED
    BY <2>2
<1>2. ASSUME NEW m \in Nat, m \in Solved PROVE m + 1 \in Solved
  <2>1. PICK g : Solves(g, m)
    BY <1>2
  <2>2. g[m] \in T
    BY <2>1
  <2>3. PICK s : s = [k \in 0 .. m + 1 |-> IF k = m + 1 THEN F[m + 1][g[m]] ELSE g[k]]
    OBVIOUS
  <2>4. s[m + 1] = F[m + 1][g[m]] /\ \A k \in 0 .. m : s[k] = g[k]
    BY <2>3
  <2>5. s \in [0 .. m + 1 -> T]
    <3>1. \A k \in 0 .. m : g[k] \in T
      BY <2>1
    <3>2. F[m + 1][g[m]] \in T
      BY <2>2
    <3> QED
      BY <2>3, <3>1, <3>2
  <2>6. s[0] = base
    BY <2>1, <2>4
  <2>7. ASSUME NEW k \in 1 .. m + 1 PROVE s[k] = F[k][s[k - 1]]
    <3>1. k - 1 \in 0 .. m /\ s[k - 1] = g[k - 1]
      BY <2>4
    <3>2. CASE k = m + 1
      BY <2>4, <3>1, <3>2
    <3>3. CASE k \in 1 .. m
      BY <2>1, <2>4, <3>1, <3>3
    <3> QED
      BY <3>2, <3>3
  <2> QED
    BY <2>5, <2>6, <2>7
<1> HIDE DEF Solved
<1>3. \A m \in Nat : m \in Solved
  BY <1>1, <1>2, StepByStep
<1> QED
  BY <1>3 DEF Solved

\* What steps like F within T, from base on, has only values in T.
LEMMA StepsStay ==
  ASSUME NEW T, NEW base, base \in T, NEW F, StaysIn(F, T), NEW n, n \in Nat,
         NEW w, w = [k \in 0 .. n |-> w[k]], w[0] = base,
         \A k \in 1 .. n : w[k - 1] \in T => w[k] = F[k][w[k - 1]]
  PROVE  StepsOf(w, T, base, F, n)
<1> DEFINE Good == {k \in Nat : k <= n => w[k] \in T}
<1>1. 0 \in Good
  OBVIOUS
<1>2. ASSUME NEW k \in Nat, k \in Good PROVE k + 1 \in Good
  <2> SUFFICES ASSUME k + 1 <= n PROVE w[k + 1] \in T
    OBVIOUS
  <2>1. PICK j \in 1 .. n : j = k + 1
    OBVIOUS
  <2>2. j - 1 = k /\ j \in Nat /\ w[k] \in T
    BY <1>2, <2>1
  <2>3. w[j] = F[j][w[k]]
    BY <2>2
  <2>4. F[j][w[k]] \in T
    BY <2>2 DEF StaysIn
  <2> QED
    BY <2>1, <2>3, <2>4
<1> HIDE DEF Good
<1>3. \A k \in Nat : k \in Good
  BY <1>1, <1>2, StepByStep
<1>4. \A k \in 0 .. n : w[k] \in T
  BY <1>3 DEF Good
<1>5. w \in [0 .. n -> T]
  BY <1>4
<1>6. ASSUME NEW k \in 1 .. n PROVE w[k] = F[k][w[k - 1]]
  <2>1. k - 1 \in 0 .. n
    OBVIOUS
  <2>2. w[k - 1] \in T
    BY <1>4, <2>1
  <2> QED
    BY <2>2
<1> QED
  BY <1>5, <1>6 DEF StepsOf

-----------------------------------------------------------------------------
(* Numbers *)

LEMMA Division ==
  ASSUME NEW a \in Int, NEW n \in Nat \ {0}
  PROVE  \E q \in Int, r \in 0 .. n - 1 : a = n * q + r /\ a % n = r
OBVIOUS

\* Different multiples are at least once the number apart.
LEMMA Multiples ==
  ASSUME NEW n \in Nat \ {0}, NEW j \in Int, NEW k \in Int, n * j < n * k
  PROVE  n * j + n <= n * k
<1>1. j < k
  OBVIOUS
<1>2. n * k - n * j = n * (k - j)
  OBVIOUS
<1>3. n * (k - j) >= n
  BY <1>1
<1> QED
  BY <1>2, <1>3

\* A positive factor may be cancelled.
LEMMA Cancel ==
  ASSUME NEW c \in Nat \ {0}, NEW a \in Int, NEW b \in Int
  PROVE  c * a <= c * b => a <= b
<1> SUFFICES ASSUME b < a PROVE c * b < c * a
  OBVIOUS
<1>1. c * (a - b) > 0
  OBVIOUS
<1>2. c * (a - b) = c * a - c * b
  OBVIOUS
<1> QED
  BY <1>1, <1>2

\* The greater of two numbers.
LEMMA MaxOfTwo ==
  ASSUME NEW a \in Int, NEW b \in Int
  PROVE  Max({a, b}) = IF a < b THEN b ELSE a
<1>1. PICK m \in {a, b} : \A y \in {a, b} : m >= y
  <2>1. CASE a < b
    BY <2>1
  <2>2. CASE ~(a < b)
    BY <2>2
  <2> QED
    BY <2>1, <2>2
<1>2. PICK n : n = CHOOSE x \in {a, b} : \A y \in {a, b} : x >= y
  OBVIOUS
<1>3. n \in {a, b} /\ \A y \in {a, b} : n >= y
  BY <1>1, <1>2
<1>4. Max({a, b}) = n
  BY <1>2 DEF Max
<1> QED
  BY <1>3, <1>4

\* The lesser of two numbers.
LEMMA MinOfTwo ==
  ASSUME NEW a \in Int, NEW b \in Int
  PROVE  Min({a, b}) = IF a < b THEN a ELSE b
<1>1. PICK m \in {a, b} : \A y \in {a, b} : m <= y
  <2>1. CASE a < b
    BY <2>1
  <2>2. CASE ~(a < b)
    BY <2>2
  <2> QED
    BY <2>1, <2>2
<1>2. PICK n : n = CHOOSE x \in {a, b} : \A y \in {a, b} : x <= y
  OBVIOUS
<1>3. n \in {a, b} /\ \A y \in {a, b} : n <= y
  BY <1>1, <1>2
<1>4. Min({a, b}) = n
  BY <1>2 DEF Min
<1> QED
  BY <1>3, <1>4

\* The least number of a set of natural numbers.
LEMMA MinOfNats ==
  ASSUME NEW S, S \subseteq Nat, S # {}
  PROVE  Min(S) \in S /\ \A y \in S : Min(S) <= y
<1>1. PICK n : n = CHOOSE x \in S : \A y \in S : x <= y
  OBVIOUS
<1>2. n \in S /\ \A y \in S : n <= y
  BY <1>1, LeastExists
<1>3. Min(S) = n
  BY <1>1 DEF Min
<1> QED
  BY <1>2, <1>3

\* The greatest of a set of natural numbers with a bound.
LEMMA MaxOfNats ==
  ASSUME NEW n \in Nat, NEW S, S \subseteq 0 .. n, S # {}
  PROVE  Max(S) \in S /\ \A y \in S : y <= Max(S)
<1> DEFINE T == {n - y : y \in S}
<1>1. T \subseteq Nat /\ T # {}
  <2>1. PICK z \in S : z \in 0 .. n
    OBVIOUS
  <2>2. n - z \in T
    OBVIOUS
  <2>3. \A y \in S : n - y \in Nat
    OBVIOUS
  <2> QED
    BY <2>2, <2>3
<1>2. PICK t \in T : \A k \in T : t <= k
  <2> HIDE DEF T
  <2> QED
    BY <1>1, LeastExists
<1>3. PICK m \in S : t = n - m
  OBVIOUS
<1>4. \A y \in S : y <= m
  BY <1>2, <1>3
<1>5. PICK x : x = CHOOSE z \in S : \A y \in S : z >= y
  OBVIOUS
<1>6. x \in S /\ \A y \in S : x >= y
  <2>1. \E z \in S : \A y \in S : z >= y
    BY <1>4
  <2> QED
    BY <1>5, <2>1
<1>7. Max(S) = x
  BY <1>5 DEF Max
<1>8. x \in Int /\ \A y \in S : y \in Int
  <2>1. x \in 0 .. n /\ \A y \in S : y \in 0 .. n
    BY <1>6
  <2> QED
    BY <2>1
<1> QED
  BY <1>6, <1>7, <1>8

\* Quotient and remainder are what a number is put together from.
LEMMA Quotient ==
  ASSUME NEW a \in Int, NEW n \in Nat \ {0}, NEW q \in Int, NEW r \in 0 .. n - 1, a = n * q + r
  PROVE  a \div n = q
OBVIOUS

LEMMA Remainder ==
  ASSUME NEW a \in Int, NEW n \in Nat \ {0}, NEW q \in Int, NEW r \in 0 .. n - 1, a = n * q + r
  PROVE  a % n = r
OBVIOUS

\* What lies within one turn of a ring has places of its own.
LEMMA PlacesApart ==
  ASSUME NEW w \in Nat \ {0}, NEW a \in Nat, NEW b \in Nat, a < b, b - a < w
  PROVE  a % w # b % w
<1>1. PICK q \in Int, r \in 0 .. w - 1 : a = w * q + r /\ a % w = r
  BY a \in Int, Division, Zenon
<1>2. PICK u \in Int, t \in 0 .. w - 1 : b = w * u + t /\ b % w = t
  BY b \in Int, Division, Zenon
<1> SUFFICES ASSUME r = t PROVE FALSE
  BY <1>1, <1>2
<1>3. w * q < w * u
  BY <1>1, <1>2
<1>4. w * q + w <= w * u
  BY <1>3, Multiples
<1> QED
  BY <1>1, <1>2, <1>4

\* The places of a ring: the next one, and the same one a turn ago.
LEMMA PlacesAround ==
  ASSUME NEW w \in Nat \ {0}, NEW a \in Nat
  PROVE  /\ a % w \in 0 .. w - 1
         /\ ((a % w) + 1) % w = (a + 1) % w
         /\ a >= w => (a - w) % w = a % w
<1>1. PICK q \in Int, r \in 0 .. w - 1 : a = w * q + r /\ a % w = r
  BY a \in Int, Division, Zenon
<1>2. ASSUME NEW x \in Int, NEW u \in Int, NEW t \in 0 .. w - 1, x = w * u + t PROVE x % w = t
  BY <1>2, Remainder
<1>3. a >= w => (a - w) % w = r
  <2>1. w * (q - 1) = w * q - w
    BY <1>1
  <2>2. a - w = w * (q - 1) + r
    BY <1>1, <2>1
  <2> QED
    BY <1>1, <1>2, <2>2
<1>4. (r + 1) % w = (a + 1) % w
  <2>1. CASE r + 1 < w
    <3>1. r + 1 = w * 0 + (r + 1) /\ a + 1 = w * q + (r + 1) /\ r + 1 \in 0 .. w - 1
      BY <1>1, <2>1
    <3>2. (r + 1) % w = r + 1
      BY <1>2, <3>1
    <3>3. (a + 1) % w = r + 1
      BY <1>1, <1>2, <3>1, a + 1 \in Int
    <3> QED
      BY <3>2, <3>3
  <2>2. CASE r + 1 = w
    <3>1. w * (q + 1) = w * q + w /\ w * 1 = w
      BY <1>1
    <3>2. r + 1 = w * 1 + 0 /\ a + 1 = w * (q + 1) + 0 /\ 0 \in 0 .. w - 1
      BY <1>1, <2>2, <3>1
    <3>3. (r + 1) % w = 0
      BY <1>2, <3>2
    <3>4. (a + 1) % w = 0
      BY <1>1, <1>2, <3>2
    <3> QED
      BY <3>3, <3>4
  <2> QED
    BY <1>1, <2>1, <2>2
<1> QED
  BY <1>1, <1>3, <1>4

\* A bound that is reached is the greatest element.
LEMMA MaxIs ==
  ASSUME NEW S \in SUBSET Int, NEW x \in S, \A y \in S : y <= x
  PROVE  Max(S) = x
<1>1. PICK m : m = CHOOSE y \in S : \A z \in S : y >= z
  OBVIOUS
<1>2. x \in S /\ \A z \in S : x >= z
  OBVIOUS
<1>3. m \in S /\ \A z \in S : m >= z
  BY <1>1, <1>2
<1>4. m = x
  BY <1>2, <1>3
<1> QED
  BY <1>1, <1>4, Zenon DEF Max

\* A bound that is reached is the least element.
LEMMA MinIs ==
  ASSUME NEW S \in SUBSET Int, NEW x \in S, \A y \in S : x <= y
  PROVE  Min(S) = x
<1>1. PICK m : m = CHOOSE y \in S : \A z \in S : y <= z
  OBVIOUS
<1>2. x \in S /\ \A z \in S : x <= z
  OBVIOUS
<1>3. m \in S /\ \A z \in S : m <= z
  BY <1>1, <1>2
<1>4. m = x
  BY <1>2, <1>3
<1> QED
  BY <1>1, <1>4, Zenon DEF Min

\* A set of numbers up to n, and n + 1.
LEMMA OneMore ==
  ASSUME NEW n \in Nat, NEW A \in SUBSET (1 .. n)
  PROVE  /\ IsFiniteSet(A) /\ Cardinality(A) \in 0 .. n
         /\ Cardinality(A \cup {n + 1}) = Cardinality(A) + 1
<1>1. IsFiniteSet(1 .. n) /\ Cardinality(1 .. n) = n
  BY FS_Interval, 1 \in Int, n \in Int
<1>2. IsFiniteSet(A) /\ Cardinality(A) <= Cardinality(1 .. n)
  BY <1>1, FS_Subset
<1>3. Cardinality(A) \in Nat
  BY <1>2, FS_CardinalityType
<1>4. n + 1 \notin A
  BY n + 1 \notin 1 .. n
<1>5. Cardinality(A \cup {n + 1}) = Cardinality(A) + 1
  BY <1>2, <1>4, FS_AddElement
<1> QED
  BY <1>1, <1>2, <1>3, <1>5

-----------------------------------------------------------------------------
(* Sequences *)

\* Where the pieces of a sequence of sequences begin when they are put one behind the other.
Beginnings(e, pieces) ==
  /\ e \in [0 .. Len(pieces) -> Nat] /\ e[0] = 0
  /\ \A v \in 1 .. Len(pieces) : e[v] = e[v - 1] + Len(pieces[v])

\* The pieces lie in s one behind the other.
LiesAt(s, e, pieces) ==
  \A v \in 1 .. Len(pieces) : \A i \in 1 .. Len(pieces[v]) : s[e[v - 1] + i] = pieces[v][i]

LEMMA FlattenLays ==
  ASSUME NEW S, NEW pieces \in Seq(Seq(S))
  PROVE  \E e : /\ Beginnings(e, pieces)
                /\ FlattenSeq(pieces) \in Seq(S)
                /\ Len(FlattenSeq(pieces)) = e[Len(pieces)]
                /\ LiesAt(FlattenSeq(pieces), e, pieces)
<1> DEFINE T == Seq(S)
           n == Len(pieces)
           F == [k \in Nat |-> [x \in T |-> IF k \in 1 .. n THEN x \o pieces[k] ELSE x]]
           Walk(f) == [i \in 1 .. n |-> IF i = 1 THEN pieces[i] ELSE f[i - 1] \o pieces[i]]
<1>1. n \in Nat /\ \A v \in 1 .. n : pieces[v] \in T
  BY LenProperties, ElementOfSeq
<1>2. FlattenSeq(pieces) = IF n = 0 THEN pieces ELSE (CHOOSE f : f = Walk(f))[n]
  BY DEF FlattenSeq
<1>3. <<>> \in T
  OBVIOUS
<1> HIDE DEF n
<1>4. \A k \in Nat : \A x \in T : F[k][x] = IF k \in 1 .. n THEN x \o pieces[k] ELSE x
  OBVIOUS
<1>5. StaysIn(F, T)
  <2>1. ASSUME NEW k \in Nat, NEW x \in T PROVE F[k][x] \in T
    <3>1. CASE k \in 1 .. n
      <4>1. x \o pieces[k] \in T
        BY <1>1, <3>1, ConcatProperties
      <4> QED
        BY <4>1
    <3> QED
      BY <3>1
  <2> QED
    BY <2>1 DEF StaysIn
<1> HIDE DEF F
<1>6. PICK g : StepsOf(g, T, <<>>, F, n)
  BY <1>1, <1>3, <1>5, RecursionDefines
<1> HIDE DEF T
<1>7. /\ g \in [0 .. n -> T] /\ g[0] = <<>>
      /\ \A k \in 1 .. n : g[k] = g[k - 1] \o pieces[k]
  <2>1. g \in [0 .. n -> T] /\ g[0] = <<>>
    BY <1>6 DEF StepsOf
  <2>2. ASSUME NEW k \in 1 .. n PROVE g[k] = g[k - 1] \o pieces[k]
    <3>1. k - 1 \in 0 .. n /\ k \in Nat
      BY <1>1
    <3>2. g[k] = F[k][g[k - 1]]
      BY <1>6 DEF StepsOf
    <3>3. g[k - 1] \in T
      BY <2>1, <3>1
    <3> QED
      BY <1>4, <3>1, <3>2, <3>3
  <2> QED
    BY <2>1, <2>2
<1>8. PICK f : f = [i \in 1 .. n |-> g[i]]
  OBVIOUS
<1>9. f = Walk(f)
  <2>1. ASSUME NEW i \in 1 .. n PROVE g[i] = IF i = 1 THEN pieces[i] ELSE f[i - 1] \o pieces[i]
    <3>1. CASE i = 1
      <4>1. <<>> \o pieces[i] = pieces[i]
        BY <1>1, ConcatEmptySeq DEF T
      <4> QED
        BY <1>1, <1>7, <3>1, <4>1, i - 1 = 0
    <3>2. CASE i # 1
      <4>1. i - 1 \in 1 .. n
        BY <1>1, <3>2
      <4> QED
        BY <1>7, <1>8, <3>2, <4>1
    <3> QED
      BY <3>1, <3>2
  <2> QED
    BY <1>8, <2>1
<1>10. PICK w : w = CHOOSE h : h = Walk(h)
  OBVIOUS
<1>11. w = Walk(w)
  BY <1>9, <1>10
<1>12. ASSUME n # 0 PROVE w[n] = g[n]
  <2> DEFINE Good == {k \in Nat : k \in 1 .. n => w[k] = g[k]}
  <2>1. 0 \in Good
    OBVIOUS
  <2>2. ASSUME NEW k \in Nat, k \in Good PROVE k + 1 \in Good
    <3> SUFFICES ASSUME k + 1 \in 1 .. n PROVE w[k + 1] = g[k + 1]
      OBVIOUS
    <3>1. PICK j \in 1 .. n : j = k + 1
      OBVIOUS
    <3>2. w[j] = IF j = 1 THEN pieces[j] ELSE w[j - 1] \o pieces[j]
      BY <1>11
    <3>3. g[j] = IF j = 1 THEN pieces[j] ELSE g[j - 1] \o pieces[j]
      <4>1. f[j] = IF j = 1 THEN pieces[j] ELSE f[j - 1] \o pieces[j]
        BY <1>9
      <4>2. j # 1 => f[j - 1] = g[j - 1]
        <5> SUFFICES ASSUME j # 1 PROVE f[j - 1] = g[j - 1]
          OBVIOUS
        <5>1. j - 1 \in 1 .. n
          BY <1>1
        <5> QED
          BY <1>8, <5>1
      <4> QED
        BY <1>8, <4>1, <4>2
    <3>4. j # 1 => w[j - 1] = g[j - 1]
      <4> SUFFICES ASSUME j # 1 PROVE w[j - 1] = g[j - 1]
        OBVIOUS
      <4>1. k \in 1 .. n /\ j - 1 = k
        BY <1>1, <3>1
      <4> QED
        BY <2>2, <4>1
    <3> QED
      BY <3>1, <3>2, <3>3, <3>4
  <2> HIDE DEF Good
  <2>3. \A k \in Nat : k \in Good
    BY <2>1, <2>2, StepByStep
  <2> QED
    BY <1>1, <1>12, <2>3 DEF Good
<1>13. FlattenSeq(pieces) = g[n]
  <2>1. CASE n = 0
    <3>1. pieces = <<>>
      BY <2>1, EmptySeq DEF n
    <3> QED
      BY <1>2, <1>7, <2>1, <3>1
  <2>2. CASE n # 0
    BY <1>2, <1>10, <1>12, <2>2
  <2> QED
    BY <2>1, <2>2
<1>14. PICK e : e = [k \in 0 .. n |-> Len(g[k])]
  OBVIOUS
<1>15. \A k \in 0 .. n : g[k] \in Seq(S) /\ Len(g[k]) \in Nat /\ e[k] = Len(g[k])
  BY <1>7, <1>14, LenProperties DEF T
<1>16. ASSUME NEW v \in 1 .. n
       PROVE  /\ v - 1 \in 0 .. n /\ v \in 0 .. n
              /\ e[v] = e[v - 1] + Len(pieces[v])
              /\ \A i \in 1 .. e[v - 1] : g[v][i] = g[v - 1][i]
              /\ \A i \in 1 .. Len(pieces[v]) : g[v][e[v - 1] + i] = pieces[v][i]
  <2>1. v - 1 \in 0 .. n /\ v \in 0 .. n
    BY <1>1
  <2>2. /\ g[v] = g[v - 1] \o pieces[v] /\ g[v - 1] \in Seq(S) /\ pieces[v] \in Seq(S)
        /\ e[v - 1] = Len(g[v - 1]) /\ e[v - 1] \in Nat /\ e[v] = Len(g[v])
        /\ Len(pieces[v]) \in Nat
    BY <1>1, <1>7, <1>15, <2>1, LenProperties DEF T
  <2>3. /\ Len(g[v]) = e[v - 1] + Len(pieces[v])
        /\ \A i \in 1 .. e[v - 1] + Len(pieces[v]) :
             g[v][i] = IF i <= e[v - 1] THEN g[v - 1][i] ELSE pieces[v][i - e[v - 1]]
    <3>1. PICK a \in Seq(S) : a = g[v - 1]
      BY <2>2
    <3>2. PICK b \in Seq(S) : b = pieces[v]
      BY <2>2
    <3>3. /\ Len(a \o b) = Len(a) + Len(b)
          /\ \A i \in 1 .. Len(a) + Len(b) :
               (a \o b)[i] = IF i <= Len(a) THEN a[i] ELSE b[i - Len(a)]
      BY ConcatProperties, Zenon
    <3> QED
      BY <2>2, <3>1, <3>2, <3>3, Zenon
  <2>4. ASSUME NEW i \in 1 .. Len(pieces[v]) PROVE g[v][e[v - 1] + i] = pieces[v][i]
    <3>1. PICK p \in Nat : p = e[v - 1]
      BY <2>2
    <3>2. PICK l \in Nat : l = Len(pieces[v])
      BY <2>2
    <3>3. i \in 1 .. l
      BY <3>2
    <3>4. p + i \in 1 .. p + l /\ ~(p + i <= p) /\ (p + i) - p = i
      BY <3>3
    <3>5. \A j \in 1 .. p + l : g[v][j] = IF j <= p THEN g[v - 1][j] ELSE pieces[v][j - p]
      BY <2>3, <3>1, <3>2
    <3> QED
      BY <3>1, <3>4, <3>5
  <2>5. ASSUME NEW i \in 1 .. e[v - 1] PROVE g[v][i] = g[v - 1][i]
    <3>1. PICK p \in Nat : p = e[v - 1]
      BY <2>2
    <3>2. PICK l \in Nat : l = Len(pieces[v])
      BY <2>2
    <3>3. i \in 1 .. p + l /\ i <= p
      BY <3>1, <3>2
    <3>4. \A j \in 1 .. p + l : g[v][j] = IF j <= p THEN g[v - 1][j] ELSE pieces[v][j - p]
      BY <2>3, <3>1, <3>2
    <3> QED
      BY <3>3, <3>4
  <2> QED
    BY <2>1, <2>2, <2>3, <2>4, <2>5
<1>17. Beginnings(e, pieces)
  <2>1. e[0] = 0
    BY <1>1, <1>7, <1>14
  <2>2. e \in [0 .. n -> Nat]
    BY <1>14, <1>15
  <2> QED
    BY <2>1, <2>2, <1>16 DEF Beginnings, n
<1>18. ASSUME NEW v \in 1 .. n, NEW i \in 1 .. Len(pieces[v])
       PROVE  g[n][e[v - 1] + i] = pieces[v][i]
  <2> DEFINE Good == {k \in Nat : v + k <= n =>
                        g[v + k][e[v - 1] + i] = pieces[v][i] /\ e[v - 1] + i <= e[v + k]}
  <2>0. e[v - 1] \in Nat /\ e[v] \in Nat /\ Len(pieces[v]) \in Nat /\ i \in Nat
    <3>1. v - 1 \in 0 .. n /\ v \in 0 .. n
      BY <1>16
    <3>2. e[v - 1] \in Nat /\ e[v] \in Nat
      BY <1>15, <3>1
    <3>3. Len(pieces[v]) \in Nat
      BY <1>1, LenProperties DEF T
    <3> QED
      BY <3>2, <3>3
  <2>1. 0 \in Good
    <3>1. g[v][e[v - 1] + i] = pieces[v][i] /\ e[v] = e[v - 1] + Len(pieces[v])
      BY <1>16
    <3>2. e[v - 1] + i <= e[v]
      BY <2>0, <3>1
    <3> QED
      BY <3>1, <3>2
  <2>2. ASSUME NEW k \in Nat, k \in Good PROVE k + 1 \in Good
    <3> SUFFICES ASSUME v + (k + 1) <= n
                 PROVE  /\ g[v + (k + 1)][e[v - 1] + i] = pieces[v][i]
                        /\ e[v - 1] + i <= e[v + (k + 1)]
      OBVIOUS
    <3>1. PICK u \in 1 .. n : u = v + (k + 1) /\ u - 1 = v + k
      BY <1>1
    <3>2. g[u - 1][e[v - 1] + i] = pieces[v][i] /\ e[v - 1] + i <= e[u - 1]
      BY <1>1, <2>2, <3>1
    <3>3. /\ e[u] = e[u - 1] + Len(pieces[u]) /\ e[u - 1] \in Nat /\ Len(pieces[u]) \in Nat
          /\ \A j \in 1 .. e[u - 1] : g[u][j] = g[u - 1][j]
      <4>1. Len(pieces[u]) \in Nat
        BY <1>1, LenProperties DEF T
      <4>2. u - 1 \in 0 .. n
        BY <1>16
      <4> QED
        BY <1>15, <1>16, <4>1, <4>2
    <3>4. PICK p \in Nat : p = e[v - 1] + i
      BY <2>0
    <3>5. PICK q \in Nat : q = e[u - 1]
      BY <3>3
    <3>6. p \in 1 .. q
      BY <2>0, <3>2, <3>4, <3>5
    <3>7. g[u][p] = pieces[v][i]
      BY <3>2, <3>3, <3>4, <3>5, <3>6
    <3>8. p <= e[u]
      BY <3>3, <3>5, <3>6
    <3> QED
      BY <3>1, <3>4, <3>7, <3>8
  <2> HIDE DEF Good
  <2>3. \A k \in Nat : k \in Good
    BY <2>1, <2>2, StepByStep
  <2>4. n - v \in Nat /\ v + (n - v) = n
    BY <1>1
  <2>5. n - v \in Good
    BY <2>3, <2>4
  <2>6. v + (n - v) <= n
    BY <1>1, <2>4
  <2> QED
    BY <2>4, <2>5, <2>6 DEF Good
<1>19. LiesAt(g[n], e, pieces)
  BY <1>18 DEF LiesAt, n
<1>20. Len(g[n]) = e[n] /\ g[n] \in Seq(S)
  BY <1>1, <1>15
<1> QED
  BY <1>13, <1>17, <1>19, <1>20 DEF n

-----------------------------------------------------------------------------
(* Sums over finite sets *)

Chooses(p, S) == \A s \in SUBSET S : s # {} => p[s] \in s

\* The sum of c over each subset, taken in the order in which p picks.
SumUp(g, c, p, S) == [s \in SUBSET S |-> IF s = {} THEN 0 ELSE g[s \ {p[s]}] + c[p[s]]]
Sums(g, c, p, S) == g = SumUp(g, c, p, S)

\* The sizes of a subset and of one with an element less.
LEMMA OneLess ==
  ASSUME NEW S, IsFiniteSet(S), NEW s \in SUBSET S
  PROVE  /\ Cardinality(s) \in Nat /\ Cardinality(s) <= Cardinality(S) /\ Cardinality(S) \in Nat
         /\ Cardinality(s) = 0 <=> s = {}
         /\ \A x \in s : s \ {x} \in SUBSET S /\ Cardinality(s \ {x}) = Cardinality(s) - 1
<1>1. IsFiniteSet(s) /\ Cardinality(s) <= Cardinality(S)
  BY FS_Subset
<1> QED
  BY <1>1, FS_CardinalityType, FS_EmptySet, FS_RemoveElement

\* The elements of each subset are folded in the order in which p picks, c[x] being what x does.
FoldUp(g, c, zero, p, S) ==
  [s \in SUBSET S |-> IF s = {} THEN zero ELSE c[p[s]][g[s \ {p[s]}]]]

Folded(g, c, zero, p, S, V) == g \in [SUBSET S -> V] /\ g = FoldUp(g, c, zero, p, S)

\* Every finite set has its fold.
LEMMA FoldExists ==
  ASSUME NEW S, IsFiniteSet(S), NEW V, NEW zero \in V, NEW c \in [S -> [V -> V]],
         NEW p, Chooses(p, S)
  PROVE  \E g : Folded(g, c, zero, p, S, V)
<1> DEFINE T == [SUBSET S -> V]
           base == [s \in SUBSET S |-> zero]
           F == [k \in Nat |-> [h \in T |-> FoldUp(h, c, zero, p, S)]]
<1>1. PICK n \in Nat : n = Cardinality(S)
  BY FS_CardinalityType
<1>2. \A s \in SUBSET S : s # {} => p[s] \in s /\ p[s] \in S /\ s \ {p[s]} \in SUBSET S
  BY DEF Chooses
<1>3. base \in T
  OBVIOUS
<1>4. StaysIn(F, T) /\ \A k \in Nat : \A h \in T : F[k][h] = FoldUp(h, c, zero, p, S)
  <2>1. \A h \in T : FoldUp(h, c, zero, p, S) \in T
    <3> SUFFICES ASSUME NEW h \in T PROVE FoldUp(h, c, zero, p, S) \in T
      OBVIOUS
    <3>1. ASSUME NEW s \in SUBSET S PROVE (IF s = {} THEN zero ELSE c[p[s]][h[s \ {p[s]}]]) \in V
      <4>1. CASE s = {}
        BY <4>1
      <4>2. CASE s # {}
        <5>1. h[s \ {p[s]}] \in V /\ c[p[s]] \in [V -> V]
          BY <1>2, <4>2
        <5> QED
          BY <4>2, <5>1
      <4> QED
        BY <4>1, <4>2
    <3> QED
      BY <3>1 DEF FoldUp
  <2> QED
    BY <2>1 DEF StaysIn
<1> HIDE DEF F, base
<1>5. PICK m \in Nat : m = n + 2 /\ n + 1 \in 0 .. m
  OBVIOUS
<1>6. PICK h : StepsOf(h, T, base, F, m)
  BY <1>3, <1>4, RecursionDefines
<1>7. /\ \A k \in 0 .. m : h[k] \in T
      /\ \A k \in 0 .. m - 1 : h[k + 1] = FoldUp(h[k], c, zero, p, S)
  <2>1. \A k \in 0 .. m : h[k] \in T
    BY <1>6 DEF StepsOf
  <2>2. ASSUME NEW k \in 0 .. m - 1 PROVE h[k + 1] = FoldUp(h[k], c, zero, p, S)
    <3>1. k + 1 \in 1 .. m /\ (k + 1) - 1 = k /\ k + 1 \in Nat /\ k \in 0 .. m
      BY <1>5
    <3>2. h[k + 1] = F[k + 1][h[k]]
      BY <1>6, <3>1 DEF StepsOf
    <3> QED
      BY <1>4, <2>1, <3>1, <3>2
  <2> QED
    BY <2>1, <2>2
<1> DEFINE Good == {k \in Nat : k + 2 <= m + 1 =>
                      \A s \in SUBSET S : Cardinality(s) < k => h[k + 1][s] = h[k][s]}
<1>8. 0 \in Good
  <2>1. \A s \in SUBSET S : ~(Cardinality(s) < 0)
    BY OneLess
  <2> QED
    BY <2>1
<1>9. ASSUME NEW k \in Nat, k \in Good PROVE k + 1 \in Good
  <2> SUFFICES ASSUME (k + 1) + 2 <= m + 1, NEW s \in SUBSET S, Cardinality(s) < k + 1
               PROVE  h[(k + 1) + 1][s] = h[k + 1][s]
    OBVIOUS
  <2>1. k \in 0 .. m - 1 /\ k + 1 \in 0 .. m - 1 /\ k + 2 <= m + 1
    BY <1>5
  <2>2. h[(k + 1) + 1] = FoldUp(h[k + 1], c, zero, p, S) /\ h[k + 1] = FoldUp(h[k], c, zero, p, S)
    BY <1>7, <2>1
  <2>3. CASE s = {}
    BY <2>2, <2>3 DEF FoldUp
  <2>4. CASE s # {}
    <3>1. p[s] \in s /\ s \ {p[s]} \in SUBSET S
      BY <1>2, <2>4
    <3>2. Cardinality(s \ {p[s]}) < k
      <4>1. PICK l \in Nat : l = Cardinality(s)
        BY OneLess
      <4>2. Cardinality(s \ {p[s]}) = l - 1
        BY <3>1, <4>1, OneLess
      <4> QED
        BY <4>1, <4>2
    <3>3. h[k + 1][s \ {p[s]}] = h[k][s \ {p[s]}]
      BY <1>9, <2>1, <3>1, <3>2
    <3>4. h[(k + 1) + 1][s] = c[p[s]][h[k + 1][s \ {p[s]}]]
      BY <2>2, <2>4, Zenon DEF FoldUp
    <3>5. h[k + 1][s] = c[p[s]][h[k][s \ {p[s]}]]
      BY <2>2, <2>4, Zenon DEF FoldUp
    <3> QED
      BY <3>3, <3>4, <3>5
  <2> QED
    BY <2>3, <2>4
<1> HIDE DEF Good
<1>10. \A k \in Nat : k \in Good
  BY <1>8, <1>9, StepByStep
<1>11. PICK g : g = h[n + 1]
  OBVIOUS
<1>12. h[(n + 1) + 1] = FoldUp(g, c, zero, p, S) /\ g \in T /\ h[(n + 1) + 1] \in T
  <2>1. n + 1 \in 0 .. m - 1 /\ n + 1 \in 0 .. m /\ (n + 1) + 1 \in 0 .. m
    BY <1>5
  <2> QED
    BY <1>7, <1>11, <2>1
<1>13. \A s \in SUBSET S : h[(n + 1) + 1][s] = g[s]
  <2> SUFFICES ASSUME NEW s \in SUBSET S PROVE h[(n + 1) + 1][s] = g[s]
    OBVIOUS
  <2>1. Cardinality(s) < n + 1
    BY <1>1, OneLess
  <2>2. n + 1 \in Good /\ (n + 1) + 2 <= m + 1 /\ n + 1 \in Nat
    BY <1>5, <1>10
  <2> QED
    BY <1>11, <2>1, <2>2 DEF Good
<1>14. h[(n + 1) + 1] = g
  BY <1>12, <1>13
<1> QED
  BY <1>12, <1>14 DEF Folded

\* A sum is a fold.
LEMMA SumExists ==
  ASSUME NEW S, IsFiniteSet(S), NEW c \in [S -> Int], NEW p, Chooses(p, S)
  PROVE  \E g : Sums(g, c, p, S)
<1>1. PICK f : f = [x \in S |-> [v \in Int |-> v + c[x]]]
  OBVIOUS
<1>2. f \in [S -> [Int -> Int]] /\ \A x \in S : \A v \in Int : f[x][v] = v + c[x]
  BY <1>1
<1>3. PICK g : Folded(g, f, 0, p, S, Int)
  <2>1. PICK V, zero : V = Int /\ zero = 0
    OBVIOUS
  <2>2. f \in [S -> [V -> V]] /\ zero \in V
    BY <1>2, <2>1
  <2>3. \E g : Folded(g, f, zero, p, S, V)
    BY <2>2, FoldExists, Zenon
  <2> QED
    BY <2>1, <2>3
<1>4. ASSUME NEW s \in SUBSET S, s # {} PROVE f[p[s]][g[s \ {p[s]}]] = g[s \ {p[s]}] + c[p[s]]
  <2>1. p[s] \in S /\ g[s \ {p[s]}] \in Int
    BY <1>3, <1>4 DEF Chooses, Folded
  <2> QED
    BY <1>2, <2>1
<1>5. \A s \in SUBSET S : g[s] = IF s = {} THEN 0 ELSE g[s \ {p[s]}] + c[p[s]]
  BY <1>3, <1>4 DEF FoldUp, Folded
<1>6. g = SumUp(g, c, p, S)
  BY <1>3, <1>5 DEF SumUp, Folded, FoldUp
<1> QED
  BY <1>6 DEF Sums

\* The order does not matter.
Adds(g, c, S) == \A s \in SUBSET S : \A x \in s : g[s] = g[s \ {x}] + c[x]

LEMMA SumAny ==
  ASSUME NEW S, IsFiniteSet(S), NEW c \in [S -> Int], NEW p, Chooses(p, S),
         NEW g, Sums(g, c, p, S)
  PROVE  g \in [SUBSET S -> Int] /\ g[{}] = 0 /\ Adds(g, c, S)
<1>1. \A s \in SUBSET S : g[s] = IF s = {} THEN 0 ELSE g[s \ {p[s]}] + c[p[s]]
  BY DEF Sums, SumUp
<1>2. \A s \in SUBSET S : s # {} => p[s] \in s /\ s \ {p[s]} \in SUBSET S /\ c[p[s]] \in Int
  BY DEF Chooses
<1> DEFINE Typed == {k \in Nat : \A s \in SUBSET S : Cardinality(s) = k => g[s] \in Int}
           Free == {k \in Nat : \A s \in SUBSET S : Cardinality(s) = k =>
                                  \A x \in s : g[s] = g[s \ {x}] + c[x]}
<1>3. \A s \in SUBSET S : g[s] \in Int
  <2>1. 0 \in Typed
    <3>1. \A s \in SUBSET S : Cardinality(s) = 0 => s = {}
      BY OneLess
    <3>2. g[{}] = 0
      BY <1>1
    <3> QED
      BY <3>1, <3>2
  <2>2. ASSUME NEW k \in Nat, k \in Typed PROVE k + 1 \in Typed
    <3> SUFFICES ASSUME NEW s \in SUBSET S, Cardinality(s) = k + 1 PROVE g[s] \in Int
      OBVIOUS
    <3>1. s # {}
      BY OneLess
    <3>2. p[s] \in s /\ s \ {p[s]} \in SUBSET S /\ c[p[s]] \in Int
      BY <1>2, <3>1
    <3>3. Cardinality(s \ {p[s]}) = k
      <4>1. Cardinality(s \ {p[s]}) = Cardinality(s) - 1
        BY <3>2, OneLess
      <4> QED
        BY <4>1
    <3>4. g[s \ {p[s]}] \in Int
      BY <2>2, <3>2, <3>3
    <3>5. g[s] = g[s \ {p[s]}] + c[p[s]]
      BY <1>1, <3>1
    <3> QED
      BY <3>2, <3>4, <3>5
  <2> HIDE DEF Typed
  <2>3. \A k \in Nat : k \in Typed
    BY <2>1, <2>2, StepByStep
  <2> QED
    BY <2>3, OneLess DEF Typed
<1>4. \A s \in SUBSET S : \A x \in s : g[s] = g[s \ {x}] + c[x]
  <2>1. 0 \in Free
    <3>1. \A s \in SUBSET S : Cardinality(s) = 0 => s = {}
      BY OneLess
    <3> QED
      BY <3>1
  <2>2. ASSUME NEW k \in Nat, k \in Free PROVE k + 1 \in Free
    <3> SUFFICES ASSUME NEW s \in SUBSET S, Cardinality(s) = k + 1, NEW x \in s
                 PROVE  g[s] = g[s \ {x}] + c[x]
      OBVIOUS
    <3>1. PICK y : y = p[s]
      OBVIOUS
    <3>2. /\ y \in s /\ s \ {y} \in SUBSET S /\ s \ {x} \in SUBSET S /\ c[y] \in Int /\ c[x] \in Int
          /\ g[s] = g[s \ {y}] + c[y]
      BY <1>1, <1>2, <3>1
    <3>3. CASE x = y
      BY <3>2, <3>3
    <3>4. CASE x # y
      <4>1. x \in s \ {y} /\ y \in s \ {x} /\ (s \ {y}) \ {x} = (s \ {x}) \ {y}
        BY <3>2, <3>4
      <4>2. Cardinality(s \ {y}) = k /\ Cardinality(s \ {x}) = k
        <5>1. \A z \in s : s \ {z} \in SUBSET S /\ Cardinality(s \ {z}) = Cardinality(s) - 1
          BY OneLess, Zenon
        <5>2. (k + 1) - 1 = k
          OBVIOUS
        <5>3. Cardinality(s) - 1 = k
          BY <5>2
        <5> QED
          BY <3>2, <5>1, <5>3, Zenon
      <4>3. /\ g[s \ {y}] = g[(s \ {y}) \ {x}] + c[x]
            /\ g[s \ {x}] = g[(s \ {x}) \ {y}] + c[y]
        BY <2>2, <3>2, <4>1, <4>2
      <4>4. PICK z \in Int : z = g[(s \ {x}) \ {y}] /\ z = g[(s \ {y}) \ {x}]
        BY <1>3, <3>2, <4>1
      <4>5. PICK a \in Int, b \in Int : a = c[x] /\ b = c[y]
        BY <3>2
      <4>6. g[s \ {y}] = z + a /\ g[s \ {x}] = z + b /\ g[s] = g[s \ {y}] + b
        BY <3>2, <4>3, <4>4, <4>5
      <4>7. g[s] = (z + a) + b /\ g[s \ {x}] + a = (z + b) + a
        BY <4>6
      <4>8. (z + a) + b = (z + b) + a
        OBVIOUS
      <4> QED
        BY <4>5, <4>7, <4>8
    <3> QED
      BY <3>3, <3>4
  <2> HIDE DEF Free
  <2>3. \A k \in Nat : k \in Free
    BY <2>1, <2>2, StepByStep
  <2> SUFFICES ASSUME NEW s \in SUBSET S, NEW x \in s PROVE g[s] = g[s \ {x}] + c[x]
    OBVIOUS
  <2>4. PICK k \in Nat : k = Cardinality(s)
    BY OneLess
  <2>5. k \in Free
    BY <2>3
  <2> QED
    BY <2>4, <2>5 DEF Free
<1>5. g[{}] = 0 /\ g = [s \in SUBSET S |-> g[s]]
  BY <1>1 DEF Sums, SumUp
<1>6. Adds(g, c, S)
  BY <1>4 DEF Adds
<1> QED
  BY <1>3, <1>5, <1>6

\* What holds of a set once it holds of what is left when any one element is taken from it.
LEMMA EverySubset ==
  ASSUME NEW S, IsFiniteSet(S), NEW G, {} \in G,
         \A s \in SUBSET S : s # {} /\ (\A x \in s : s \ {x} \in G) => s \in G
  PROVE  \A s \in SUBSET S : s \in G
<1> DEFINE Good == {k \in Nat : \A s \in SUBSET S : Cardinality(s) = k => s \in G}
<1>1. 0 \in Good
  <2>1. \A s \in SUBSET S : Cardinality(s) = 0 => s = {}
    BY OneLess
  <2> QED
    BY <2>1
<1>2. ASSUME NEW k \in Nat, k \in Good PROVE k + 1 \in Good
  <2> SUFFICES ASSUME NEW s \in SUBSET S, Cardinality(s) = k + 1 PROVE s \in G
    OBVIOUS
  <2>1. s # {}
    BY OneLess
  <2>2. ASSUME NEW x \in s PROVE s \ {x} \in G
    <3>1. s \ {x} \in SUBSET S /\ Cardinality(s \ {x}) = Cardinality(s) - 1
      BY OneLess
    <3>2. Cardinality(s \ {x}) = k
      BY <3>1
    <3> QED
      BY <1>2, <3>1, <3>2
  <2> QED
    BY <2>1, <2>2
<1> HIDE DEF Good
<1>3. \A k \in Nat : k \in Good
  BY <1>1, <1>2, StepByStep
<1> SUFFICES ASSUME NEW s \in SUBSET S PROVE s \in G
  OBVIOUS
<1>4. PICK k \in Nat : k = Cardinality(s)
  BY OneLess
<1>5. k \in Good
  BY <1>3
<1> QED
  BY <1>4, <1>5 DEF Good

\* A nonempty finite set of numbers has a greatest element.
LEMMA GreatestExists ==
  ASSUME NEW A \in SUBSET Int, IsFiniteSet(A), A # {}
  PROVE  \E m \in A : \A y \in A : y <= m
<1> DEFINE G == {s \in SUBSET A : s # {} => \E m \in s : \A y \in s : y <= m}
<1>1. {} \in G
  OBVIOUS
<1>2. ASSUME NEW s \in SUBSET A, NEW x \in s, s \ {x} \in G PROVE s \in G
  <2>1. CASE s \ {x} = {}
    <3>1. \A y \in s : y = x
      BY <2>1
    <3> QED
      BY <3>1
  <2>2. CASE s \ {x} # {}
    <3>1. PICK m \in s \ {x} : \A y \in s \ {x} : y <= m
      BY <1>2, <2>2
    <3>2. CASE x <= m
      BY <3>1, <3>2
    <3>3. CASE ~(x <= m)
      <4>1. \A y \in s : y <= x
        BY <3>1, <3>3
      <4> QED
        BY <4>1
    <3> QED
      BY <3>2, <3>3
  <2> QED
    BY <2>1, <2>2
<1> HIDE DEF G
<1>3. \A s \in SUBSET A : s \in G
  <2>1. ASSUME NEW s \in SUBSET A, s # {}, \A x \in s : s \ {x} \in G PROVE s \in G
    BY <1>2, <2>1
  <2> QED
    BY <1>1, <2>1, EverySubset
<1>4. A \in G
  BY <1>3
<1> QED
  BY <1>4 DEF G

\* g[s] is the sum of c over s, for every subset s.
IsSum(g, c, S) == g \in [SUBSET S -> Int] /\ g[{}] = 0 /\ Adds(g, c, S)

SumOver(c, S) == (CHOOSE g : IsSum(g, c, S))[S]

\* There is but one sum.
LEMMA SumUnique ==
  ASSUME NEW S, IsFiniteSet(S), NEW c \in [S -> Int], NEW g, IsSum(g, c, S)
  PROVE  SumOver(c, S) = g[S]
<1>1. PICK h : h = CHOOSE f : IsSum(f, c, S)
  OBVIOUS
<1>2. IsSum(h, c, S)
  BY <1>1
<1> DEFINE G == {s \in SUBSET S : h[s] = g[s]}
<1>3. {} \in G
  BY <1>2 DEF IsSum
<1>4. ASSUME NEW s \in SUBSET S, NEW x \in s, s \ {x} \in G PROVE s \in G
  <2>1. h[s] = h[s \ {x}] + c[x] /\ g[s] = g[s \ {x}] + c[x]
    BY <1>2 DEF IsSum, Adds
  <2> QED
    BY <1>4, <2>1
<1> HIDE DEF G
<1>5. \A s \in SUBSET S : s \in G
  <2>1. ASSUME NEW s \in SUBSET S, s # {}, \A x \in s : s \ {x} \in G PROVE s \in G
    BY <1>4, <2>1
  <2> QED
    BY <1>3, <2>1, EverySubset
<1>6. h[S] = g[S]
  BY <1>5 DEF G
<1> QED
  BY <1>1, <1>6 DEF SumOver

\* Every finite set has its sum.
LEMMA SumIs ==
  ASSUME NEW S, IsFiniteSet(S), NEW c \in [S -> Int]
  PROVE  \E g : IsSum(g, c, S) /\ SumOver(c, S) = g[S]
<1>1. PICK p : p = [s \in SUBSET S |-> CHOOSE x \in s : TRUE]
  OBVIOUS
<1>2. Chooses(p, S)
  BY <1>1 DEF Chooses
<1>3. PICK g : Sums(g, c, p, S)
  BY <1>2, SumExists
<1>4. IsSum(g, c, S)
  BY <1>2, <1>3, SumAny DEF IsSum
<1> QED
  BY <1>4, SumUnique

\* Sums of integers are integers.
LEMMA SumType ==
  ASSUME NEW S, IsFiniteSet(S), NEW c \in [S -> Int]
  PROVE  SumOver(c, S) \in Int
<1>1. PICK g : IsSum(g, c, S) /\ SumOver(c, S) = g[S]
  BY SumIs
<1> QED
  BY <1>1 DEF IsSum

\* Larger terms have the larger sum.
LEMMA SumMonotone ==
  ASSUME NEW S, IsFiniteSet(S), NEW c \in [S -> Int], NEW d \in [S -> Int],
         \A x \in S : c[x] <= d[x]
  PROVE  SumOver(c, S) <= SumOver(d, S)
<1>1. PICK g : IsSum(g, c, S) /\ SumOver(c, S) = g[S]
  BY SumIs
<1>2. PICK h : IsSum(h, d, S) /\ SumOver(d, S) = h[S]
  BY d \in [S -> Int], SumIs, Zenon
<1> DEFINE G == {s \in SUBSET S : g[s] <= h[s]}
<1>3. {} \in G
  BY <1>1, <1>2 DEF IsSum
<1>4. ASSUME NEW s \in SUBSET S, NEW x \in s, s \ {x} \in G PROVE s \in G
  <2>1. PICK a \in Int, b \in Int : a = g[s \ {x}] /\ b = h[s \ {x}]
    BY <1>1, <1>2 DEF IsSum
  <2>2. PICK m \in Int, n \in Int : m = c[x] /\ n = d[x] /\ m <= n
    OBVIOUS
  <2>3. g[s] = a + m /\ h[s] = b + n
    BY <1>1, <1>2, <2>1, <2>2 DEF IsSum, Adds
  <2> QED
    BY <1>4, <2>1, <2>2, <2>3
<1> HIDE DEF G
<1>5. \A s \in SUBSET S : s \in G
  <2>1. ASSUME NEW s \in SUBSET S, s # {}, \A x \in s : s \ {x} \in G PROVE s \in G
    BY <1>4, <2>1
  <2> QED
    BY <1>3, <2>1, EverySubset
<1> QED
  BY <1>1, <1>2, <1>5 DEF G

\* A factor of every term is a factor of the sum.
LEMMA SumScaled ==
  ASSUME NEW S, IsFiniteSet(S), NEW c \in [S -> Int], NEW k \in Int,
         NEW d \in [S -> Int], \A x \in S : d[x] = k * c[x]
  PROVE  SumOver(d, S) = k * SumOver(c, S)
<1>1. PICK g : IsSum(g, c, S) /\ SumOver(c, S) = g[S]
  BY SumIs
<1>2. PICK h : h = [s \in SUBSET S |-> k * g[s]]
  OBVIOUS
<1>3. \A s \in SUBSET S : g[s] \in Int /\ h[s] = k * g[s] /\ h[s] \in Int
  BY <1>1, <1>2 DEF IsSum
<1>4. Adds(h, d, S)
  <2> SUFFICES ASSUME NEW s \in SUBSET S, NEW x \in s PROVE h[s] = h[s \ {x}] + d[x]
    BY DEF Adds
  <2>1. PICK a \in Int, m \in Int : a = g[s \ {x}] /\ m = c[x]
    BY <1>3
  <2>2. g[s] = a + m /\ d[x] = k * m /\ h[s \ {x}] = k * a
    BY <1>1, <1>3, <2>1 DEF IsSum, Adds
  <2>3. h[s] = k * (a + m)
    BY <1>3, <2>2
  <2>4. k * (a + m) = k * a + k * m
    OBVIOUS
  <2> QED
    BY <2>2, <2>3, <2>4
<1>5. IsSum(h, d, S)
  <2>1. h[{}] = 0
    BY <1>1, <1>3 DEF IsSum
  <2> QED
    BY <1>2, <1>3, <1>4, <2>1 DEF IsSum
<1>6. SumOver(d, S) = h[S]
  BY <1>5, d \in [S -> Int], SumUnique, Zenon
<1> QED
  BY <1>1, <1>3, <1>6

\* A sum of which one term changes.
LEMMA SumChanged ==
  ASSUME NEW S, IsFiniteSet(S), NEW c \in [S -> Int], NEW d \in [S -> Int],
         NEW y \in S, \A x \in S \ {y} : c[x] = d[x]
  PROVE  SumOver(d, S) + c[y] = SumOver(c, S) + d[y]
<1>1. PICK g : IsSum(g, c, S) /\ SumOver(c, S) = g[S]
  BY SumIs
<1>2. PICK h : IsSum(h, d, S) /\ SumOver(d, S) = h[S]
  BY d \in [S -> Int], SumIs, Zenon
<1> DEFINE G == {s \in SUBSET S : y \notin s => g[s] = h[s]}
<1>3. {} \in G
  BY <1>1, <1>2 DEF IsSum
<1>4. ASSUME NEW s \in SUBSET S, NEW x \in s, s \ {x} \in G PROVE s \in G
  <2>1. CASE y \in s
    BY <2>1
  <2>2. CASE y \notin s
    <3>1. g[s \ {x}] = h[s \ {x}] /\ c[x] = d[x]
      BY <1>4, <2>2
    <3>2. g[s] = g[s \ {x}] + c[x] /\ h[s] = h[s \ {x}] + d[x]
      BY <1>1, <1>2 DEF IsSum, Adds
    <3> QED
      BY <3>1, <3>2
  <2> QED
    BY <2>1, <2>2
<1> HIDE DEF G
<1>5. \A s \in SUBSET S : s \in G
  <2>1. ASSUME NEW s \in SUBSET S, s # {}, \A x \in s : s \ {x} \in G PROVE s \in G
    BY <1>4, <2>1
  <2> QED
    BY <1>3, <2>1, EverySubset
<1>6. S \ {y} \in SUBSET S /\ g[S \ {y}] = h[S \ {y}]
  BY <1>5 DEF G
<1>7. PICK a \in Int, m \in Int, n \in Int : a = g[S \ {y}] /\ m = c[y] /\ n = d[y]
  BY <1>1, <1>6 DEF IsSum
<1>8. g[S] = a + m /\ h[S] = a + n
  BY <1>1, <1>2, <1>6, <1>7 DEF IsSum, Adds
<1> QED
  BY <1>1, <1>2, <1>7, <1>8

\* Terms that are all zero.
LEMMA SumOfNone ==
  ASSUME NEW S, IsFiniteSet(S), NEW c \in [S -> Int], \A x \in S : c[x] = 0
  PROVE  SumOver(c, S) = 0
<1>1. PICK g : IsSum(g, c, S) /\ SumOver(c, S) = g[S]
  BY SumIs
<1>2. SumOver(c, S) = 0 * SumOver(c, S)
  BY c \in [S -> Int], 0 \in Int, \A x \in S : c[x] = 0 * c[x], SumScaled
<1> QED
  BY <1>2, SumType

\* No term is more than the sum of terms that are not negative.
LEMMA SumBounds ==
  ASSUME NEW S, IsFiniteSet(S), NEW c \in [S -> Int], \A x \in S : 0 <= c[x], NEW y \in S
  PROVE  c[y] <= SumOver(c, S)
<1>1. PICK z : z = [x \in S |-> 0]
  OBVIOUS
<1>2. PICK d : d = [x \in S |-> IF x = y THEN c[y] ELSE 0]
  OBVIOUS
<1>3. /\ z \in [S -> Int] /\ d \in [S -> Int] /\ \A x \in S : d[x] <= c[x]
      /\ \A x \in S \ {y} : z[x] = d[x]
      /\ \A x \in S : z[x] = 0
      /\ d[y] = c[y] /\ z[y] = 0
  BY <1>1, <1>2
<1>4. SumOver(z, S) = 0
  BY <1>3, SumOfNone
<1>5. SumOver(d, S) + z[y] = SumOver(z, S) + d[y]
  BY <1>3, SumChanged
<1>6. SumOver(d, S) <= SumOver(c, S)
  BY <1>3, SumMonotone
<1>7. PICK a \in Int, b \in Int, e \in Int : a = c[y] /\ b = SumOver(c, S) /\ e = SumOver(d, S)
  BY <1>3, SumType
<1> QED
  BY <1>3, <1>4, <1>5, <1>6, <1>7

\* What FoldFunction adds up, in an order that nothing says, is the sum.
LEMMA FunctionTotal ==
  ASSUME NEW S, IsFiniteSet(S), NEW c \in [S -> Int]
  PROVE  FoldFunction(+, 0, c) = SumOver(c, S)
<1> DEFINE Pick(s) == CHOOSE x \in s : TRUE
           Body(g) == [s \in SUBSET S |-> IF s = {} THEN 0
                         ELSE LET x == Pick(s) IN c[x] + g[s \ {x}]]
           iter == CHOOSE g : g = Body(g)
<1>0. DOMAIN c = S
  OBVIOUS
<1>1. FoldFunction(+, 0, c) = iter[S]
  BY <1>0, Zenon DEF FoldFunction, FoldFunctionOnSet, MapThenFoldSet
<1> HIDE DEF Pick
<1>2. ASSUME NEW s, s # {} PROVE Pick(s) \in s
  BY <1>2 DEF Pick
<1>5. PICK g : IsSum(g, c, S) /\ SumOver(c, S) = g[S]
  BY SumIs
<1>6. ASSUME NEW s \in SUBSET S, s # {}
      PROVE  /\ s \ {Pick(s)} \in SUBSET S /\ Pick(s) \in s
             /\ g[s] = c[Pick(s)] + g[s \ {Pick(s)}]
  <2>1. PICK x : x = Pick(s) /\ x \in s /\ x \in S
    BY <1>2, <1>6
  <2>2. s \ {x} \in SUBSET S
    OBVIOUS
  <2>3. PICK a \in Int, b \in Int : a = g[s \ {x}] /\ b = c[x]
    BY <1>5, <2>1, <2>2 DEF IsSum
  <2>4. g[s] = a + b
    BY <1>5, <2>1, <2>3 DEF IsSum, Adds
  <2>5. a + b = b + a
    OBVIOUS
  <2> QED
    BY <2>1, <2>2, <2>3, <2>4, <2>5
<1>7. g = Body(g)
  <2>1. \A s \in SUBSET S : g[s] = IF s = {} THEN 0 ELSE c[Pick(s)] + g[s \ {Pick(s)}]
    BY <1>5, <1>6 DEF IsSum
  <2>2. g = [s \in SUBSET S |-> g[s]]
    BY <1>5 DEF IsSum
  <2> QED
    BY <2>1, <2>2
<1> HIDE DEF Body
<1>8. iter = Body(iter)
  BY <1>7
<1> HIDE DEF iter
<1>9. \A s \in SUBSET S : iter[s] = IF s = {} THEN 0 ELSE c[Pick(s)] + iter[s \ {Pick(s)}]
  BY <1>8 DEF Body
<1> DEFINE G == {s \in SUBSET S : iter[s] = g[s]}
<1>10. {} \in G
  BY <1>5, <1>9 DEF IsSum
<1>11. ASSUME NEW s \in SUBSET S, s # {}, \A x \in s : s \ {x} \in G PROVE s \in G
  <2>1. iter[s \ {Pick(s)}] = g[s \ {Pick(s)}]
    BY <1>6, <1>11
  <2>2. iter[s] = c[Pick(s)] + iter[s \ {Pick(s)}]
    BY <1>9, <1>11
  <2> QED
    BY <1>6, <1>11, <2>1, <2>2
<1> HIDE DEF G
<1>12. \A s \in SUBSET S : s \in G
  BY <1>10, <1>11, EverySubset
<1>13. iter[S] = g[S]
  BY <1>12 DEF G
<1> QED
  BY <1>1, <1>5, <1>13

\* How many of the numbers up to n there are in a set, and in a larger one.
LEMMA CountUpTo ==
  ASSUME NEW n \in Nat, NEW A \in SUBSET (1 .. n), NEW B \in SUBSET A
  PROVE  /\ Cardinality(A) \in 0 .. n /\ Cardinality(B) \in 0 .. n
         /\ Cardinality(B) <= Cardinality(A)
         /\ Cardinality(A) > 0 <=> A # {}
<1>1. IsFiniteSet(A) /\ Cardinality(A) \in 0 .. n /\ IsFiniteSet(B) /\ Cardinality(B) \in 0 .. n
  BY OneMore
<1>2. Cardinality(B) <= Cardinality(A)
  BY <1>1, FS_Subset
<1>3. Cardinality(A) = 0 <=> A = {}
  BY <1>1, FS_EmptySet
<1>4. PICK a \in 0 .. n, b \in 0 .. n : a = Cardinality(A) /\ b = Cardinality(B)
  BY <1>1
<1>5. a >= 0 /\ (a = 0 <=> A = {})
  BY <1>3, <1>4
<1>6. a > 0 <=> A # {}
  <2>1. a > 0 <=> a # 0
    BY <1>5
  <2> QED
    BY <1>5, <2>1, Zenon
<1> QED
  BY <1>2, <1>4, <1>6

\* A sum of which one term grows by one.
LEMMA SumOneMore ==
  ASSUME NEW S, IsFiniteSet(S), NEW c \in [S -> Int], NEW d \in [S -> Int], NEW y \in S,
         \A x \in S \ {y} : c[x] = d[x], d[y] = c[y] + 1
  PROVE  SumOver(d, S) = SumOver(c, S) + 1
<1>1. SumOver(d, S) + c[y] = SumOver(c, S) + d[y]
  BY SumChanged
<1>2. PICK a \in Int, b \in Int, m \in Int :
        a = SumOver(d, S) /\ b = SumOver(c, S) /\ m = c[y]
  BY SumType
<1>3. a + m = b + (m + 1)
  BY <1>1, <1>2
<1> QED
  BY <1>2, <1>3

-----------------------------------------------------------------------------
(* Periodic work *)

\* A number in terms of its quotient and remainder.
LEMMA Parts ==
  ASSUME NEW n \in Nat, NEW p \in Nat \ {0}
  PROVE  \E q \in Int, r \in 0 .. p - 1 : n = p * q + r /\ n \div p = q /\ n % p = r
<1>1. PICK q \in Int, r \in 0 .. p - 1 : n = p * q + r
  BY n \in Int, Division, ZenonT(60)
<1>2. n \div p = q /\ n % p = r
  BY <1>1, Quotient, n \in Int
<1> QED
  BY <1>1, <1>2

\* How often a period fits into n ticks.
LEMMA Fits ==
  ASSUME NEW n \in Nat, NEW p \in Nat \ {0}
  PROVE  /\ n \div p \in Nat /\ p * (n \div p) <= n
         /\ n < p => n \div p = 0
         /\ n >= p => n \div p = 1 + (n - p) \div p
<1>1. PICK q \in Int, r \in 0 .. p - 1 : n = p * q + r
  BY Parts, ZenonT(60)
<1>2. n \div p = q
  BY <1>1, Quotient
<1>3. q \in Nat
  <2>1. CASE q < 0
    <3>1. p * (-1 - q) \in Nat
      BY <2>1
    <3>2. p * (-1 - q) = -p - p * q
      BY <1>1
    <3> QED
      BY <1>1, <3>1, <3>2
  <2> QED
    BY <2>1
<1>4. p * q <= n
  BY <1>1
<1>5. n < p => q = 0
  <2> SUFFICES ASSUME n < p, q >= 1 PROVE FALSE
    BY <1>3
  <2>1. p * (q - 1) \in Nat
    BY <1>3
  <2>2. p * (q - 1) = p * q - p
    BY <1>3
  <2> QED
    BY <1>1, <2>1, <2>2
<1>6. n >= p => (n - p) \div p = q - 1
  <2> SUFFICES ASSUME n >= p PROVE (n - p) \div p = q - 1
    OBVIOUS
  <2>1. p * (q - 1) = p * q - p
    BY <1>3
  <2>2. n - p = p * (q - 1) + r /\ n - p \in Int /\ q - 1 \in Int
    BY <1>1, <2>1
  <2> QED
    BY <1>1, <2>2, Quotient
<1> QED
  BY <1>2, <1>3, <1>4, <1>5, <1>6

\* A division that rounds up.
LEMMA RoundsUp ==
  ASSUME NEW y \in Nat \ {0}, NEW p \in Nat \ {0}
  PROVE  /\ (y + (p - 1)) \div p = 1 + (y - 1) \div p
         /\ \A z \in Nat : z < y => 1 + z \div p <= (y + (p - 1)) \div p
<1>1. PICK n \in Nat : n = y + (p - 1) /\ n >= p /\ n - p = y - 1
  OBVIOUS
<1>2. n \div p = 1 + (n - p) \div p
  BY <1>1, Fits
<1>3. ASSUME NEW z \in Nat, z < y PROVE z \div p <= (y - 1) \div p
  <2>1. PICK m \in Nat : m = y - 1 /\ z <= m
    BY <1>3
  <2>2. PICK q \in Int, r \in 0 .. p - 1 : m = p * q + r /\ m \div p = q
    BY Parts, ZenonT(60)
  <2>3. PICK i \in Int, j \in 0 .. p - 1 : z = p * i + j /\ z \div p = i
    BY Parts, ZenonT(60)
  <2>4. ASSUME q < i PROVE FALSE
    <3>1. p * (i - (q + 1)) \in Nat
      BY <2>4
    <3>2. p * (i - (q + 1)) = p * i - p * q - p
      OBVIOUS
    <3> QED
      BY <2>1, <2>2, <2>3, <3>1, <3>2
  <2> QED
    BY <2>1, <2>2, <2>3, <2>4
<1>4. (y - 1) \div p \in Nat
  BY y - 1 \in Nat, Fits
<1>5. ASSUME NEW z \in Nat PROVE z \div p \in Nat
  BY Fits
<1> QED
  BY <1>1, <1>2, <1>3, <1>4, <1>5

\* The product of a set of numbers is a multiple of each.
LEMMA ProductDivides ==
  ASSUME NEW A \in SUBSET (Nat \ {0}), IsFiniteSet(A)
  PROVE  ProductSet(A) \in Nat \ {0} /\ \A a \in A : \E q \in Nat : ProductSet(A) = a * q
<1> DEFINE Pick(s) == CHOOSE x \in s : TRUE
           Body(g) == [s \in SUBSET A |-> IF s = {} THEN 1
                         ELSE LET x == Pick(s) IN x * g[s \ {x}]]
           iter == CHOOSE g : g = Body(g)
           p == [s \in SUBSET A |-> Pick(s)]
           c == [x \in A |-> [v \in Nat \ {0} |-> x * v]]
<1>1. ProductSet(A) = iter[A]
  BY Zenon DEF ProductSet, FoldSet, MapThenFoldSet
<1>2. ASSUME NEW s \in SUBSET A, s # {} PROVE Pick(s) \in s
  BY <1>2
<1> HIDE DEF Pick
<1>3. Chooses(p, A)
  BY <1>2 DEF Chooses
<1>4. c \in [A -> [Nat \ {0} -> Nat \ {0}]] /\ \A x \in A : \A v \in Nat \ {0} : c[x][v] = x * v
  <2>1. \A x \in A : \A v \in Nat \ {0} : x * v \in Nat \ {0}
    OBVIOUS
  <2> QED
    BY <2>1
<1> HIDE DEF c
<1>5. PICK g : g \in [SUBSET A -> Nat \ {0}] /\ g = FoldUp(g, c, 1, p, A)
  <2>1. PICK V, one : V = Nat \ {0} /\ one = 1
    OBVIOUS
  <2>2. c \in [A -> [V -> V]] /\ one \in V
    BY <1>4, <2>1
  <2>3. \E g : Folded(g, c, one, p, A, V)
    BY <1>3, <2>2, FoldExists, Zenon
  <2> QED
    BY <2>1, <2>3 DEF Folded
<1>6. ASSUME NEW h, NEW s \in SUBSET A, s # {}, h \in [SUBSET A -> Nat \ {0}]
      PROVE  /\ Pick(s) \in A /\ p[s] = Pick(s) /\ h[s \ {Pick(s)}] \in Nat \ {0}
             /\ c[p[s]][h[s \ {p[s]}]] = Pick(s) * h[s \ {Pick(s)}]
  <2>1. Pick(s) \in A /\ p[s] = Pick(s) /\ h[s \ {Pick(s)}] \in Nat \ {0}
    BY <1>2, <1>6
  <2> HIDE DEF p
  <2> QED
    BY <1>4, <2>1
<1>7. g = Body(g)
  <2>1. \A s \in SUBSET A : g[s] = IF s = {} THEN 1 ELSE c[p[s]][g[s \ {p[s]}]]
    BY <1>5 DEF FoldUp
  <2>2. \A s \in SUBSET A : g[s] = IF s = {} THEN 1 ELSE Pick(s) * g[s \ {Pick(s)}]
    BY <1>5, <1>6, <2>1
  <2> HIDE DEF p
  <2> QED
    BY <1>5, <2>2
<1> HIDE DEF Body
<1>8. iter = Body(iter)
  BY <1>7
<1> HIDE DEF iter
<1>9. \A s \in SUBSET A : iter[s] = IF s = {} THEN 1 ELSE Pick(s) * iter[s \ {Pick(s)}]
  BY <1>8 DEF Body
<1> DEFINE Divided(s) == iter[s] \in Nat \ {0} /\ \A a \in s : \E q \in Nat : iter[s] = a * q
           K == {k \in Nat : \A s \in SUBSET A : Cardinality(s) = k => Divided(s)}
<1>10. 0 \in K
  <2>1. ASSUME NEW s \in SUBSET A, Cardinality(s) = 0 PROVE Divided(s)
    <3>1. s = {}
      BY <2>1, OneLess
    <3>2. iter[s] = 1
      BY <1>9, <3>1
    <3> QED
      BY <3>1, <3>2
  <2> HIDE DEF Divided
  <2> QED
    BY <2>1
<1>11. ASSUME NEW k \in Nat, k \in K PROVE k + 1 \in K
  <2>1. ASSUME NEW s \in SUBSET A, Cardinality(s) = k + 1 PROVE Divided(s)
    <3>1. s # {}
      BY <2>1, OneLess
    <3>2. PICK x : x = Pick(s) /\ x \in s /\ x \in Nat \ {0}
      BY <1>2, <3>1
    <3>3. s \ {x} \in SUBSET A /\ Cardinality(s \ {x}) = k
      <4>1. \A y \in s : s \ {y} \in SUBSET A /\ Cardinality(s \ {y}) = Cardinality(s) - 1
        BY OneLess, Zenon
      <4>2. (k + 1) - 1 = k
        OBVIOUS
      <4> QED
        BY <2>1, <3>2, <4>1, <4>2, Zenon
    <3>4. Divided(s \ {x})
      BY <1>11, <3>3
    <3>5. PICK v \in Nat \ {0} : v = iter[s \ {x}] /\ iter[s] = x * v
      BY <1>9, <3>1, <3>2, <3>4
    <3>6. x * v \in Nat \ {0}
      BY <3>2, <3>5
    <3>7. ASSUME NEW a \in s PROVE \E q \in Nat : x * v = a * q
      <4>1. CASE a = x
        BY <4>1
      <4>2. CASE a # x
        <5>1. PICK q \in Nat : v = a * q
          BY <3>4, <3>5, <4>2
        <5>2. a \in Nat /\ x * q \in Nat
          BY <3>2
        <5>3. x * (a * q) = a * (x * q)
          BY <3>2, <5>2
        <5> QED
          BY <5>1, <5>2, <5>3
      <4> QED
        BY <4>1, <4>2
    <3> QED
      BY <3>5, <3>6, <3>7
  <2> HIDE DEF Divided
  <2> QED
    BY <2>1
<1> HIDE DEF K, Divided
<1>12. \A k \in Nat : k \in K
  BY <1>10, <1>11, StepByStep
<1>13. PICK k \in Nat : k = Cardinality(A)
  BY FS_CardinalityType
<1>14. Divided(A)
  <2>1. k \in K /\ A \in SUBSET A
    BY <1>12
  <2> QED
    BY <1>13, <2>1 DEF K
<1> QED
  BY <1>1, <1>14 DEF Divided

\* Jobs of W ticks every P ticks, of which H ticks at most are for H ticks: H is a multiple of
\* every period, and K has the work of H ticks.
FitsIn(S, W, P, H, K) ==
  /\ W \in [S -> Nat] /\ P \in [S -> Nat \ {0}] /\ H \in Nat \ {0} /\ K \in [S -> Int]
  /\ \A x \in S : \E q \in Nat : H = P[x] * q /\ K[x] = W[x] * q
  /\ SumOver(K, S) <= H

\* Then no more is for n ticks than fits in.
LEMMA DemandWithin ==
  ASSUME NEW S, IsFiniteSet(S), NEW W, NEW P, NEW H, NEW K, FitsIn(S, W, P, H, K),
         NEW n \in Nat, NEW c \in [S -> Int],
         \A x \in S : \E m \in Nat : c[x] <= W[x] * m /\ P[x] * m <= n
  PROVE  SumOver(c, S) <= n
<1>1. PICK d : d = [x \in S |-> H * c[x]]
  OBVIOUS
<1>2. PICK e : e = [x \in S |-> n * K[x]]
  OBVIOUS
<1>3. H \in Nat \ {0} /\ K \in [S -> Int] /\ d \in [S -> Int] /\ e \in [S -> Int]
  BY <1>1, <1>2 DEF FitsIn
<1>4. ASSUME NEW x \in S PROVE d[x] <= e[x]
  <2>1. PICK w \in Nat, p \in Nat \ {0} : w = W[x] /\ p = P[x]
    BY DEF FitsIn
  <2>2. PICK q \in Nat : H = p * q /\ K[x] = w * q
    BY <2>1 DEF FitsIn
  <2>3. PICK m \in Nat : c[x] <= w * m /\ p * m <= n
    BY <2>1
  <2>4. PICK a \in Int : a = c[x]
    OBVIOUS
  <2>5. d[x] = H * a /\ e[x] = n * (w * q)
    BY <1>1, <1>2, <2>2, <2>4
  <2>6. PICK wm \in Nat, wq \in Nat : wm = w * m /\ wq = w * q
    OBVIOUS
  <2>7. H * a <= H * wm
    <3>1. wm - a \in Nat
      BY <2>3, <2>4, <2>6
    <3>2. H * (wm - a) \in Nat
      BY <1>3, <3>1
    <3>3. H * (wm - a) = H * wm - H * a
      BY <1>3
    <3> QED
      BY <3>2, <3>3, <1>3
  <2>8. H * wm = wq * (p * m)
    <3>1. (p * q) * (w * m) = (w * q) * (p * m)
      OBVIOUS
    <3> QED
      BY <2>2, <2>6, <3>1
  <2>9. wq * (p * m) <= wq * n
    <3>1. PICK pm \in Nat : pm = p * m
      OBVIOUS
    <3>2. n - pm \in Nat
      BY <2>3, <3>1
    <3>3. wq * (n - pm) \in Nat
      BY <3>2
    <3>4. wq * (n - pm) = wq * n - wq * pm
      BY <3>1
    <3> QED
      BY <3>1, <3>3, <3>4
  <2>10. PICK x1 \in Int, x2 \in Int, x3 \in Int :
           x1 = H * a /\ x2 = H * wm /\ x3 = wq * n
    BY <1>3
  <2>11. n * (w * q) = wq * n
    BY <2>6
  <2> QED
    BY <2>5, <2>7, <2>8, <2>9, <2>10, <2>11
<1>5. SumOver(d, S) <= SumOver(e, S)
  BY <1>3, <1>4, SumMonotone
<1>6. SumOver(d, S) = H * SumOver(c, S)
  BY <1>1, <1>3, SumScaled, H \in Int
<1>7. SumOver(e, S) = n * SumOver(K, S)
  BY <1>2, <1>3, SumScaled, n \in Int
<1>8. PICK s \in Int, k \in Int : s = SumOver(c, S) /\ k = SumOver(K, S)
  BY <1>3, SumType
<1>9. k <= H
  BY <1>8 DEF FitsIn
<1>10. n * k <= n * H
  <2>1. H - k \in Nat
    BY <1>3, <1>9
  <2>2. n * (H - k) \in Nat
    BY <2>1
  <2>3. n * (H - k) = n * H - n * k
    BY <1>3
  <2> QED
    BY <1>3, <2>2, <2>3
<1>11. H * s <= H * n
  <2>1. PICK y1 \in Int, y2 \in Int, y3 \in Int : y1 = H * s /\ y2 = n * k /\ y3 = n * H
    BY <1>3
  <2>2. H * n = n * H
    BY <1>3
  <2> QED
    BY <1>5, <1>6, <1>7, <1>8, <1>10, <2>1, <2>2
<1> QED
  BY <1>3, <1>8, <1>11, n \in Int, Cancel
=============================================================================
