---------------------------- MODULE OperatorLemmas ----------------------------
(***************************************************************************)
(* Facts about operators that several components are modelled with: the    *)
(* least and the greatest element of a set of numbers, the removal of an   *)
(* element from a table, division with a remainder, and the part of a      *)
(* sequence at a set of indexes.                                           *)
(***************************************************************************)
EXTENDS Integers, Sequences, SequencesExt, FiniteSetsExt, Selection,
        SequenceTheorems, FiniteSetTheorems, WellFoundedInduction, TLAPS
-----------------------------------------------------------------------------
\* Sets of naturals have a least element, which is what Min chooses.
LEMMA MinOfNats ==
    ASSUME NEW S, S \subseteq Nat, S /= {}
    PROVE  Min(S) \in S /\ \A x \in S : Min(S) <= x
<1>1. \E x \in S : \A y \in S : ~(<<y, x>> \in OpToRel(<, Nat))
  BY NatLessThanWellFounded, WFMin
<1>2. \A x, y \in Nat : y < x => <<y, x>> \in OpToRel(<, Nat)
  BY DEF OpToRel
<1>3. \E x \in S : \A y \in S : x <= y
  <2>1. PICK x \in S : \A y \in S : ~(<<y, x>> \in OpToRel(<, Nat))
    BY <1>1
  <2>2. \A y \in S : ~(y < x)
    BY <1>2, <2>1, Zenon
  <2>3. \A y \in S : x <= y
    BY <2>2, SMT
  <2>4. QED
    BY <2>3
<1>4. QED
  BY <1>3 DEF Min

\* A set of numbers below a bound has a greatest element.
LEMMA MaxOfBounded ==
    ASSUME NEW n \in Nat, NEW S, S \subseteq 1..n, S /= {}
    PROVE  Max(S) \in S /\ \A x \in S : Max(S) >= x
<1> DEFINE T == {n - x : x \in S}
<1>0. \A x \in S : x \in 1..n /\ n - x \in Nat
  OBVIOUS
<1>1. T \subseteq Nat /\ T /= {}
  BY <1>0
<1>2. Min(T) \in T /\ \A y \in T : Min(T) <= y
  BY <1>1, MinOfNats
<1>3. PICK m \in S : Min(T) = n - m
  BY <1>2
<1>4. \A x \in S : n - m <= n - x
  BY <1>2, <1>3
<1>5. \A x \in S : m >= x
  BY <1>0, <1>4
<1>6. QED
  BY <1>5 DEF Max

\* RemoveAt moves the elements behind the place up by one.
LEMMA RemoveAtProperties ==
    ASSUME NEW S, NEW s \in Seq(S), NEW i \in 1..Len(s)
    PROVE  /\ RemoveAt(s, i) \in Seq(S) /\ Len(RemoveAt(s, i)) = Len(s) - 1
           /\ \A j \in 1..Len(s) - 1 :
                 RemoveAt(s, i)[j] = IF j < i THEN s[j] ELSE s[j + 1]
<1> DEFINE a == SubSeq(s, 1, i - 1)
           b == SubSeq(s, i + 1, Len(s))
<1>0. Len(s) \in Nat /\ i \in Nat /\ 1 <= i /\ i <= Len(s) /\ \A j \in 1..Len(s) : s[j] \in S
  OBVIOUS
<1>1. /\ a \in Seq(S) /\ Len(a) = i - 1 /\ \A j \in 1..i - 1 : a[j] = s[j]
  <2>1. 1 \in Int /\ i - 1 \in Int /\ \A j \in 1..i - 1 : s[j] \in S
    BY <1>0
  <2>2. /\ a \in Seq(S) /\ Len(a) = (IF 1 <= i - 1 THEN (i - 1) - 1 + 1 ELSE 0)
        /\ \A j \in 1..(i - 1) - 1 + 1 : a[j] = s[1 + j - 1]
    BY <2>1, SubSeqProperties
  <2> HIDE DEF a
  <2>3. QED
    BY <1>0, <2>2
<1>2. /\ b \in Seq(S) /\ Len(b) = Len(s) - i /\ \A j \in 1..Len(s) - i : b[j] = s[i + j]
  <2>1. i + 1 \in Int /\ Len(s) \in Int /\ \A j \in i + 1..Len(s) : s[j] \in S
    BY <1>0
  <2>2. /\ b \in Seq(S) /\ Len(b) = (IF i + 1 <= Len(s) THEN Len(s) - (i + 1) + 1 ELSE 0)
        /\ \A j \in 1..Len(s) - (i + 1) + 1 : b[j] = s[(i + 1) + j - 1]
    BY <2>1, SubSeqProperties
  <2> HIDE DEF b
  <2>3. QED
    BY <1>0, <2>2
<1>3. RemoveAt(s, i) = a \o b
  BY DEF RemoveAt
<1> HIDE DEF a, b
<1>4. /\ a \o b \in Seq(S) /\ Len(a \o b) = Len(a) + Len(b)
      /\ \A j \in 1..Len(a) + Len(b) :
            (a \o b)[j] = IF j <= Len(a) THEN a[j] ELSE b[j - Len(a)]
  BY <1>1, <1>2, ConcatProperties
<1>5. Len(a) + Len(b) = Len(s) - 1
  BY <1>0, <1>1, <1>2
<1>6. ASSUME NEW j \in 1..Len(s) - 1
      PROVE  (a \o b)[j] = IF j < i THEN s[j] ELSE s[j + 1]
  <2>1. CASE j < i
    <3>1. j \in 1..i - 1 /\ j <= Len(a) /\ j \in 1..Len(a) + Len(b)
      BY <1>0, <1>1, <1>5, <2>1
    <3>2. QED
      BY <1>1, <1>4, <2>1, <3>1
  <2>2. CASE ~(j < i)
    <3>1. j - Len(a) \in 1..Len(s) - i /\ ~(j <= Len(a)) /\ j \in 1..Len(a) + Len(b)
          /\ i + (j - Len(a)) = j + 1
      BY <1>0, <1>1, <1>5, <2>2
    <3>2. (a \o b)[j] = b[j - Len(a)]
      BY <1>4, <3>1
    <3>3. QED
      BY <1>2, <2>2, <3>1, <3>2
  <2>3. QED
    BY <2>1, <2>2
<1>7. QED
  BY <1>3, <1>4, <1>5, <1>6
-----------------------------------------------------------------------------
(* Division: ring indices, turns and the intervals of a schedule. *)

\* What is left over by a division.
LEMMA ModIs ==
    ASSUME NEW n \in Nat \ {0}, NEW q \in Nat, NEW r \in 0..n - 1
    PROVE  (n * q + r) % n = r
<1>0. n * q \in Nat
  OBVIOUS
<1>1. PICK x \in Nat : x = n * q + r
  BY <1>0
<1>2. /\ x % n \in 0..n - 1 /\ x \div n \in Nat
      /\ x = n * (x \div n) + (x % n)
  BY <1>1, SMT
<1>3. PICK a \in Nat, s \in 0..n - 1 : a = x \div n /\ s = x % n
  BY <1>2
<1>4. n * q + r = n * a + s
  BY <1>1, <1>2, <1>3
<1>5. n * (a - q) = r - s
  BY <1>4, SMT
<1>6. a - q = 0 \/ a - q >= 1 \/ a - q <= 0 - 1
  BY SMT
<1>7. a - q >= 1 => n * (a - q) >= n
  BY SMT
<1>8. a - q <= 0 - 1 => n * (a - q) <= 0 - n
  BY SMT
<1>9. r = s
  BY <1>5, <1>6, <1>7, <1>8, SMT
<1>10. QED
  BY <1>1, <1>3, <1>9

\* The turn that follows, and the turns in any n choices in a row.
LEMMA ModNext ==
    ASSUME NEW n \in Nat \ {0}, NEW x \in Nat
    PROVE  (x + 1) % n = ((x % n) + 1) % n
<1>1. PICK q \in Nat, r \in 0..n - 1 : x = n * q + r /\ r = x % n
  BY SMT
<1>2. CASE r + 1 < n
  <2>1. r + 1 \in 0..n - 1 /\ x + 1 = n * q + (r + 1) /\ r + 1 = n * 0 + (r + 1)
    BY <1>1, <1>2
  <2>2. (n * q + (r + 1)) % n = r + 1 /\ (n * 0 + (r + 1)) % n = r + 1
    BY <2>1, ModIs
  <2>3. QED
    BY <1>1, <2>1, <2>2
<1>3. CASE r + 1 = n
  <2>1. n * (q + 1) = n * q + n
    BY SMT
  <2>2. x + 1 = n * (q + 1) + 0 /\ r + 1 = n * 1 + 0 /\ 0 \in 0..n - 1
    BY <1>1, <1>3, <2>1
  <2>3. (n * (q + 1) + 0) % n = 0 /\ (n * 1 + 0) % n = 0
    BY <2>2, ModIs
  <2>4. QED
    BY <1>1, <2>2, <2>3
<1>4. QED
  BY <1>1, <1>2, <1>3

LEMMA ModCovers ==
    ASSUME NEW n \in Nat \ {0}, NEW x \in Nat, NEW k \in 0..n - 1
    PROVE  \E y \in x..x + n - 1 : y % n = k
<1>1. PICK q \in Nat, r \in 0..n - 1 : x = n * q + r /\ r = x % n
  BY SMT
<1>2. CASE k >= r
  <2>1. n * q + k \in x..x + n - 1
    BY <1>1, <1>2
  <2>2. (n * q + k) % n = k
    BY ModIs
  <2>3. QED
    BY <2>1, <2>2
<1>3. CASE k < r
  <2>1. n * (q + 1) = n * q + n /\ q + 1 \in Nat
    BY SMT
  <2>2. n * (q + 1) + k \in x..x + n - 1
    BY <1>1, <1>3, <2>1
  <2>3. (n * (q + 1) + k) % n = k
    BY <2>1, ModIs
  <2>4. QED
    BY <2>2, <2>3
<1>4. QED
  BY <1>2, <1>3

\* The interval of length n that x lies in.
LEMMA DivBounds ==
    ASSUME NEW n \in Nat \ {0}, NEW x \in Nat
    PROVE  x \div n \in Nat /\ n * (x \div n) <= x /\ x < n * ((x \div n) + 1)
<1>1. /\ x % n \in 0..n - 1 /\ x \div n \in Nat /\ x = n * (x \div n) + (x % n)
  BY SMT
<1>2. PICK q \in Nat, r \in 0..n - 1 : q = x \div n /\ x = n * q + r
  BY <1>1
<1>3. n * (q + 1) = n * q + n /\ n * q \in Nat
  BY SMT
<1>4. QED
  BY <1>2, <1>3

\* Later times lie in the same or in later intervals, and only times that are
\* later lie in later ones.
LEMMA DivMonotone ==
    ASSUME NEW n \in Nat \ {0}, NEW x \in Nat, NEW y \in Nat, x <= y
    PROVE  x \div n <= y \div n
<1>1. PICK q \in Nat : q = x \div n /\ n * q <= x
  BY DivBounds
<1>2. PICK r \in Nat : r = y \div n /\ y < n * (r + 1)
  BY DivBounds
<1>3. SUFFICES ASSUME r + 1 <= q PROVE FALSE
  BY <1>1, <1>2
<1>4. n * (r + 1) <= n * q
  BY <1>3, SMT
<1>5. n * (r + 1) \in Nat /\ n * q \in Nat
  BY SMT
<1>6. QED
  BY <1>1, <1>2, <1>4, <1>5

\* The beginning of an interval lies in it.
LEMMA DivOfMultiple ==
    ASSUME NEW n \in Nat \ {0}, NEW q \in Nat
    PROVE  (q * n) \div n = q
<1>1. PICK x \in Nat : x = q * n
  BY SMT
<1>2. PICK a \in Nat : a = x \div n /\ n * a <= x /\ x < n * (a + 1)
  BY <1>1, DivBounds
<1>3. CASE a + 1 <= q
  <2>1. n * (a + 1) <= n * q
    BY <1>3, SMT
  <2>2. n * q = q * n /\ n * (a + 1) \in Nat
    BY SMT
  <2>3. QED
    BY <1>1, <1>2, <2>1, <2>2
<1>4. CASE q + 1 <= a
  <2>1. n * (q + 1) <= n * a
    BY <1>4, SMT
  <2>2. n * (q + 1) = q * n + n /\ n * a \in Nat /\ q * n \in Nat
    BY SMT
  <2>3. QED
    BY <1>1, <1>2, <2>1, <2>2
<1>5. CASE a = q
  BY <1>1, <1>2, <1>5
<1>6. QED
  BY <1>3, <1>4, <1>5
-----------------------------------------------------------------------------
(* The part of a sequence at a set of indexes. *)

\* The j-th index of I is an index of I with j indexes up to it: ranks grow from
\* one index to the next, so that they are 1..Cardinality(I).
LEMMA NthProperties ==
    ASSUME NEW n \in Nat, NEW I, I \subseteq 1..n
    PROVE  /\ IsFiniteSet(I) /\ Cardinality(I) \in Nat
           /\ \A i \in I : Rank(I, i) \in 1..Cardinality(I) /\ Nth(I, Rank(I, i)) = i
           /\ \A j \in 1..Cardinality(I) : Nth(I, j) \in I /\ Rank(I, Nth(I, j)) = j
           /\ \A a, b \in I : a < b => Rank(I, a) < Rank(I, b)
<1> DEFINE N == Cardinality(I)
           upto(i) == {k \in I : k <= i}
<1>1. IsFiniteSet(1..n)
  BY FS_Interval
<1>2. IsFiniteSet(I) /\ N \in Nat
  BY <1>1, FS_Subset, FS_CardinalityType
<1>3. \A i : IsFiniteSet(upto(i)) /\ Cardinality(upto(i)) \in Nat /\ Cardinality(upto(i)) <= N
  BY <1>2, FS_Subset, FS_CardinalityType
<1>4. ASSUME NEW a \in I, NEW b \in I, a < b PROVE Rank(I, a) < Rank(I, b)
  <2>1. upto(a) \subseteq upto(b) /\ upto(a) /= upto(b)
    <3>1. \A k \in upto(a) : k \in upto(b)
      BY <1>4
    <3>2. b \in upto(b) /\ b \notin upto(a)
      BY <1>4
    <3>3. QED
      BY <3>1, <3>2
  <2>2. Cardinality(upto(a)) <= Cardinality(upto(b)) /\ Cardinality(upto(a)) /= Cardinality(upto(b))
    BY <1>3, <2>1, FS_Subset
  <2>3. QED
    BY <1>3, <2>2 DEF Rank
<1>5. \A i \in I : Rank(I, i) \in 1..N
  <2>1. \A i \in I : upto(i) /= {}
    OBVIOUS
  <2>2. \A i \in I : Cardinality(upto(i)) /= 0
    BY <1>3, <2>1, FS_EmptySet
  <2>3. QED
    BY <1>2, <1>3, <2>2 DEF Rank
<1> DEFINE f == [i \in I |-> Rank(I, i)]
<1>6. f \in Injection(I, 1..N)
  <2>1. \A a, b \in I : a /= b => Rank(I, a) /= Rank(I, b)
    <3>1. \A a, b \in I : a /= b => a < b \/ b < a
      OBVIOUS
    <3>2. \A a, b \in I : a < b => Rank(I, a) < Rank(I, b)
      BY <1>4
    <3>3. \A a \in I : Rank(I, a) \in Nat
      BY <1>5
    <3>4. QED
      BY <3>1, <3>2, <3>3
  <2>2. f \in [I -> 1..N]
    BY <1>5
  <2>3. QED
    BY <2>1, <2>2 DEF Injection, IsInjective
<1>7. f \in Surjection(I, 1..N)
  <2>1. IsFiniteSet(1..N) /\ Cardinality(1..N) = N
    BY <1>2, FS_Interval
  <2>2. QED
    BY <1>6, <2>1, FS_Injection
<1>8. \A j \in 1..N : \E i \in I : Rank(I, i) = j
  BY <1>7 DEF Surjection
<1>9. \A j \in 1..N : Nth(I, j) \in I /\ Rank(I, Nth(I, j)) = j
  BY <1>8 DEF Nth
<1>10. \A i \in I : Nth(I, Rank(I, i)) = i
  <2>1. \A a, b \in I : Rank(I, a) = Rank(I, b) => a = b
    BY <1>6 DEF Injection, IsInjective
  <2>2. QED
    BY <1>5, <1>9, <2>1
<1>11. QED
  BY <1>2, <1>4, <1>5, <1>9, <1>10

\* What is picked are elements at the indexes, all of them, in their order.
LEMMA PickedProperties ==
    ASSUME NEW S, NEW s \in Seq(S), NEW I \in SUBSET (1..Len(s))
    PROVE  /\ IsFiniteSet(I) /\ Cardinality(I) \in Nat
           /\ Picked(s, I) \in Seq(S) /\ Len(Picked(s, I)) = Cardinality(I)
           /\ \A j \in 1..Cardinality(I) : \E i \in I : i = Nth(I, j) /\ Picked(s, I)[j] = s[i]
           /\ \A i \in I : \E j \in 1..Cardinality(I) : j = Rank(I, i) /\ Picked(s, I)[j] = s[i]
<1>1. Len(s) \in Nat /\ \A i \in 1..Len(s) : s[i] \in S
  OBVIOUS
<1>2. /\ IsFiniteSet(I) /\ Cardinality(I) \in Nat
      /\ \A i \in I : Rank(I, i) \in 1..Cardinality(I) /\ Nth(I, Rank(I, i)) = i
      /\ \A j \in 1..Cardinality(I) : Nth(I, j) \in I
  BY <1>1, NthProperties
<1>3. PICK N \in Nat : N = Cardinality(I)
  BY <1>2
<1>4. \A j \in 1..N : s[Nth(I, j)] \in S
  BY <1>1, <1>2, <1>3
<1>5. Picked(s, I) = [j \in 1..N |-> s[Nth(I, j)]]
  BY <1>3 DEF Picked
<1>6. Picked(s, I) \in Seq(S) /\ Len(Picked(s, I)) = N
  BY <1>4, <1>5
<1>7. QED
  BY <1>2, <1>3, <1>5, <1>6

\* The elements at an interval of indexes.
LEMMA PickedInterval ==
    ASSUME NEW S, NEW s \in Seq(S), NEW a \in Nat, NEW b \in Nat,
           1 <= a, a <= b + 1, b <= Len(s)
    PROVE  /\ Picked(s, a..b) \in Seq(S) /\ Len(Picked(s, a..b)) = b - a + 1
           /\ \A j \in 1..b - a + 1 : Picked(s, a..b)[j] = s[a + j - 1]
<1>1. Len(s) \in Nat /\ a..b \subseteq 1..Len(s)
  OBVIOUS
<1>2. Cardinality(a..b) = b - a + 1
  <2>1. Cardinality(a..b) = IF a > b THEN 0 ELSE b - a + 1
    BY FS_Interval
  <2>2. QED
    BY <2>1
<1>3. \A i \in a..b : Rank(a..b, i) = i - a + 1
  <2>1. TAKE i \in a..b
  <2>2. {k \in a..b : k <= i} = a..i
    OBVIOUS
  <2>3. Cardinality(a..i) = i - a + 1
    BY FS_Interval
  <2>4. QED
    BY <2>2, <2>3 DEF Rank
<1>4. /\ Picked(s, a..b) \in Seq(S) /\ Len(Picked(s, a..b)) = Cardinality(a..b)
      /\ \A i \in a..b : Picked(s, a..b)[Rank(a..b, i)] = s[i]
  BY <1>1, PickedProperties
<1>5. \A j \in 1..b - a + 1 : a + j - 1 \in a..b /\ (a + j - 1) - a + 1 = j
  OBVIOUS
<1>6. \A j \in 1..b - a + 1 : Picked(s, a..b)[j] = s[a + j - 1]
  BY <1>3, <1>4, <1>5
<1>7. QED
  BY <1>2, <1>4, <1>6

\* A sequence from which nothing is left out.
LEMMA PickedAll ==
    ASSUME NEW S, NEW s \in Seq(S)
    PROVE  Picked(s, 1..Len(s)) = s
<1>1. Len(s) \in Nat
  OBVIOUS
<1>2. /\ Picked(s, 1..Len(s)) \in Seq(S) /\ Len(Picked(s, 1..Len(s))) = Len(s)
      /\ \A j \in 1..Len(s) : Picked(s, 1..Len(s))[j] = s[j]
  <2>1. PICK n \in Nat : n = Len(s)
    BY <1>1
  <2>2. 1 <= 1 /\ 1 <= n + 1 /\ n <= Len(s)
    BY <2>1
  <2>3. /\ Picked(s, 1..n) \in Seq(S) /\ Len(Picked(s, 1..n)) = n - 1 + 1
        /\ \A j \in 1..n - 1 + 1 : Picked(s, 1..n)[j] = s[1 + j - 1]
    BY <2>2, PickedInterval
  <2>4. QED
    BY <2>1, <2>3
<1>3. QED
  BY <1>2
=============================================================================
