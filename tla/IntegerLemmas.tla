--------------------------- MODULE IntegerLemmas ---------------------------
(***************************************************************************)
(* Facts about numbers that the proofs about rings and queues need: a      *)
(* largest element exists, what a remainder is near the modulus, order and *)
(* products, and how reduction composes.                                    *)
(***************************************************************************)
EXTENDS Integers, FiniteSetTheorems, WellFoundedInduction, TLAPS

(* A set of naturals with an upper bound has a largest element.            *)
LEMMA LargestExists ==
  ASSUME NEW S \in SUBSET Nat, S # {}, NEW bound \in Nat, \A n \in S : n <= bound
  PROVE  \E m \in S : \A n \in S : n <= m
<1> DEFINE Above(n) == (n + 1)..bound
           R == StrictSubsetOrdering(Nat)
           T == {Above(n) : n \in S}
<1>1. IsWellFoundedOn(R, FiniteSubsetsOf(Nat))
  BY FS_StrictSubsetOrderingWellFounded
<1>2. T \subseteq FiniteSubsetsOf(Nat)
  <2> SUFFICES ASSUME NEW n \in S PROVE Above(n) \in FiniteSubsetsOf(Nat)
    OBVIOUS
  <2>1. IsFiniteSet(Above(n))
    <3>1. n + 1 \in Int /\ bound \in Int
      OBVIOUS
    <3>2. QED
      BY <3>1, FS_Interval
  <2>2. Above(n) \in SUBSET Nat
    OBVIOUS
  <2> HIDE DEF Above
  <2>3. QED
    BY <2>1, <2>2 DEF FiniteSubsetsOf
<1>3. T # {}
  OBVIOUS
<1>4. \A n, m \in S : m < n => <<Above(n), Above(m)>> \in R
  <2> SUFFICES ASSUME NEW n \in S, NEW m \in S, m < n PROVE <<Above(n), Above(m)>> \in R
    OBVIOUS
  <2>1. Above(n) \subseteq Above(m) /\ n \in Above(m) /\ n \notin Above(n)
    OBVIOUS
  <2>2. Above(n) \subseteq Nat /\ Above(m) \subseteq Nat
    OBVIOUS
  <2> HIDE DEF Above
  <2>3. QED
    BY <2>1, <2>2 DEF StrictSubsetOrdering
<1>5. PICK x \in T : \A y \in T : ~(<<y, x>> \in R)
  <2> HIDE DEF R, T
  <2>1. QED
    BY <1>1, <1>2, <1>3, WFMin
<1>6. PICK m \in S : x = Above(m)
  BY <1>5
<1>7. \A n \in S : ~(m < n)
  <2> HIDE DEF R, Above
  <2>1. QED
    BY <1>4, <1>5, <1>6
<1>8. QED
  BY <1>7

(* Remainders one modulus away from the range of values.                   *)
LEMMA ModRange ==
  ASSUME NEW m \in Nat \ {0}, NEW v \in Int
  PROVE  /\ 0 <= v /\ v < m => v % m = v
         /\ v = m => v % m = 0
         /\ -m <= v /\ v < 0 => v % m = v + m
BY Z3

(* Multiplication by a natural preserves order.                            *)
LEMMA TimesMonotone ==
  ASSUME NEW a \in Int, NEW b \in Int, NEW k \in Nat, a <= b
  PROVE  a * k <= b * k
BY Z3

LEMMA TimesDistributes ==
  ASSUME NEW a \in Int, NEW b \in Int, NEW k \in Nat
  PROVE  (a + b) * k = a * k + b * k
BY Z3

LEMMA ModBounds ==
  ASSUME NEW v \in Int, NEW m \in Nat \ {0}
  PROVE  v % m \in 0..(m - 1)
BY Z3

LEMMA DivBelow ==
  ASSUME NEW v \in Nat, NEW d \in Nat \ {0}
  PROVE  v \div d \in Nat /\ (v < d => v \div d = 0)
BY Z3

(* A set of naturals that is not empty has a least element.                *)
LEMMA LeastExists ==
  ASSUME NEW S \in SUBSET Nat, S # {}, NEW bound \in Nat, \A n \in S : n <= bound
  PROVE  \E m \in S : \A n \in S : m <= n
<1> DEFINE T == {bound - n : n \in S}
<1>1. T \in SUBSET Nat /\ \A k \in T : k <= bound
  <2>1. \A n \in S : bound - n \in Nat /\ bound - n <= bound
    OBVIOUS
  <2>2. QED
    BY <2>1
<1>2. PICK k \in T : \A l \in T : l <= k
  <2>1. T # {}
    OBVIOUS
  <2> HIDE DEF T
  <2>2. QED
    BY <1>1, <2>1, LargestExists
<1>3. PICK m \in S : k = bound - m
  BY <1>2
<1>4. \A n \in S : bound - n <= bound - m
  BY <1>2, <1>3
<1>5. QED
  BY <1>4

(* Counting up to a bound: induction, on a set instead of a predicate.     *)
LEMMA UpTo ==
  ASSUME NEW n \in Nat, NEW S, 0 \in S, \A k \in 0..(n - 1) : k \in S => k + 1 \in S
  PROVE  \A k \in 0..n : k \in S
<1> DEFINE Missing == {k \in 0..n : k \notin S}
<1>1. SUFFICES ASSUME Missing # {} PROVE FALSE
  OBVIOUS
<1>2. PICK m \in Missing : \A k \in Missing : m <= k
  <2>1. Missing \in SUBSET Nat /\ \A k \in Missing : k <= n
    OBVIOUS
  <2> HIDE DEF Missing
  <2>2. QED
    BY <1>1, <2>1, LeastExists
<1>3. m \in 1..n /\ m - 1 \in 0..(n - 1) /\ m - 1 \notin Missing
  BY <1>2
<1>4. m - 1 \in S
  BY <1>3
<1>5. (m - 1) + 1 = m
  BY <1>3
<1>6. QED
  BY <1>2, <1>3, <1>4, <1>5

-----------------------------------------------------------------------------
(* Quotient and remainder, and that they are the only ones.                *)
LEMMA DivMod ==
  ASSUME NEW v \in Int, NEW m \in Nat \ {0}
  PROVE  v \div m \in Int /\ v % m \in 0..(m - 1) /\ v = m * (v \div m) + (v % m)
BY Z3

LEMMA NoMultipleBetween ==
  ASSUME NEW m \in Nat \ {0}, NEW q \in Int, -m < m * q, m * q < m
  PROVE  q = 0
BY Z3

LEMMA ModUnique ==
  ASSUME NEW v \in Int, NEW m \in Nat \ {0}, NEW q \in Int, NEW r \in 0..(m - 1), v = m * q + r
  PROVE  v % m = r
<1>1. v \div m \in Int /\ v % m \in 0..(m - 1) /\ v = m * (v \div m) + (v % m)
  BY DivMod
<1> DEFINE d == q - (v \div m)
<1>2. m * d = m * q - m * (v \div m)
  BY <1>1, Z3
<1>3. m * q \in Int /\ m * (v \div m) \in Int /\ d \in Int
  BY <1>1
<1>4. -m < m * d /\ m * d < m
  BY <1>1, <1>2, <1>3
<1>5. d = 0
  <2> HIDE DEF d
  <2>1. QED
    BY <1>3, <1>4, NoMultipleBetween
<1>6. m * d = 0
  BY <1>5
<1>7. QED
  BY <1>1, <1>2, <1>3, <1>6

(* Dropping multiples of the modulus changes no remainder.                 *)
LEMMA ModShift ==
  ASSUME NEW v \in Int, NEW m \in Nat \ {0}, NEW k \in Int
  PROVE  (v + m * k) % m = v % m
<1>1. v \div m \in Int /\ v % m \in 0..(m - 1) /\ v = m * (v \div m) + (v % m)
  BY DivMod
<1>2. m * ((v \div m) + k) = m * (v \div m) + m * k
  BY <1>1, Z3
<1>3. m * k \in Int /\ m * (v \div m) \in Int
  BY <1>1
<1>4. v + m * k = m * ((v \div m) + k) + (v % m)
  BY <1>1, <1>2, <1>3
<1>5. (v \div m) + k \in Int /\ v + m * k \in Int
  BY <1>1, <1>3
<1>6. QED
  BY <1>1, <1>4, <1>5, ModUnique

(* Remainders of a multiple of the modulus keep the remainder.             *)
LEMMA ModOfMod ==
  ASSUME NEW v \in Int, NEW c \in Nat \ {0}, NEW m \in Nat \ {0}, c % m = 0
  PROVE  (v % c) % m = v % m
<1>1. v \div c \in Int /\ v % c \in 0..(c - 1) /\ v = c * (v \div c) + (v % c)
  BY DivMod
<1>2. c \div m \in Int /\ c = m * (c \div m)
  BY DivMod
<1> DEFINE q == v \div c
           d == c \div m
<1>3. q \in Int /\ d \in Int /\ c = m * d
  BY <1>1, <1>2
<1> HIDE DEF q, d
<1>4. c * q = m * (d * q)
  BY <1>3, Z3
<1>5. v = (v % c) + m * (d * q)
  BY <1>1, <1>3, <1>4 DEF q
<1> DEFINE r == v % c
           k == d * q
<1>6. r \in Int /\ k \in Int /\ v = r + m * k
  BY <1>1, <1>3, <1>5
<1> HIDE DEF r, k
<1>7. (r + m * k) % m = r % m
  BY <1>6, ModShift
<1>8. QED
  BY <1>6, <1>7 DEF r

(* Numbers closer than the modulus differ in their remainders.             *)
LEMMA ModDistinct ==
  ASSUME NEW a \in Int, NEW b \in Int, NEW m \in Nat \ {0}, a < b, b - a < m
  PROVE  a % m # b % m
<1>1. /\ a \div m \in Int /\ a % m \in 0..(m - 1) /\ a = m * (a \div m) + (a % m)
      /\ b \div m \in Int /\ b % m \in 0..(m - 1) /\ b = m * (b \div m) + (b % m)
  BY DivMod
<1> DEFINE d == (b \div m) - (a \div m)
<1>2. d \in Int /\ m * d = m * (b \div m) - m * (a \div m)
  BY <1>1, Z3
<1>3. m * (a \div m) \in Int /\ m * (b \div m) \in Int
  BY <1>1
<1> HIDE DEF d
<1>4. SUFFICES ASSUME a % m = b % m PROVE FALSE
  OBVIOUS
<1>5. m * d = b - a
  BY <1>1, <1>2, <1>3, <1>4
<1>6. d = 0
  BY <1>2, <1>5, NoMultipleBetween
<1>7. QED
  BY <1>5, <1>6

(* A difference of remainders, itself reduced, is the difference reduced:  *)
(* no more than the difference.                                            *)
LEMMA ModDifference ==
  ASSUME NEW a \in Nat, NEW b \in Nat, NEW m \in Nat \ {0}, b <= a
  PROVE  ((a % m) - (b % m)) % m <= a - b
<1>1. /\ a \div m \in Int /\ a % m \in 0..(m - 1) /\ a = m * (a \div m) + (a % m)
      /\ b \div m \in Int /\ b % m \in 0..(m - 1) /\ b = m * (b \div m) + (b % m)
  BY DivMod
<1> DEFINE d == (a \div m) - (b \div m)
           r == (a % m) - (b % m)
<1>2. d \in Int /\ r \in Int /\ m * d = m * (a \div m) - m * (b \div m)
  BY <1>1, Z3
<1>3. m * (a \div m) \in Int /\ m * (b \div m) \in Int
  BY <1>1
<1> HIDE DEF d, r
<1>4. a - b = r + m * d
  BY <1>1, <1>2, <1>3 DEF r
<1>5. r % m = (a - b) % m
  BY <1>2, <1>4, ModShift
<1> DEFINE e == a - b
<1>6. e \in Nat
  OBVIOUS
<1> HIDE DEF e
<1>7. e % m <= e
  <2>1. e \div m \in Nat /\ e = m * (e \div m) + (e % m) /\ e % m \in Int
    BY <1>6, DivMod, DivBelow
  <2>2. m * (e \div m) \in Nat
    BY <2>1
  <2>3. QED
    BY <2>1, <2>2
<1>8. QED
  BY <1>5, <1>7 DEF e, r

(* One more, before or after reduction.                                    *)
LEMMA ModSuccessor ==
  ASSUME NEW v \in Int, NEW m \in Nat \ {0}
  PROVE  ((v % m) + 1) % m = (v + 1) % m
<1>1. v \div m \in Int /\ v % m \in 0..(m - 1) /\ v = m * (v \div m) + (v % m)
  BY DivMod
<1>2. m * (v \div m) \in Int
  BY <1>1
<1>3. v + 1 = ((v % m) + 1) + m * (v \div m) /\ (v % m) + 1 \in Int
  BY <1>1, <1>2
<1>4. QED
  BY <1>1, <1>3, ModShift

=============================================================================
