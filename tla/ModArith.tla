------------------------------ MODULE ModArith -------------------------------
(***************************************************************************)
(* Facts about % that the proofs rest on: the modulus is a constant of the *)
(* specification, so none of them is linear arithmetic.  And the least and *)
(* the greatest member of a set of naturals, which stand for induction.    *)
(***************************************************************************)
EXTENDS Integers, WellFoundedInduction, TLAPS

\* SMT is the prover of every step that names no other, with time enough for
\* the larger ones.
USE SMTT(30)

\* Division with remainder.
LEMMA DivMod ==
  ASSUME NEW c \in Nat, NEW m \in Nat \ {0}
  PROVE  /\ c = ((c \div m) * m) + (c % m)
         /\ c \div m \in Nat
         /\ c % m \in 0 .. m - 1
  OBVIOUS

\* A larger factor makes a product larger by at least the other factor.
LEMMA ProductStep ==
  ASSUME NEW a \in Int, NEW b \in Int, NEW m \in Nat \ {0}, a >= b + 1
  PROVE  a * m >= b * m + m
  OBVIOUS

\* The remainder is determined by its range.
LEMMA ModUnique ==
  ASSUME NEW q \in Nat, NEW m \in Nat \ {0}, NEW r \in 0 .. m - 1
  PROVE  (q * m + r) % m = r
  <1> DEFINE x == q * m + r
             p == x \div m
  <1>1. x \in Nat
    OBVIOUS
  <1>2. x = (p * m) + (x % m) /\ p \in Nat /\ x % m \in 0 .. m - 1
    BY <1>1, DivMod, Zenon
  <1> HIDE DEF p
  <1>3. q * m \in Nat /\ p * m \in Nat
    BY <1>2
  <1>4. ~ (p >= q + 1)
    BY <1>2, <1>3, ProductStep
  <1>5. ~ (q >= p + 1)
    BY <1>2, <1>3, ProductStep
  <1>6. p = q
    BY <1>2, <1>4, <1>5
  <1>7. (q * m) + r = (q * m) + (x % m)
    BY <1>2, <1>6
  <1>8. r = x % m
    <2> HIDE DEF x
    <2> QED BY <1>7, <1>2, <1>3
  <1> QED BY <1>8

\* A number below the modulus is its own remainder.
LEMMA ModSmall ==
  ASSUME NEW m \in Nat \ {0}, NEW r \in 0 .. m - 1
  PROVE  r % m = r
  OBVIOUS

\* Adding less than the modulus wraps at most once.
LEMMA ModAdd ==
  ASSUME NEW c \in Nat, NEW m \in Nat \ {0}, NEW d \in 0 .. m - 1
  PROVE  (c + d) % m = IF (c % m) + d < m THEN (c % m) + d
                                          ELSE ((c % m) + d) - m
  <1> DEFINE q == c \div m
             r == c % m
  <1>1. c = q * m + r /\ q \in Nat /\ r \in 0 .. m - 1
    BY DivMod, Zenon
  <1> HIDE DEF q, r
  <1>2. CASE r + d < m
    <2>1. (q * m + (r + d)) % m = r + d
      BY <1>1, <1>2, ModUnique
    <2>2. c + d = q * m + (r + d)
      BY <1>1
    <2> QED BY <2>1, <2>2, <1>2 DEF r
  <1>3. CASE r + d >= m
    <2>1. q + 1 \in Nat /\ r + d - m \in 0 .. m - 1
      BY <1>1, <1>3
    <2>2. ((q + 1) * m + (r + d - m)) % m = r + d - m
      BY <2>1, ModUnique
    <2>3. c + d = (q + 1) * m + (r + d - m)
      BY <1>1
    <2> QED BY <2>2, <2>3, <1>3, <1>1 DEF r
  <1> QED BY <1>1, <1>2, <1>3

\* Two numbers closer than the modulus have different remainders.
LEMMA ModDistinct ==
  ASSUME NEW c \in Nat, NEW m \in Nat \ {0}, NEW d \in 1 .. m - 1
  PROVE  (c + d) % m # c % m
  <1>1. c % m \in 0 .. m - 1
    BY DivMod
  <1>2. d \in 0 .. m - 1
    OBVIOUS
  <1>3. (c + d) % m = IF (c % m) + d < m THEN (c % m) + d
                                         ELSE ((c % m) + d) - m
    BY <1>2, ModAdd, Zenon
  <1> QED BY <1>1, <1>3

\* Whole multiples of the modulus do not change the remainder.
LEMMA ModMultiple ==
  ASSUME NEW c \in Nat, NEW m \in Nat \ {0}, NEW k \in Nat
  PROVE  (c + (k * m)) % m = c % m
  <1> DEFINE q == c \div m
             r == c % m
  <1>1. c = q * m + r /\ q \in Nat /\ r \in 0 .. m - 1
    BY DivMod, Zenon
  <1> HIDE DEF q, r
  <1>2. q + k \in Nat
    BY <1>1
  <1>3. ((q + k) * m + r) % m = r
    BY <1>1, <1>2, ModUnique
  <1>4. c + (k * m) = (q + k) * m + r
    BY <1>1
  <1> QED BY <1>3, <1>4 DEF r

\* A remainder may be taken before an addition.
LEMMA ModSum ==
  ASSUME NEW a \in Nat, NEW b \in Nat, NEW m \in Nat \ {0}
  PROVE  ((a % m) + b) % m = (a + b) % m
  <1> DEFINE q == a \div m
             r == a % m
  <1>1. a = q * m + r /\ q \in Nat /\ r \in 0 .. m - 1
    BY DivMod, Zenon
  <1> HIDE DEF q, r
  <1>2. r + b \in Nat
    BY <1>1
  <1>3. ((r + b) + (q * m)) % m = (r + b) % m
    BY <1>1, <1>2, ModMultiple, Zenon
  <1>4. a + b = (r + b) + (q * m)
    BY <1>1
  <1> QED BY <1>3, <1>4 DEF r

\* A remainder modulo a multiple keeps the remainder modulo the factor.
LEMMA ModMod ==
  ASSUME NEW a \in Nat, NEW m \in Nat \ {0}, NEW k \in Nat \ {0}
  PROVE  (a % (k * m)) % m = a % m
  <1> DEFINE w == k * m
             q == a \div w
             r == a % w
  <1>1. w \in Nat \ {0}
    <2>1. k * m >= 0 * m + m
      BY ProductStep
    <2> QED BY <2>1
  <1>2. a = q * w + r /\ q \in Nat /\ r \in 0 .. w - 1
    BY <1>1, DivMod, Zenon
  <1> HIDE DEF q, r
  <1>3. q * k \in Nat /\ r \in Nat
    BY <1>2
  <1>4. (r + ((q * k) * m)) % m = r % m
    BY <1>3, ModMultiple
  <1>5. a = r + ((q * k) * m)
    BY <1>2
  <1> QED BY <1>4, <1>5 DEF r

\* The distance between two counters, added to the lower one, gives the other.
LEMMA ModDistance ==
  ASSUME NEW m \in Nat \ {0}, NEW a \in 0 .. m - 1, NEW b \in 0 .. m - 1
  PROVE  /\ (a - b) % m \in 0 .. m - 1
         /\ (b + ((a - b) % m)) % m = a
  <1>1. CASE a >= b
    <2>1. (a - b) % m = a - b
      BY <1>1
    <2> QED BY <2>1, <1>1, ModSmall
  <1>2. CASE a < b
    <2>1. (a - b) % m = (a - b) + m
      BY <1>2
    <2>2. b + ((a - b) + m) = a + (1 * m)
      OBVIOUS
    <2>3. (a + (1 * m)) % m = a % m
      BY ModMultiple
    <2> QED BY <2>1, <2>2, <2>3, <1>2, ModSmall
  <1> QED BY <1>1, <1>2

\* ... and it is the only distance that does.
LEMMA ModDistanceUnique ==
  ASSUME NEW m \in Nat \ {0}, NEW b \in 0 .. m - 1, NEW d \in 0 .. m - 1
  PROVE  (((b + d) % m) - b) % m = d
  <1>1. b % m = b
    BY ModSmall
  <1>2. b \in Nat
    OBVIOUS
  <1>3. (b + d) % m = IF (b % m) + d < m THEN (b % m) + d
                                         ELSE ((b % m) + d) - m
    BY <1>2, ModAdd, Zenon
  <1> QED BY <1>1, <1>3

\* Moving the leading counter on makes the distance longer ...
LEMMA ModDistanceGrows ==
  ASSUME NEW m \in Nat \ {0}, NEW a \in 0 .. m - 1, NEW b \in 0 .. m - 1, NEW d \in Nat,
         ((a - b) % m) + d < m
  PROVE  (((a + d) % m) - b) % m = ((a - b) % m) + d
  <1>1. PICK e : e = (a - b) % m
    OBVIOUS
  <1>2. e \in 0 .. m - 1 /\ (b + e) % m = a
    BY <1>1, ModDistance, Zenon
  <1>3. b + e \in Nat /\ e + d \in 0 .. m - 1 /\ (b + e) + d = b + (e + d)
    BY <1>1, <1>2
  <1>4. (a + d) % m = (b + (e + d)) % m
    <2>1. (((b + e) % m) + d) % m = ((b + e) + d) % m
      BY <1>3, ModSum
    <2> QED BY <1>2, <1>3, <2>1
  <1>5. (((b + (e + d)) % m) - b) % m = e + d
    BY <1>3, ModDistanceUnique, Zenon
  <1> QED BY <1>1, <1>4, <1>5, Zenon

\* ... and moving the trailing one on, shorter.
LEMMA ModDistanceShrinks ==
  ASSUME NEW m \in Nat \ {0}, NEW a \in 0 .. m - 1, NEW b \in 0 .. m - 1, NEW d \in Nat,
         d <= (a - b) % m
  PROVE  (a - ((b + d) % m)) % m = ((a - b) % m) - d
  <1>1. PICK e : e = (a - b) % m
    OBVIOUS
  <1>2. e \in 0 .. m - 1 /\ (b + e) % m = a
    BY <1>1, ModDistance, Zenon
  <1>3. PICK f : f = e - d
    OBVIOUS
  <1>4. PICK c : c = (b + d) % m
    OBVIOUS
  <1>5. f \in 0 .. m - 1 /\ f \in Nat /\ b + d \in Nat /\ (b + d) + f = b + e
    BY <1>1, <1>2, <1>3
  <1>6. c \in 0 .. m - 1 /\ (c + f) % m = a
    <2>1. (((b + d) % m) + f) % m = ((b + d) + f) % m
      BY <1>5, ModSum, Zenon
    <2>2. c \in 0 .. m - 1
      BY <1>4, <1>5, DivMod
    <2> QED BY <1>2, <1>4, <1>5, <2>1, <2>2
  <1>7. (((c + f) % m) - c) % m = f
    BY <1>5, <1>6, ModDistanceUnique, Zenon
  <1> QED BY <1>1, <1>3, <1>4, <1>6, <1>7

\* Sums and differences of multiples are multiples.
LEMMA MultipleSum ==
  ASSUME NEW m \in Nat \ {0}, NEW a \in Nat, NEW b \in Nat, a % m = 0, b % m = 0
  PROVE  (a + b) % m = 0
  <1>1. ((a % m) + b) % m = (a + b) % m
    BY ModSum, Zenon
  <1> QED BY <1>1

LEMMA MultipleDifference ==
  ASSUME NEW m \in Nat \ {0}, NEW a \in Nat, NEW b \in Nat, a % m = 0, b % m = 0, b <= a
  PROVE  (a - b) % m = 0
  <1> DEFINE d == a - b
  <1>1. d \in Nat /\ a = b + d
    OBVIOUS
  <1> HIDE DEF d
  <1>2. ((b % m) + d) % m = (b + d) % m
    BY <1>1, ModSum, Zenon
  <1>3. d % m = 0
    BY <1>1, <1>2
  <1> QED BY <1>3 DEF d

\* Different multiples are at least the modulus apart.
LEMMA MultipleGap ==
  ASSUME NEW m \in Nat \ {0}, NEW a \in Nat, NEW b \in Nat, a % m = 0, b % m = 0, b < a
  PROVE  b + m <= a
  <1> DEFINE d == a - b
  <1>1. b <= a
    OBVIOUS
  <1>2. (a - b) % m = 0
    BY <1>1, MultipleDifference, Zenon
  <1>3. d \in Nat /\ d > 0 /\ d % m = 0 /\ a = b + d
    BY <1>2
  <1> HIDE DEF d
  <1>4. d >= m
    BY <1>3, ModSmall
  <1> QED BY <1>3, <1>4

\* The largest multiple up to n.
LEMMA RoundDown ==
  ASSUME NEW m \in Nat \ {0}, NEW n \in Nat
  PROVE  /\ (n \div m) * m \in 0 .. n
         /\ n - (n \div m) * m < m
         /\ ((n \div m) * m) % m = 0
  <1> DEFINE q == n \div m
  <1>1. n = (q * m) + (n % m) /\ q \in Nat /\ n % m \in 0 .. m - 1
    BY DivMod, Zenon
  <1> HIDE DEF q
  <1>2. 0 \in 0 .. m - 1
    OBVIOUS
  <1>3. (q * m + 0) % m = 0
    BY <1>1, <1>2, ModUnique
  <1>4. q * m \in Nat
    BY <1>1
  <1>5. q * m + 0 = q * m
    BY <1>4
  <1> QED BY <1>1, <1>3, <1>4, <1>5 DEF q

\* A set of naturals has a least member ...
LEMMA LeastMember ==
  ASSUME NEW S, S \subseteq Nat, S # {}
  PROVE  \E x \in S : \A y \in S : x <= y
  <1> DEFINE R == {p \in Nat \X Nat : p[1] < p[2]}
  <1>1. IsWellFoundedOn(R, Nat)
    BY NatLessThanWellFounded DEF OpToRel
  <1>2. PICK x \in S : \A y \in S : ~(<<y, x>> \in R)
    <2> HIDE DEF R
    <2> QED BY <1>1, WFMin, Zenon
  <1>3. \A y \in S : x <= y
    <2> TAKE y \in S
    <2>1. <<y, x>> \in Nat \X Nat /\ ~(<<y, x>> \in R)
      BY <1>2
    <2> QED BY <2>1
  <1> QED BY <1>3

\* ... and a bounded one a greatest.
LEMMA GreatestMember ==
  ASSUME NEW n \in Nat, NEW S, S \subseteq 0 .. n, S # {}
  PROVE  \E x \in S : \A y \in S : y <= x
  <1> DEFINE T == {k \in 0 .. n : n - k \in S}
  <1>1. T \subseteq Nat
    OBVIOUS
  <1>2. T # {}
    <2>1. PICK y \in S : TRUE
      BY Zenon
    <2>2. n - (n - y) = y /\ n - y \in 0 .. n
      OBVIOUS
    <2> QED BY <2>1, <2>2, Zenon
  <1>3. PICK k \in T : \A j \in T : k <= j
    <2> HIDE DEF T
    <2> QED BY <1>1, <1>2, LeastMember, Zenon
  <1>4. \A y \in S : y <= n - k
    <2> TAKE y \in S
    <2>1. n - (n - y) = y /\ n - y \in 0 .. n
      OBVIOUS
    <2>2. n - y \in T
      BY <2>1
    <2> QED BY <1>3, <2>2
  <1> QED BY <1>3, <1>4
==============================================================================
