---------------------------- MODULE NumbersProofs ----------------------------
(***************************************************************************)
(* The integer instructions compute what Arithmetic says, for all widths,  *)
(* operands and encodings of literals.  Numbers are related to their bits  *)
(* by division (a bit), and by sums (a number from its bits).  From there  *)
(* each instruction has a lemma on numbers, then one on the stack.         *)
(***************************************************************************)
EXTENDS Numbers, FiniteSetTheorems, SequenceTheorems, TLAPS

LEMMA SetInduction ==
  ASSUME NEW S, 0 \in S, \A n \in Nat : n \in S => n + 1 \in S
  PROVE  \A n \in Nat : n \in S
<1> DEFINE T == {n \in Nat : n \notin S}
           R == {ss \in Nat \X Nat : ss[1] < ss[2]}
<1>1. SUFFICES ASSUME T # {} PROVE FALSE
  OBVIOUS
<1>2. IsWellFoundedOn(R, Nat)
  BY NatLessThanWellFounded, Zenon DEF OpToRel
<1>3. T \subseteq Nat
  OBVIOUS
<1> HIDE DEF T, R
<1>4. PICK x \in T : \A y \in T : ~(<<y, x>> \in R)
  BY <1>1, <1>2, <1>3, WFMin
<1>5. x \in Nat /\ x # 0 /\ x \notin S
  BY <1>3 DEF T
<1>6. x - 1 \in Nat /\ x - 1 < x /\ (x - 1) + 1 = x
  BY <1>5
<1>7. <<x - 1, x>> \in R
  BY <1>5, <1>6 DEF R
<1>8. x - 1 \in S
  BY <1>4, <1>6, <1>7 DEF T
<1> QED
  BY <1>5, <1>6, <1>8

-----------------------------------------------------------------------------
(* Powers of 2.  2^n is how many subsets 1..n has.                         *)
LEMMA PowCard ==
  ASSUME NEW n \in Nat
  PROVE  /\ IsFiniteSet(1..n) /\ IsFiniteSet(SUBSET (1..n))
         /\ 2^n = Cardinality(SUBSET (1..n)) /\ 2^n \in Nat
<1>1. IsFiniteSet(1..n) /\ Cardinality(1..n) = n
  BY FS_Interval
<1>2. IsFiniteSet(SUBSET (1..n)) /\ Cardinality(SUBSET (1..n)) = 2^n
  BY <1>1, FS_SUBSET
<1> QED
  BY <1>1, <1>2, FS_CardinalityType

LEMMA PowStep ==
  ASSUME NEW n \in Nat
  PROVE  2^(n + 1) = 2^n + 2^n
<1> DEFINE A == SUBSET (1..n)
           f == [t \in A |-> t \cup {n + 1}]
           B == {f[t] : t \in A}
<1>1. IsFiniteSet(A) /\ Cardinality(A) = 2^n /\ 2^n \in Nat
  BY PowCard
<1>2. n + 1 \notin 1..n /\ n + 1 \in Nat
  OBVIOUS
<1>3. \A s, t \in A : f[s] = f[t] => s = t
  <2> SUFFICES ASSUME NEW s \in A, NEW t \in A, f[s] = f[t]
               PROVE  s = t
    OBVIOUS
  <2>1. n + 1 \notin s /\ n + 1 \notin t
    BY <1>2
  <2>2. s \cup {n + 1} = t \cup {n + 1}
    OBVIOUS
  <2> QED
    BY <2>1, <2>2
<1>4. f \in Bijection(A, B)
  <2>1. f \in [A -> B]
    OBVIOUS
  <2>2. \A u \in B : \E t \in A : f[t] = u
    OBVIOUS
  <2> HIDE DEF A, B, f
  <2> QED
    BY <1>3, <2>1, <2>2 DEF Bijection, Injection, Surjection, IsInjective
<1>5. IsFiniteSet(B) /\ Cardinality(B) = Cardinality(A)
  <2>1. ExistsBijection(A, B)
    BY <1>4 DEF ExistsBijection
  <2> HIDE DEF A, B
  <2> QED
    BY <1>1, <2>1, FS_Bijection
<1>6. A \cap B = {}
  BY <1>2
<1>7. A \cup B = SUBSET (1..(n + 1))
  <2>1. 1..(n + 1) = (1..n) \cup {n + 1}
    OBVIOUS
  <2>2. A \cup B \subseteq SUBSET (1..(n + 1))
    BY <2>1
  <2>3. ASSUME NEW s \in SUBSET (1..(n + 1)), s \notin A
        PROVE  s \in B
    <3>1. n + 1 \in s
      BY <2>1, <2>3
    <3>2. s \ {n + 1} \in A
      BY <2>1
    <3>3. f[s \ {n + 1}] = s
      BY <3>1, <3>2
    <3> QED
      BY <3>2, <3>3
  <2> QED
    BY <2>2, <2>3
<1> HIDE DEF A, B, f
<1>8. Cardinality(A \cup B) = Cardinality(A) + Cardinality(B) - Cardinality(A \cap B)
  BY <1>1, <1>5, FS_Union
<1>9. Cardinality({}) = 0
  BY FS_EmptySet
<1>10. 2^(n + 1) = Cardinality(SUBSET (1..(n + 1)))
  BY <1>2, PowCard
<1>11. Cardinality(A \cup B) = Cardinality(A) + Cardinality(A)
  <2>1. Cardinality(A \cap B) = 0 /\ Cardinality(B) = Cardinality(A) /\ Cardinality(A) \in Nat
    BY <1>1, <1>5, <1>6, <1>9
  <2>3. Cardinality(A \cup B) = Cardinality(A) + Cardinality(A) - 0
    BY <1>8, <2>1, Zenon
  <2> QED
    BY <2>1, <2>3
<1> QED
  BY <1>1, <1>7, <1>10, <1>11

(* What the other proofs use of powers.                                    *)
LEMMA Powers ==
  /\ 2^0 = 1 /\ 2^1 = 2
  /\ \A n \in Nat : 2^n \in Nat /\ 2^n >= 1 /\ n < 2^n /\ 2^(n + 1) = 2 * 2^n
<1>1. 2^0 = 1
  OBVIOUS
<1> DEFINE S == {n \in Nat : 2^n >= 1 /\ n < 2^n}
<1>2. 0 \in S
  BY <1>1
<1>3. ASSUME NEW n \in Nat, n \in S
      PROVE  n + 1 \in S
  <2>1. 2^(n + 1) = 2^n + 2^n /\ 2^n \in Nat
    BY PowStep, PowCard
  <2>2. 2^n >= 1 /\ n < 2^n
    BY <1>3
  <2> DEFINE p == 2^n
             q == 2^(n + 1)
  <2>3. p \in Nat /\ p >= 1 /\ n < p /\ q = p + p
    BY <2>1, <2>2
  <2> HIDE DEF p, q
  <2>4. q >= 1 /\ n + 1 < q
    BY <2>3
  <2> QED
    BY <2>4 DEF q
<1>4. \A n \in Nat : n \in S
  <2> HIDE DEF S
  <2> QED
    BY <1>2, <1>3, SetInduction
<1>5. ASSUME NEW n \in Nat
      PROVE  2^n \in Nat /\ 2^n >= 1 /\ n < 2^n /\ 2^(n + 1) = 2 * 2^n
  <2>1. 2^(n + 1) = 2^n + 2^n /\ 2^n \in Nat
    BY PowStep, PowCard
  <2>2. 2^n >= 1 /\ n < 2^n
    BY <1>4
  <2> QED
    BY <2>1, <2>2
<1>6. 2^1 = 2
  OBVIOUS
<1> QED
  BY <1>1, <1>5, <1>6

LEMMA PowSum ==
  ASSUME NEW a \in Nat, NEW b \in Nat
  PROVE  2^(a + b) = 2^a * 2^b
<1> DEFINE S == {n \in Nat : 2^(a + n) = 2^a * 2^n}
<1>1. 0 \in S
  <2>1. a + 0 = a /\ 2^0 = 1 /\ 2^a \in Nat
    BY Powers
  <2> QED
    BY <2>1
<1>2. ASSUME NEW n \in Nat, n \in S
      PROVE  n + 1 \in S
  <2>1. 2^(a + n) = 2^a * 2^n
    BY <1>2
  <2>2. 2^((a + n) + 1) = 2 * 2^(a + n) /\ 2^(n + 1) = 2 * 2^n /\ 2^a \in Nat /\ 2^n \in Nat
    BY Powers
  <2>3. (a + n) + 1 = a + (n + 1)
    OBVIOUS
  <2>4. \A p, q \in Nat : 2 * (p * q) = p * (2 * q)
    OBVIOUS
  <2>5. 2^(a + (n + 1)) = 2^a * 2^(n + 1)
    BY <2>1, <2>2, <2>3, <2>4
  <2> QED
    BY <2>5
<1>3. \A n \in Nat : n \in S
  <2> HIDE DEF S
  <2> QED
    BY <1>1, <1>2, SetInduction
<1> QED
  BY <1>3

LEMMA PowLess ==
  ASSUME NEW a \in Nat, NEW b \in Nat, a <= b
  PROVE  /\ b - a \in Nat /\ 2^b = 2^(b - a) * 2^a /\ 2^a <= 2^b
         /\ a < b => 2 * 2^a <= 2^b
<1>1. b - a \in Nat /\ (b - a) + a = b
  OBVIOUS
<1>2. 2^b = 2^(b - a) * 2^a
  BY <1>1, PowSum
<1>3. 2^(b - a) \in Nat /\ 2^(b - a) >= 1 /\ 2^a \in Nat
  BY <1>1, Powers
<1>4. a < b => 2^(b - a) >= 2
  <2> SUFFICES ASSUME a < b PROVE 2^(b - a) >= 2
    OBVIOUS
  <2>1. b - a - 1 \in Nat /\ (b - a - 1) + 1 = b - a
    BY <1>1
  <2>2. 2^(b - a) = 2 * 2^(b - a - 1) /\ 2^(b - a - 1) \in Nat /\ 2^(b - a - 1) >= 1
    BY <2>1, Powers
  <2> QED
    BY <2>2
<1>5. \A p, q \in Nat : (p >= 1 => q <= p * q) /\ (p >= 2 => 2 * q <= p * q)
  OBVIOUS
<1> QED
  BY <1>1, <1>2, <1>3, <1>4, <1>5

-----------------------------------------------------------------------------
(* Division.                                                               *)
LEMMA Grows ==
  ASSUME NEW k \in Int, NEW n \in Nat, k >= 1
  PROVE  k * n >= n
OBVIOUS

LEMMA Divided ==
  ASSUME NEW a \in Int, NEW n \in Nat \ {0}
  PROVE  /\ a \div n \in Int /\ a % n \in Int /\ 0 <= a % n /\ a % n < n
         /\ a = (a \div n) * n + (a % n)
OBVIOUS

LEMMA DivNat ==
  ASSUME NEW a \in Nat, NEW n \in Nat \ {0}
  PROVE  a \div n \in Nat /\ a \div n <= a /\ a % n <= a
<1> DEFINE q == a \div n
           r == a % n
<1>1. q \in Int /\ r \in Int /\ 0 <= r /\ r < n /\ a = q * n + r
  BY Divided
<1> HIDE DEF q, r
<1>2. q >= 0
  <2> SUFFICES ASSUME q < 0 PROVE FALSE
    BY <1>1
  <2> DEFINE k == -q
  <2>1. k \in Int /\ k >= 1 /\ n \in Nat /\ q = -k
    BY <1>1
  <2> HIDE DEF k
  <2>2. k * n >= n
    BY <2>1, Grows
  <2>3. q * n = -(k * n)
    BY <2>1
  <2> DEFINE z == k * n
  <2>4. z \in Int /\ z >= n /\ a = -z + r
    BY <1>1, <2>1, <2>2, <2>3
  <2> HIDE DEF z
  <2> QED
    BY <1>1, <2>4
<1>3. q * n >= q /\ q * n \in Nat
  <2>1. n \in Int /\ n >= 1 /\ q \in Nat
    BY <1>1, <1>2
  <2>2. n * q >= q
    BY <2>1, Grows
  <2>3. n * q = q * n
    BY <2>1
  <2> QED
    BY <2>1, <2>2, <2>3
<1> DEFINE z == q * n
<1>4. z \in Nat /\ z >= q /\ a = z + r
  BY <1>1, <1>3
<1> HIDE DEF z
<1>5. q \in Nat /\ q <= a /\ r <= a
  BY <1>1, <1>2, <1>4
<1> QED
  BY <1>5 DEF q, r

LEMMA DivUnique ==
  ASSUME NEW a \in Int, NEW n \in Nat \ {0}, NEW q \in Int, NEW r \in Int, 0 <= r, r < n,
         a = q * n + r
  PROVE  a \div n = q /\ a % n = r
<1> DEFINE p == a \div n
           s == a % n
<1>1. p \in Int /\ s \in Int /\ 0 <= s /\ s < n /\ a = p * n + s
  BY Divided
<1> HIDE DEF p, s
<1>2. (p - q) * n = r - s
  BY <1>1
<1>3. ~(p - q >= 1)
  <2> SUFFICES ASSUME p - q >= 1 PROVE FALSE
    OBVIOUS
  <2>1. (p - q) * n >= n
    <3> DEFINE k == p - q
    <3>1. k \in Int /\ k >= 1
      BY <1>1
    <3> HIDE DEF k
    <3>2. k * n >= n
      BY <3>1, Grows
    <3> QED
      BY <3>2 DEF k
  <2> QED
    BY <1>1, <1>2, <2>1
<1>4. ~(q - p >= 1)
  <2> SUFFICES ASSUME q - p >= 1 PROVE FALSE
    OBVIOUS
  <2>1. (q - p) * n >= n
    <3> DEFINE k == q - p
    <3>1. k \in Int /\ k >= 1
      BY <1>1
    <3> HIDE DEF k
    <3>2. k * n >= n
      BY <3>1, Grows
    <3> QED
      BY <3>2 DEF k
  <2>2. (q - p) * n = s - r
    BY <1>1
  <2> QED
    BY <1>1, <2>1, <2>2
<1>5. p = q
  BY <1>1, <1>3, <1>4
<1>6. s = r
  BY <1>1, <1>5
<1> QED
  BY <1>5, <1>6 DEF p, s

LEMMA DivDiv ==
  ASSUME NEW a \in Int, NEW m \in Nat \ {0}, NEW n \in Nat \ {0}
  PROVE  /\ m * n \in Nat \ {0}
         /\ (a \div m) \div n = a \div (m * n)
         /\ a % (m * n) = (a % m) + m * ((a \div m) % n)
<1> DEFINE p == a \div m
           r == a % m
           q == p \div n
           s == p % n
<1>1. p \in Int /\ r \in Int /\ 0 <= r /\ r < m /\ a = p * m + r
  BY Divided
<1>2. q \in Int /\ s \in Int /\ 0 <= s /\ s < n /\ p = q * n + s
  <2> HIDE DEF p
  <2> QED
    BY <1>1, Divided
<1> HIDE DEF p, r, q, s
<1>3. m * n \in Nat /\ m * n # 0
  <2>1. n * m >= m
    BY Grows
  <2> QED
    BY <2>1
<1>4. a = q * (m * n) + (r + m * s)
  <2>1. (q * n + s) * m = q * (m * n) + m * s
    BY <1>1, <1>2
  <2> QED
    BY <1>1, <1>2, <2>1
<1>5. m * s \in Nat /\ m * s + m <= m * n
  <2> DEFINE k == n - s
  <2>1. k \in Int /\ k >= 1 /\ n = s + k
    BY <1>2
  <2> HIDE DEF k
  <2>2. k * m >= m
    BY <2>1, Grows
  <2>3. m * (s + k) = m * s + k * m
    BY <1>2, <2>1
  <2> QED
    BY <1>2, <2>1, <2>2, <2>3
<1> DEFINE w == m * n
           z == m * s
<1>6. w \in Nat \ {0} /\ z \in Nat /\ z + m <= w /\ a = q * w + (r + z)
  BY <1>3, <1>4, <1>5
<1> HIDE DEF w, z
<1>7. r + z \in Int /\ 0 <= r + z /\ r + z < w
  BY <1>1, <1>6
<1>8. a \div w = q /\ a % w = r + z
  BY <1>2, <1>6, <1>7, DivUnique
<1> QED
  BY <1>3, <1>8 DEF w, z, q, s, p, r

(* A multiple more.                                                        *)
LEMMA MoreTimes ==
  ASSUME NEW a \in Int, NEW n \in Nat \ {0}, NEW k \in Int
  PROVE  (a + k * n) \div n = (a \div n) + k /\ (a + k * n) % n = a % n
<1> DEFINE p == a \div n
           s == a % n
           b == a + k * n
<1>1. p \in Int /\ s \in Int /\ 0 <= s /\ s < n /\ a = p * n + s
  BY Divided
<1> HIDE DEF p, s
<1>2. b = (p + k) * n + s /\ b \in Int /\ p + k \in Int
  BY <1>1
<1> HIDE DEF b
<1>3. b \div n = p + k /\ b % n = s
  BY <1>1, <1>2, DivUnique
<1> QED
  BY <1>3 DEF b, p, s

LEMMA ModMod ==
  ASSUME NEW a \in Int, NEW m \in Nat \ {0}, NEW n \in Nat \ {0}
  PROVE  (a % (m * n)) % m = a % m
<1> DEFINE k == (a \div m) % n
           r == a % m
<1>1. a % (m * n) = r + m * k /\ k \in Int /\ r \in Int /\ 0 <= r /\ r < m
  BY DivDiv, Divided
<1> HIDE DEF k
<1>2. a % (m * n) = r + k * m
  BY <1>1
<1> HIDE DEF r
<1>3. (r + k * m) % m = r % m
  BY <1>1, MoreTimes
<1>4. r % m = r
  <2>1. r = 0 * m + r
    BY <1>1
  <2> QED
    BY <1>1, <2>1, DivUnique
<1> QED
  BY <1>2, <1>3, <1>4 DEF r

LEMMA Small ==
  ASSUME NEW n \in Nat \ {0}, NEW a \in 0..(n - 1)
  PROVE  a \div n = 0 /\ a % n = a
<1>1. a = 0 * n + a /\ 0 <= a /\ a < n /\ a \in Int /\ 0 \in Int
  OBVIOUS
<1> QED
  BY <1>1, DivUnique

-----------------------------------------------------------------------------
(* Bits.                                                                   *)
LEMMA BitType ==
  ASSUME NEW n \in Int, NEW i \in Nat
  PROVE  2^i \in Nat \ {0} /\ n \div 2^i \in Int /\ BitOf(n, i) \in {0, 1}
<1>1. 2^i \in Nat \ {0}
  BY Powers
<1>2. n \div 2^i \in Int
  BY <1>1, Divided
<1> DEFINE k == n \div 2^i
<1>3. k \in Int
  BY <1>2
<1> HIDE DEF k
<1>4. k % 2 \in {0, 1}
  BY <1>3
<1> QED
  BY <1>1, <1>2, <1>4 DEF BitOf, k

LEMMA Pow ==
  ASSUME NEW n \in Nat
  PROVE  2^n \in Nat \ {0} /\ 2^n \in Nat /\ 2^n # 0
BY Powers

(* The bits of n \div 2^c are those from c on.                             *)
LEMMA BitDiv ==
  ASSUME NEW n \in Int, NEW c \in Nat, NEW i \in Nat
  PROVE  BitOf(n \div 2^c, i) = BitOf(n, i + c)
<1>1. 2^c \in Nat \ {0} /\ 2^i \in Nat \ {0} /\ 2^(c + i) = 2^c * 2^i
  <2>1. 2^c \in Nat \ {0} /\ 2^i \in Nat \ {0}
    BY Pow
  <2> QED
    BY <2>1, PowSum
<1>2. (n \div 2^c) \div 2^i = n \div (2^c * 2^i)
  BY <1>1, DivDiv
<1>3. c + i = i + c
  OBVIOUS
<1>4. (n \div 2^c) \div 2^i = n \div 2^(i + c)
  BY <1>1, <1>2, <1>3
<1> QED
  BY <1>4 DEF BitOf

(* Below w, the bits do not depend on multiples of 2^w.                    *)
LEMMA BitPlus ==
  ASSUME NEW n \in Int, NEW w \in Nat, NEW i \in Nat, i < w, NEW k \in Int
  PROVE  BitOf(n + k * 2^w, i) = BitOf(n, i)
<1> DEFINE v == w - i - 1
<1>1. v \in Nat /\ v + 1 = w - i /\ w - i \in Nat
  OBVIOUS
<1>2. 2^w = 2^(w - i) * 2^i /\ 2^(v + 1) = 2 * 2^v /\ 2^v \in Nat /\ 2^i \in Nat \ {0}
  BY <1>1, PowLess, Powers
<1> HIDE DEF v
<1> DEFINE p == 2^i
           h == 2^v
<1>3. p \in Nat \ {0} /\ h \in Nat /\ 2^w = (2 * h) * p
  BY <1>1, <1>2
<1> HIDE DEF p, h
<1> DEFINE m == k * (2 * h)
<1>4. k * 2^w = m * p /\ m \in Int
  BY <1>3
<1>5. m = (k * h) * 2 /\ k * h \in Int
  BY <1>3
<1> HIDE DEF m
<1>6. (n + m * p) \div p = (n \div p) + m
  BY <1>3, <1>4, MoreTimes
<1> DEFINE d == n \div p
<1>7. d \in Int
  BY <1>3, Divided
<1> HIDE DEF d
<1>8. (d + (k * h) * 2) % 2 = d % 2
  <2> DEFINE e == k * h
  <2>1. e \in Int /\ 2 \in Nat \ {0}
    BY <1>5
  <2> HIDE DEF e
  <2>2. (d + e * 2) % 2 = d % 2
    BY <2>1, <1>7, MoreTimes
  <2> QED
    BY <2>2 DEF e
<1>9. ((n + k * 2^w) \div p) % 2 = d % 2
  BY <1>4, <1>5, <1>6, <1>8 DEF d
<1> QED
  BY <1>9 DEF BitOf, d, p

LEMMA BitMod ==
  ASSUME NEW n \in Int, NEW w \in Nat, NEW i \in Nat, i < w
  PROVE  BitOf(n % 2^w, i) = BitOf(n, i)
<1>1. 2^w \in Nat \ {0}
  BY Powers
<1> DEFINE p == 2^w
           k == n \div 2^w
           r == n % 2^w
<1>2. k \in Int /\ r \in Int /\ n = k * p + r
  BY <1>1, Divided
<1> HIDE DEF k, r
<1>3. n = r + k * 2^w
  BY <1>1, <1>2
<1>4. BitOf(r + k * 2^w, i) = BitOf(r, i)
  BY <1>2, BitPlus
<1> QED
  BY <1>3, <1>4 DEF r

LEMMA BitHigh ==
  ASSUME NEW w \in Nat, NEW i \in Nat, w <= i, NEW n \in 0..(2^w - 1)
  PROVE  BitOf(n, i) = 0
<1>1. 2^w <= 2^i /\ 2^w \in Nat /\ 2^i \in Nat \ {0}
  BY PowLess, Powers
<1>2. n \in 0..(2^i - 1)
  BY <1>1
<1>3. n \div 2^i = 0
  BY <1>1, <1>2, Small
<1>4. 0 % 2 = 0
  OBVIOUS
<1> QED
  BY <1>3, <1>4 DEF BitOf

LEMMA BitNegative ==
  ASSUME NEW w \in Nat, NEW i \in Nat, w <= i, NEW n \in Int, -(2^w) <= n, n < 0
  PROVE  BitOf(n, i) = 1
<1>1. 2^w <= 2^i /\ 2^w \in Nat /\ 2^i \in Nat \ {0}
  BY PowLess, Powers
<1> DEFINE p == 2^i
<1>2. p \in Nat \ {0} /\ n + p \in Int /\ 0 <= n + p /\ n + p < p
  BY <1>1
<1> HIDE DEF p
<1>3. n = (-1) * p + (n + p)
  BY <1>2
<1>4. n \div p = -1
  BY <1>2, <1>3, DivUnique
<1>5. (-1) % 2 = 1
  <2>1. -1 = (-1) * 2 + 1 /\ 2 \in Nat \ {0} /\ -1 \in Int /\ 1 \in Int /\ 0 <= 1 /\ 1 < 2
    OBVIOUS
  <2> QED
    BY <2>1, DivUnique
<1> QED
  BY <1>4, <1>5 DEF BitOf, p

LEMMA BitTimes ==
  ASSUME NEW n \in Int, NEW c \in Nat, NEW i \in Nat
  PROVE  BitOf(n * 2^c, i) = IF i < c THEN 0 ELSE BitOf(n, i - c)
<1>0. 2^c \in Nat \ {0} /\ 2^i \in Nat \ {0}
  BY Powers
<1>1. CASE i < c
  <2>1. BitOf(0 + n * 2^c, i) = BitOf(0, i)
    BY <1>1, BitPlus
  <2>2. 0 + n * 2^c = n * 2^c
    BY <1>0
  <2>3. 0 \in 0..(2^0 - 1)
    BY Powers
  <2>4. BitOf(0, i) = 0
    <3>1. 0 \in Nat /\ 0 <= i
      OBVIOUS
    <3> QED
      BY <2>3, <3>1, BitHigh
  <2> QED
    BY <1>1, <2>1, <2>2, <2>4
<1>2. CASE ~(i < c)
  <2>1. i - c \in Nat /\ (i - c) + c = i
    BY <1>2
  <2>2. BitOf((n * 2^c) \div 2^c, i - c) = BitOf(n * 2^c, (i - c) + c)
    <3>1. n * 2^c \in Int
      BY <1>0
    <3> DEFINE m == n * 2^c
    <3> HIDE DEF m
    <3>2. BitOf(m \div 2^c, i - c) = BitOf(m, (i - c) + c)
      BY <2>1, <3>1, BitDiv DEF m
    <3> QED
      BY <3>2 DEF m
  <2>3. (n * 2^c) \div 2^c = n
    <3> DEFINE p == 2^c
    <3>1. p \in Nat \ {0}
      BY <1>0
    <3> HIDE DEF p
    <3>2. (0 + n * p) \div p = (0 \div p) + n /\ 0 \div p = 0
      BY <3>1, MoreTimes, Small
    <3>3. 0 + n * p = n * p
      BY <3>1
    <3> QED
      BY <3>2, <3>3 DEF p
  <2> QED
    BY <1>2, <2>1, <2>2, <2>3
<1> QED
  BY <1>1, <1>2

(* The remainder by the next power has one bit more.                       *)
LEMMA NextBit ==
  ASSUME NEW n \in Int, NEW i \in Nat
  PROVE  n % 2^(i + 1) = (n % 2^i) + 2^i * BitOf(n, i)
<1>1. 2^i \in Nat \ {0} /\ 2^(i + 1) = 2 * 2^i
  BY Powers
<1>2. 2^i * 2 = 2^(i + 1)
  BY <1>1
<1>3. n % (2^i * 2) = (n % 2^i) + 2^i * ((n \div 2^i) % 2)
  <2> DEFINE p == 2^i
  <2>1. p \in Nat \ {0} /\ 2 \in Nat \ {0}
    BY <1>1
  <2> HIDE DEF p
  <2>2. n % (p * 2) = (n % p) + p * ((n \div p) % 2)
    BY <2>1, DivDiv
  <2> QED
    BY <2>2 DEF p
<1> QED
  BY <1>2, <1>3 DEF BitOf

LEMMA SameBits ==
  ASSUME NEW w \in Nat, NEW a \in 0..(2^w - 1), NEW b \in 0..(2^w - 1),
         \A i \in 0..(w - 1) : BitOf(a, i) = BitOf(b, i)
  PROVE  a = b
<1> DEFINE S == {n \in Nat : n <= w => a % 2^n = b % 2^n}
<1>0. a \in Int /\ b \in Int /\ 2^w \in Nat \ {0}
  BY Powers
<1>1. 0 \in S
  <2>1. a % 1 = 0 /\ b % 1 = 0 /\ 2^0 = 1
    BY Powers
  <2> QED
    BY <2>1
<1>2. ASSUME NEW n \in Nat, n \in S
      PROVE  n + 1 \in S
  <2> SUFFICES ASSUME n + 1 <= w
               PROVE  a % 2^(n + 1) = b % 2^(n + 1)
    OBVIOUS
  <2>1. a % 2^n = b % 2^n /\ BitOf(a, n) = BitOf(b, n)
    BY <1>2
  <2>2. /\ a % 2^(n + 1) = (a % 2^n) + 2^n * BitOf(a, n)
        /\ b % 2^(n + 1) = (b % 2^n) + 2^n * BitOf(b, n)
    BY <1>0, NextBit
  <2> QED
    BY <2>1, <2>2
<1>3. \A n \in Nat : n \in S
  <2> HIDE DEF S
  <2> QED
    BY <1>1, <1>2, SetInduction
<1>4. a % 2^w = b % 2^w
  BY <1>3
<1>5. a % 2^w = a /\ b % 2^w = b
  BY <1>0, Small
<1> QED
  BY <1>4, <1>5

LEMMA NoHighBits ==
  ASSUME NEW w \in Nat, NEW v \in Nat, w <= v, NEW n \in 0..(2^v - 1),
         \A i \in w..(v - 1) : BitOf(n, i) = 0
  PROVE  n \in 0..(2^w - 1)
<1>1. 2^w <= 2^v /\ 2^w \in Nat \ {0} /\ 2^v \in Nat
  BY PowLess, Powers
<1> DEFINE m == n % 2^w
<1>2. m \in 0..(2^w - 1)
  BY <1>1, Divided
<1>3. m \in 0..(2^v - 1)
  BY <1>1, <1>2
<1>4. \A i \in 0..(w - 1) : BitOf(m, i) = BitOf(n, i)
  BY <1>1, BitMod
<1> HIDE DEF m
<1>5. \A i \in w..(v - 1) : BitOf(m, i) = 0
  BY <1>2, BitHigh
<1>6. \A i \in 0..(v - 1) : BitOf(m, i) = BitOf(n, i)
  BY <1>4, <1>5
<1>7. m = n
  BY <1>3, <1>6, SameBits
<1> QED
  BY <1>2, <1>7

LEMMA SignBit ==
  ASSUME NEW w \in Nat \ {0}, NEW n \in 0..(2^w - 1)
  PROVE  /\ w - 1 \in Nat /\ 2^w = 2 * 2^(w - 1) /\ 2^(w - 1) \in Nat \ {0}
         /\ BitOf(n, w - 1) = IF n >= 2^(w - 1) THEN 1 ELSE 0
<1>1. w - 1 \in Nat /\ (w - 1) + 1 = w
  OBVIOUS
<1>2. 2^w = 2 * 2^(w - 1) /\ 2^(w - 1) \in Nat \ {0}
  BY <1>1, Powers
<1> DEFINE p == 2^(w - 1)
<1>3. 2^w = 2 * p /\ p \in Nat \ {0} /\ n \in 0..(2 * p - 1)
  BY <1>2
<1> HIDE DEF p
<1>4. ASSUME n >= p
      PROVE  (n \div p) % 2 = 1
  <2>1. n = 1 * p + (n - p) /\ n - p \in Int /\ 0 <= n - p /\ n - p < p
    BY <1>3, <1>4
  <2>2. n \div p = 1
    BY <1>3, <2>1, DivUnique
  <2> QED
    BY <2>2
<1>5. ASSUME ~(n >= p)
      PROVE  (n \div p) % 2 = 0
  <2>1. n \in 0..(p - 1)
    BY <1>3, <1>5
  <2>2. n \div p = 0
    BY <1>3, <2>1, Small
  <2> QED
    BY <2>2
<1> QED
  BY <1>1, <1>2, <1>4, <1>5 DEF BitOf, p

LEMMA PowBits ==
  ASSUME NEW i \in Nat, NEW j \in Nat
  PROVE  BitOf(2^i, j) = IF i = j THEN 1 ELSE 0
<1>1. BitOf(1 * 2^i, j) = IF j < i THEN 0 ELSE BitOf(1, j - i)
  BY BitTimes
<1>2. 1 * 2^i = 2^i
  BY Powers
<1>3. BitOf(1, 0) = 1
  <2>1. BitOf(1, 0) = (1 \div 1) % 2
    BY Powers DEF BitOf
  <2> QED
    BY <2>1
<1>4. ASSUME i < j
      PROVE  BitOf(1, j - i) = 0
  <2>1. 1 \in 0..(2^1 - 1) /\ j - i \in Nat /\ 1 <= j - i /\ 1 \in Nat
    BY <1>4, Powers
  <2> QED
    BY <2>1, BitHigh
<1>5. i = j => j - i = 0
  OBVIOUS
<1> QED
  BY <1>1, <1>2, <1>3, <1>4, <1>5

-----------------------------------------------------------------------------
(* Sums.  The sum of f over s is how many pairs of an element i of s and a *)
(* number below f[i] there are.                                            *)
Pairs(s, f) == {x \in s \X Nat : x[2] < f[x[1]]}
Chosen(s) == CHOOSE x \in s : TRUE
Summing(S, f, h) ==
  h = [s \in SUBSET S |-> IF s = {} THEN 0 ELSE f[Chosen(s)] + h[s \ {Chosen(s)}]]
SumOver(S, f) == (CHOOSE h : Summing(S, f, h))[S]

LEMMA SumUnfolds ==
  ASSUME NEW S, NEW f \in [S -> Nat]
  PROVE  SumFunction(f) = SumOver(S, f)
<1>1. DOMAIN f = S
  OBVIOUS
<1>2. SumFunction(f) = SumOver(DOMAIN f, f)
  BY Zenon DEF SumFunction, SumFunctionOnSet, FoldFunctionOnSet, MapThenFoldSet, SumOver, Summing,
     Chosen
<1> QED
  BY <1>1, <1>2, Zenon

LEMMA Row ==
  ASSUME NEW x, NEW n \in Nat
  PROVE  IsFiniteSet({<<x, k>> : k \in 0..(n - 1)}) /\ Cardinality({<<x, k>> : k \in 0..(n - 1)}) = n
<1> DEFINE A == 0..(n - 1)
           f == [k \in A |-> <<x, k>>]
           B == {<<x, k>> : k \in A}
<1>1. IsFiniteSet(A) /\ Cardinality(A) = n
  BY FS_Interval
<1>2. f \in [A -> B] /\ (\A u \in B : \E k \in A : f[k] = u)
  OBVIOUS
<1>3. \A j, k \in A : f[j] = f[k] => j = k
  OBVIOUS
<1>4. ExistsBijection(A, B)
  <2> HIDE DEF A, B, f
  <2>1. f \in Bijection(A, B)
    BY <1>2, <1>3 DEF Bijection, Injection, Surjection, IsInjective
  <2> QED
    BY <2>1 DEF ExistsBijection
<1> HIDE DEF A, B, f
<1>5. IsFiniteSet(B) /\ Cardinality(B) = n
  BY <1>1, <1>4, FS_Bijection
<1> QED
  BY <1>5 DEF A, B

LEMMA PairsStep ==
  ASSUME NEW S, NEW f \in [S -> Nat], NEW s \in SUBSET S, NEW x \in s,
         IsFiniteSet(Pairs(s \ {x}, f))
  PROVE  /\ IsFiniteSet(Pairs(s, f))
         /\ Cardinality(Pairs(s, f)) = Cardinality(Pairs(s \ {x}, f)) + f[x]
<1> DEFINE A == Pairs(s \ {x}, f)
           R == {<<x, k>> : k \in 0..(f[x] - 1)}
<1>1. f[x] \in Nat
  OBVIOUS
<1>2. IsFiniteSet(R) /\ Cardinality(R) = f[x]
  BY <1>1, Row
<1>3. A \cap R = {}
  BY DEF Pairs
<1>4. Pairs(s, f) = A \cup R
  <2>1. A \cup R \subseteq Pairs(s, f)
    BY <1>1 DEF Pairs
  <2>2. ASSUME NEW u \in Pairs(s, f), u \notin A
        PROVE  u \in R
    <3>1. u \in s \X Nat /\ u[2] < f[u[1]]
      BY DEF Pairs
    <3>2. u[1] = x
      BY <2>2, <3>1 DEF Pairs
    <3>3. u = <<x, u[2]>> /\ u[2] \in 0..(f[x] - 1)
      BY <1>1, <3>1, <3>2
    <3> QED
      BY <3>3
  <2> QED
    BY <2>1, <2>2
<1> HIDE DEF A, R
<1>5. IsFiniteSet(A)
  BY DEF A
<1>6. Cardinality(A \cup R) = Cardinality(A) + Cardinality(R) - Cardinality(A \cap R)
  BY <1>2, <1>5, FS_Union
<1>7. IsFiniteSet(A \cup R)
  BY <1>2, <1>5, FS_Union
<1>8. Cardinality(A \cap R) = 0 /\ Cardinality(A) \in Nat
  BY <1>3, <1>5, FS_EmptySet, FS_CardinalityType
<1>9. Cardinality(A \cup R) = Cardinality(A) + f[x]
  BY <1>1, <1>2, <1>6, <1>8
<1> QED
  BY <1>4, <1>7, <1>9 DEF A

LEMMA PairsNone ==
  ASSUME NEW f
  PROVE  Pairs({}, f) = {} /\ IsFiniteSet(Pairs({}, f)) /\ Cardinality(Pairs({}, f)) = 0
<1>1. Pairs({}, f) = {}
  BY DEF Pairs
<1> QED
  BY <1>1, FS_EmptySet

LEMMA PairsFinite ==
  ASSUME NEW S, IsFiniteSet(S), NEW f \in [S -> Nat]
  PROVE  \A s \in SUBSET S : IsFiniteSet(Pairs(s, f)) /\ Cardinality(Pairs(s, f)) \in Nat
<1> DEFINE T == {n \in Nat : \A s \in SUBSET S : Cardinality(s) = n => IsFiniteSet(Pairs(s, f))}
<1>0. \A s \in SUBSET S : IsFiniteSet(s) /\ Cardinality(s) \in Nat
  BY FS_Subset, FS_CardinalityType
<1>1. 0 \in T
  <2> SUFFICES ASSUME NEW s \in SUBSET S, Cardinality(s) = 0
               PROVE  IsFiniteSet(Pairs(s, f))
    OBVIOUS
  <2>1. s = {}
    BY <1>0, FS_EmptySet
  <2> QED
    BY <2>1, PairsNone
<1>2. ASSUME NEW n \in Nat, n \in T
      PROVE  n + 1 \in T
  <2> SUFFICES ASSUME NEW s \in SUBSET S, Cardinality(s) = n + 1
               PROVE  IsFiniteSet(Pairs(s, f))
    OBVIOUS
  <2>1. s # {}
    BY FS_EmptySet
  <2>2. PICK x \in s : TRUE
    BY <2>1
  <2>3. Cardinality(s \ {x}) = n /\ s \ {x} \in SUBSET S
    BY <1>0, <2>2, FS_RemoveElement
  <2>4. IsFiniteSet(Pairs(s \ {x}, f))
    BY <1>2, <2>3
  <2> QED
    BY <2>4, PairsStep
<1>3. \A n \in Nat : n \in T
  <2> HIDE DEF T
  <2> QED
    BY <1>1, <1>2, SetInduction
<1>4. \A s \in SUBSET S : IsFiniteSet(Pairs(s, f))
  BY <1>0, <1>3
<1> QED
  BY <1>4, FS_CardinalityType

LEMMA SumIs ==
  ASSUME NEW S, IsFiniteSet(S), NEW f \in [S -> Nat]
  PROVE  SumFunction(f) = Cardinality(Pairs(S, f))
<1> DEFINE g == [s \in SUBSET S |-> Cardinality(Pairs(s, f))]
           h == CHOOSE h : Summing(S, f, h)
           T == {n \in Nat : \A s \in SUBSET S : Cardinality(s) = n => h[s] = g[s]}
<1>0. \A s \in SUBSET S : IsFiniteSet(s) /\ Cardinality(s) \in Nat
  BY FS_Subset, FS_CardinalityType
<1>1. \A s \in SUBSET S : s # {} => /\ Chosen(s) \in s /\ s \ {Chosen(s)} \in SUBSET S
                                    /\ Cardinality(s \ {Chosen(s)}) = Cardinality(s) - 1
  <2> SUFFICES ASSUME NEW s \in SUBSET S, s # {}
               PROVE  /\ Chosen(s) \in s /\ s \ {Chosen(s)} \in SUBSET S
                      /\ Cardinality(s \ {Chosen(s)}) = Cardinality(s) - 1
    OBVIOUS
  <2>1. Chosen(s) \in s
    BY DEF Chosen
  <2> QED
    BY <1>0, <2>1, FS_RemoveElement
<1>2. \A s \in SUBSET S :
        g[s] = IF s = {} THEN 0 ELSE f[Chosen(s)] + g[s \ {Chosen(s)}]
  <2> SUFFICES ASSUME NEW s \in SUBSET S
               PROVE  g[s] = IF s = {} THEN 0 ELSE f[Chosen(s)] + g[s \ {Chosen(s)}]
    OBVIOUS
  <2>1. CASE s = {}
    BY <2>1, PairsNone
  <2>2. CASE s # {}
    <3> DEFINE x == Chosen(s)
    <3>1. x \in s /\ s \ {x} \in SUBSET S
      BY <1>1, <2>2
    <3> HIDE DEF x
    <3>2. IsFiniteSet(Pairs(s \ {x}, f)) /\ Cardinality(Pairs(s \ {x}, f)) \in Nat
      BY <3>1, PairsFinite
    <3>3. Cardinality(Pairs(s, f)) = Cardinality(Pairs(s \ {x}, f)) + f[x]
      BY <3>1, <3>2, PairsStep
    <3>4. f[x] \in Nat
      BY <3>1
    <3>5. g[s] = f[x] + g[s \ {x}]
      BY <3>1, <3>2, <3>3, <3>4
    <3> QED
      BY <2>2, <3>5 DEF x
  <2> QED
    BY <2>1, <2>2
<1>3. Summing(S, f, g)
  <2>1. g = [s \in SUBSET S |-> g[s]]
    OBVIOUS
  <2> HIDE DEF g
  <2> QED
    BY <1>2, <2>1, Zenon DEF Summing
<1>4. Summing(S, f, h)
  BY <1>3, Zenon
<1> HIDE DEF g, h
<1>5. \A s \in SUBSET S :
        h[s] = IF s = {} THEN 0 ELSE f[Chosen(s)] + h[s \ {Chosen(s)}]
  BY <1>4, Zenon DEF Summing
<1>6. 0 \in T
  <2> SUFFICES ASSUME NEW s \in SUBSET S, Cardinality(s) = 0
               PROVE  h[s] = g[s]
    OBVIOUS
  <2>1. s = {}
    BY <1>0, FS_EmptySet
  <2> QED
    BY <1>2, <1>5, <2>1
<1>7. ASSUME NEW n \in Nat, n \in T
      PROVE  n + 1 \in T
  <2> SUFFICES ASSUME NEW s \in SUBSET S, Cardinality(s) = n + 1
               PROVE  h[s] = g[s]
    OBVIOUS
  <2>1. s # {}
    BY FS_EmptySet
  <2>2. s \ {Chosen(s)} \in SUBSET S /\ Cardinality(s \ {Chosen(s)}) = n
    BY <1>1, <2>1
  <2>3. h[s \ {Chosen(s)}] = g[s \ {Chosen(s)}]
    BY <1>7, <2>2
  <2> QED
    BY <1>2, <1>5, <2>1, <2>3
<1>8. \A n \in Nat : n \in T
  <2> HIDE DEF T
  <2> QED
    BY <1>6, <1>7, SetInduction
<1>9. h[S] = g[S]
  BY <1>0, <1>8
<1>10. SumFunction(f) = h[S]
  BY SumUnfolds DEF SumOver, h
<1> QED
  BY <1>9, <1>10 DEF g

LEMMA SumStep ==
  ASSUME NEW S, IsFiniteSet(S), NEW f \in [S -> Nat], NEW x \in S
  PROVE  /\ SumFunction(f) = SumFunction([i \in S \ {x} |-> f[i]]) + f[x]
         /\ SumFunction([i \in S \ {x} |-> f[i]]) \in Nat
<1> DEFINE R == S \ {x}
           g == [i \in R |-> f[i]]
<1>1. IsFiniteSet(R) /\ g \in [R -> Nat] /\ R \in SUBSET S /\ S \in SUBSET S
  BY FS_Subset
<1>2. Pairs(R, g) = Pairs(R, f)
  BY DEF Pairs
<1>3. IsFiniteSet(Pairs(R, f)) /\ Cardinality(Pairs(R, f)) \in Nat
  BY <1>1, PairsFinite
<1>4. Cardinality(Pairs(S, f)) = Cardinality(Pairs(R, f)) + f[x]
  BY <1>1, <1>3, PairsStep
<1> HIDE DEF R, g
<1>5. SumFunction(g) = Cardinality(Pairs(R, g))
  BY <1>1, SumIs
<1>6. SumFunction(f) = Cardinality(Pairs(S, f))
  BY SumIs
<1>7. SumFunction(f) = SumFunction(g) + f[x] /\ SumFunction(g) \in Nat
  BY <1>2, <1>3, <1>4, <1>5, <1>6
<1> QED
  BY <1>7 DEF g, R

LEMMA SumNone ==
  ASSUME NEW f \in [{} -> Nat]
  PROVE  SumFunction(f) = 0
<1>1. IsFiniteSet({})
  BY FS_EmptySet
<1>2. SumFunction(f) = Cardinality(Pairs({}, f))
  BY <1>1, SumIs
<1> QED
  BY <1>2, PairsNone

-----------------------------------------------------------------------------
(* A number is the sum of its bits.                                        *)
LEMMA BitsSum ==
  ASSUME NEW n \in Int, NEW w \in Nat
  PROVE  SumFunction([i \in 0..(w - 1) |-> BitOf(n, i) * 2^i]) = n % 2^w
<1> DEFINE F(k) == [i \in 0..(k - 1) |-> BitOf(n, i) * 2^i]
           T == {k \in Nat : SumFunction(F(k)) = n % 2^k}
<1>1. \A i \in Nat : BitOf(n, i) * 2^i \in Nat
  <2> SUFFICES ASSUME NEW i \in Nat PROVE BitOf(n, i) * 2^i \in Nat
    OBVIOUS
  <2>1. BitOf(n, i) \in Nat /\ 2^i \in Nat
    BY BitType
  <2> QED
    BY <2>1
<1>2. \A k \in Nat : F(k) \in [0..(k - 1) -> Nat]
  BY <1>1
<1>3. 0 \in T
  <2>1. 0..(0 - 1) = {} /\ 0 \in Nat
    OBVIOUS
  <2>2. F(0) \in [{} -> Nat]
    BY <1>2, <2>1
  <2> HIDE DEF F
  <2>3. SumFunction(F(0)) = 0
    BY <2>2, SumNone
  <2>4. 2^0 = 1 /\ n % 1 = 0
    BY Powers
  <2> QED
    BY <2>3, <2>4
<1>4. ASSUME NEW k \in Nat, k \in T
      PROVE  k + 1 \in T
  <2> DEFINE S == 0..((k + 1) - 1)
             f == F(k + 1)
             g == [i \in S \ {k} |-> f[i]]
  <2>1. k + 1 \in Nat /\ k \in S /\ S \ {k} = 0..(k - 1)
    OBVIOUS
  <2>2. IsFiniteSet(S)
    BY <2>1, FS_Interval
  <2>3. f \in [S -> Nat]
    BY <1>2, <2>1
  <2>4. f[k] = BitOf(n, k) * 2^k
    OBVIOUS
  <2>5. g = F(k)
    BY <2>1
  <2> HIDE DEF S, f, F
  <2>6. SumFunction(f) = SumFunction(g) + f[k] /\ SumFunction(g) \in Nat
    BY <2>1, <2>2, <2>3, SumStep
  <2>7. n % 2^(k + 1) = (n % 2^k) + 2^k * BitOf(n, k)
    BY NextBit
  <2>8. BitOf(n, k) \in Nat /\ 2^k \in Nat
    BY BitType
  <2>9. SumFunction(F(k)) = n % 2^k
    BY <1>4
  <2>10. SumFunction(f) = n % 2^(k + 1)
    BY <2>4, <2>5, <2>6, <2>7, <2>8, <2>9
  <2> QED
    BY <2>10 DEF f
<1>5. \A k \in Nat : k \in T
  <2> HIDE DEF T
  <2> QED
    BY <1>3, <1>4, SetInduction
<1>6. SumFunction(F(w)) = n % 2^w
  <2> HIDE DEF F
  <2> QED
    BY <1>5
<1> QED
  BY <1>6

(* Arithmetic's operators on sets are those of Numbers.                    *)
LEMMA SameSum ==
  ASSUME NEW f
  PROVE  Ideal!SumFunction(f) = SumFunction(f)
BY Zenon DEF SumFunction, SumFunctionOnSet, FoldFunctionOnSet, MapThenFoldSet,
   Ideal!SumFunction, Ideal!SumFunctionOnSet, Ideal!FoldFunctionOnSet, Ideal!MapThenFoldSet

LEMMA SameSets ==
  ASSUME NEW S
  PROVE  Ideal!Max(S) = Max(S) /\ Ideal!Min(S) = Min(S) /\ Ideal!Cardinality(S) = Cardinality(S)
<1>1. Ideal!Max(S) = Max(S) /\ Ideal!Min(S) = Min(S)
  BY Zenon DEF Ideal!Max, Max, Ideal!Min, Min
<1>2. Ideal!Cardinality(S) = Cardinality(S)
  BY DEF Ideal!Cardinality, Cardinality
<1> QED
  BY <1>1, <1>2

(* A number whose bits are b[i] is what FromBits makes of b.               *)
LEMMA ByBits ==
  ASSUME NEW w \in Nat, NEW x \in 0..(2^w - 1), NEW b,
         \A i \in 0..(w - 1) : b[i] = BitOf(x, i)
  PROVE  x = Ideal!FromBits(w, b)
<1>1. [i \in 0..(w - 1) |-> b[i] * 2^i] = [i \in 0..(w - 1) |-> BitOf(x, i) * 2^i]
  OBVIOUS
<1>3. 2^w \in Nat \ {0} /\ x \in Int
  BY Pow
<1>2. SumFunction([i \in 0..(w - 1) |-> BitOf(x, i) * 2^i]) = x % 2^w
  BY <1>3, BitsSum
<1>4. x % 2^w = x
  BY <1>3, Small
<1>5. SumFunction([i \in 0..(w - 1) |-> b[i] * 2^i]) = x
  BY <1>1, <1>2, <1>4
<1> QED
  BY <1>5, SameSum DEF Ideal!FromBits

LEMMA ModBits ==
  ASSUME NEW w \in Nat, NEW x \in Int, NEW b,
         \A i \in 0..(w - 1) : b[i] = BitOf(x, i)
  PROVE  x % 2^w = Ideal!FromBits(w, b)
<1> DEFINE y == x % 2^w
<1>1. 2^w \in Nat \ {0}
  BY Pow
<1>2. y \in 0..(2^w - 1)
  BY <1>1, Divided
<1>3. \A i \in 0..(w - 1) : b[i] = BitOf(y, i)
  BY BitMod
<1> HIDE DEF y
<1>4. y = Ideal!FromBits(w, b)
  BY <1>2, <1>3, ByBits
<1> QED
  BY <1>4 DEF y

-----------------------------------------------------------------------------
(* Numbers in the code.                                                    *)
LEMMA GroupType ==
  /\ Group \in Nat \ {0} /\ W32 \in Nat \ {0} /\ W64 \in Nat \ {0} /\ W64 = 2 * W32
  /\ Group <= W64 /\ More \in Nat \ {0} /\ More = 2^Group
  /\ \A i \in Nat \ {0} : Shift(i) \in Nat
  /\ \A i \in Nat : Shift(i + 1) \in Nat /\ Shift(i + 1) = Group * i
<1>1. Group \in Nat \ {0} /\ W32 \in Nat \ {0} /\ W64 \in Nat \ {0} /\ W64 = 2 * W32 /\ Group <= W64
  BY NumbersAssumption
<1>2. More \in Nat \ {0} /\ More = 2^Group
  BY <1>1, Pow DEF More
<1>3. \A i \in Nat \ {0} : Group * (i - 1) \in Nat
  BY <1>1
<1>4. \A i \in Nat : Group * ((i + 1) - 1) \in Nat /\ Group * ((i + 1) - 1) = Group * i
  BY <1>1
<1> QED
  BY <1>1, <1>2, <1>3, <1>4 DEF Shift

LEMMA EncodeSlice ==
  ASSUME NEW v \in Int, NEW m \in Nat, NEW i \in 1..m
  PROVE  /\ DOMAIN Encode(v, m) = 1..m
         /\ Slice(Encode(v, m), i) = (v \div 2^Shift(i)) % More
         /\ i = m => Encode(v, m)[i] = (v \div 2^Shift(i)) % More
         /\ (v \div 2^Shift(i)) % More \in 0..(More - 1)
<1> DEFINE d == (v \div 2^Shift(i)) % More
<1>1. Shift(i) \in Nat /\ More \in Nat \ {0}
  BY GroupType
<1>2. 2^Shift(i) \in Nat \ {0}
  BY <1>1, Pow
<1>3. d \in 0..(More - 1)
  <2>1. v \div 2^Shift(i) \in Int
    BY <1>2, Divided
  <2> DEFINE u == v \div 2^Shift(i)
  <2> HIDE DEF u
  <2>2. u % More \in Int /\ 0 <= u % More /\ u % More < More
    BY <1>1, <2>1, Divided DEF u
  <2> QED
    BY <1>1, <2>2 DEF u
<1>4. Encode(v, m)[i] = d + (IF i < m THEN More ELSE 0) /\ DOMAIN Encode(v, m) = 1..m
  BY DEF Encode
<1> HIDE DEF d
<1>5. (d + (IF i < m THEN More ELSE 0)) % More = d
  <2>1. (d + 1 * More) % More = d % More
    <3>1. d \in Int /\ 1 \in Int
      BY <1>1, <1>3
    <3> QED
      BY <1>1, <3>1, MoreTimes
  <2>3. d % More = d
    BY <1>1, <1>3, Small
  <2>2. d + 1 * More = d + More /\ d + 0 = d
    BY <1>1, <1>3
  <2> QED
    BY <2>1, <2>2, <2>3
<1>6. i = m => Encode(v, m)[i] = d
  BY <1>3, <1>4
<1> QED
  BY <1>3, <1>4, <1>5, <1>6 DEF d, Slice

LEMMA SumOfEncode ==
  ASSUME NEW v \in Int, NEW m \in Nat
  PROVE  SumOf(Encode(v, m)) = v % 2^(Group * m)
<1> DEFINE D(i) == ((v \div 2^Shift(i)) % More) * 2^Shift(i)
           F(k) == [i \in 1..k |-> D(i)]
           T == {k \in Nat : SumFunction(F(k)) = v % 2^(Group * k)}
<1>1. \A i \in Nat \ {0} : D(i) \in Nat
  <2> SUFFICES ASSUME NEW i \in Nat \ {0} PROVE D(i) \in Nat
    OBVIOUS
  <2>1. i \in 1..i
    OBVIOUS
  <2>2. (v \div 2^Shift(i)) % More \in 0..(More - 1) /\ More \in Nat /\ Shift(i) \in Nat
    BY <2>1, EncodeSlice, GroupType
  <2>3. (v \div 2^Shift(i)) % More \in Nat /\ 2^Shift(i) \in Nat
    BY <2>2, Pow
  <2> QED
    BY <2>3
<1>2. \A k \in Nat : F(k) \in [1..k -> Nat]
  BY <1>1
<1>3. 0 \in T
  <2>1. 1..0 = {} /\ Group * 0 = 0
    BY GroupType
  <2>2. F(0) \in [{} -> Nat]
    BY <1>2, <2>1
  <2> HIDE DEF F
  <2>3. SumFunction(F(0)) = 0
    BY <2>2, SumNone
  <2>4. 2^0 = 1 /\ v % 1 = 0
    BY Powers
  <2> QED
    BY <2>1, <2>3, <2>4
<1>4. ASSUME NEW k \in Nat, k \in T
      PROVE  k + 1 \in T
  <2> DEFINE S == 1..(k + 1)
             f == F(k + 1)
             g == [i \in S \ {k + 1} |-> f[i]]
  <2>1. k + 1 \in Nat /\ k + 1 \in S /\ S \ {k + 1} = 1..k
    OBVIOUS
  <2>2. IsFiniteSet(S)
    BY <2>1, FS_Interval
  <2>3. f \in [S -> Nat]
    BY <1>2, <2>1
  <2>4. f[k + 1] = D(k + 1)
    BY <2>1
  <2>5. g = F(k)
    BY <2>1
  <2> HIDE DEF S, f, F
  <2>6. SumFunction(f) = SumFunction(g) + f[k + 1] /\ SumFunction(g) \in Nat
    BY <2>1, <2>2, <2>3, SumStep
  <2>7. v % 2^(Group * (k + 1)) = (v % 2^(Group * k)) + 2^(Group * k) * ((v \div 2^(Group * k)) % More)
    <3>1. Group * k \in Nat /\ Group \in Nat /\ Group * (k + 1) = Group * k + Group /\ More = 2^Group
      BY GroupType
    <3>2. 2^(Group * k + Group) = 2^(Group * k) * 2^Group
      BY <3>1, PowSum
    <3> DEFINE p == 2^(Group * k)
               q == 2^Group
    <3>3. p \in Nat \ {0} /\ q \in Nat \ {0}
      BY <3>1, Pow
    <3> HIDE DEF p, q
    <3>4. v % (p * q) = (v % p) + p * ((v \div p) % q)
      BY <3>3, DivDiv
    <3> QED
      BY <3>1, <3>2, <3>4 DEF p, q
  <2>8. Shift(k + 1) = Group * k
    BY GroupType
  <2>9. SumFunction(F(k)) = v % 2^(Group * k)
    BY <1>4
  <2> DEFINE d == (v \div 2^(Group * k)) % More
             p == 2^(Group * k)
  <2>10. f[k + 1] = d * p
    BY <2>4, <2>8
  <2>11. d \in Nat /\ p \in Nat
    <3>1. k + 1 \in 1..(k + 1) /\ Group * k \in Nat
      BY GroupType
    <3>2. (v \div 2^Shift(k + 1)) % More \in 0..(More - 1)
      BY <2>1, <3>1, EncodeSlice
    <3>3. d \in 0..(More - 1)
      BY <3>2, <2>8
    <3> QED
      BY <3>1, <3>3, Pow, GroupType
  <2>12. v % 2^(Group * (k + 1)) = (v % p) + p * d
    BY <2>7
  <2>13. SumFunction(g) = v % p
    BY <2>5, <2>9
  <2> HIDE DEF d, p, D
  <2>14. SumFunction(f) = v % 2^(Group * (k + 1))
    BY <2>6, <2>10, <2>11, <2>12, <2>13
  <2> QED
    BY <2>14 DEF f
<1>5. \A k \in Nat : k \in T
  <2> HIDE DEF T
  <2> QED
    BY <1>3, <1>4, SetInduction
<1>6. [i \in DOMAIN Encode(v, m) |-> Slice(Encode(v, m), i) * 2^Shift(i)] = F(m)
  <2>1. DOMAIN Encode(v, m) = 1..m
    BY DEF Encode
  <2>2. \A i \in 1..m : Slice(Encode(v, m), i) = (v \div 2^Shift(i)) % More
    BY EncodeSlice
  <2> QED
    BY <2>1, <2>2
<1>7. SumFunction(F(m)) = v % 2^(Group * m)
  <2> HIDE DEF F
  <2> QED
    BY <1>5
<1> HIDE DEF F
<1> QED
  BY <1>6, <1>7 DEF SumOf

(* The machine's instructions, from its assumption.                        *)
LEMMA Machine ==
  ASSUME NEW a \in 0..(2^W64 - 1), NEW b \in 0..(2^W64 - 1)
  PROVE  /\ BitAnd(a, b) \in 0..(2^W64 - 1) /\ BitOr(a, b) \in 0..(2^W64 - 1)
         /\ BitXor(a, b) \in 0..(2^W64 - 1)
         /\ \A i \in 0..(W64 - 1) :
              /\ BitOf(BitAnd(a, b), i) = BitOf(a, i) * BitOf(b, i)
              /\ BitOf(BitOr(a, b), i) = Max({BitOf(a, i), BitOf(b, i)})
              /\ BitOf(BitXor(a, b), i) = (BitOf(a, i) + BitOf(b, i)) % 2
<1>1. BitByBit(a, b)
  BY NumbersAssumption
<1> QED
  BY <1>1 DEF BitByBit

LEMMA MaxBits ==
  ASSUME NEW a \in {0, 1}, NEW b \in {0, 1}
  PROVE  Max({a, b}) = IF a = 1 \/ b = 1 THEN 1 ELSE 0
<1>1. \E x \in {a, b} : \A y \in {a, b} : x >= y
  OBVIOUS
<1>2. Max({a, b}) \in {a, b} /\ \A y \in {a, b} : Max({a, b}) >= y
  BY <1>1, Zenon DEF Max
<1> QED
  BY <1>2

LEMMA AndBit ==
  ASSUME NEW n \in 0..(2^W64 - 1), NEW i \in 0..(W64 - 1)
  PROVE  BitAnd(n, 2^i) # 0 <=> BitOf(n, i) = 1
<1> DEFINE r == BitAnd(n, 2^i)
<1>1. i \in Nat /\ W64 \in Nat /\ i < W64 /\ i <= W64
  BY GroupType
<1>2. 2 * 2^i <= 2^W64 /\ 2^i \in Nat \ {0} /\ 2^W64 \in Nat
  BY <1>1, PowLess, Pow
<1>3. 2^i \in 0..(2^W64 - 1) /\ n \in Int
  BY <1>2
<1>4. /\ r \in 0..(2^W64 - 1)
      /\ \A j \in 0..(W64 - 1) : BitOf(r, j) = BitOf(n, j) * BitOf(2^i, j)
  BY <1>3, Machine
<1> HIDE DEF r
<1>5. \A j \in 0..(W64 - 1) : j \in Nat /\ BitOf(n, j) \in {0, 1} /\ BitOf(2^i, j) = IF i = j THEN 1 ELSE 0
  <2> SUFFICES ASSUME NEW j \in 0..(W64 - 1)
               PROVE  j \in Nat /\ BitOf(n, j) \in {0, 1} /\ BitOf(2^i, j) = IF i = j THEN 1 ELSE 0
    OBVIOUS
  <2>1. j \in Nat
    BY <1>1
  <2>2. BitOf(n, j) \in {0, 1}
    BY <1>3, <2>1, BitType
  <2>3. BitOf(2^i, j) = IF i = j THEN 1 ELSE 0
    BY <1>1, <2>1, PowBits
  <2> QED
    BY <2>1, <2>2, <2>3
<1>6. ASSUME BitOf(n, i) = 1
      PROVE  r # 0
  <2>1. BitOf(r, i) = 1
    BY <1>4, <1>5, <1>6
  <2>2. 0 \in 0..(2^0 - 1) /\ 0 \in Nat /\ 0 <= i
    BY <1>1, Powers
  <2>3. BitOf(0, i) = 0
    BY <1>1, <2>2, BitHigh
  <2> QED
    BY <2>1, <2>3
<1>7. ASSUME BitOf(n, i) # 1
      PROVE  r = 0
  <2>1. BitOf(n, i) = 0
    BY <1>5, <1>7
  <2>2. \A j \in 0..(W64 - 1) : BitOf(r, j) = 0
    BY <1>4, <1>5, <2>1
  <2>3. 0 \in Nat /\ 0 <= W64
    BY <1>1
  <2>4. r \in 0..(2^0 - 1)
    BY <1>1, <1>4, <2>2, <2>3, NoHighBits
  <2> QED
    BY <2>4, Powers
<1> QED
  BY <1>6, <1>7 DEF r

(* What a number of w bits is as a signed one.                             *)
LEMMA ModNegative ==
  ASSUME NEW p \in Nat \ {0}, NEW x \in Int, -p <= x, x < 0
  PROVE  x % p = x + p
<1>1. x = (-1) * p + (x + p) /\ x + p \in Int /\ 0 <= x + p /\ x + p < p /\ -1 \in Int
  OBVIOUS
<1> QED
  BY <1>1, DivUnique

LEMMA SignedBack ==
  ASSUME NEW w \in Nat \ {0}, NEW n \in 0..(2^w - 1)
  PROVE  /\ ToSigned(w, n) = Ideal!Signed(w, n)
         /\ ToSigned(w, n) \in Int
         /\ -(2^(w - 1)) <= ToSigned(w, n) /\ ToSigned(w, n) < 2^(w - 1)
         /\ ToSigned(w, n) = (IF BitOf(n, w - 1) = 1 THEN n - 2^w ELSE n)
         /\ ToSigned(w, n) % 2^w = n
<1>1. /\ w - 1 \in Nat /\ 2^w = 2 * 2^(w - 1) /\ 2^(w - 1) \in Nat \ {0}
      /\ BitOf(n, w - 1) = IF n >= 2^(w - 1) THEN 1 ELSE 0
  BY SignBit
<1>2. ToSigned(w, n) = Ideal!Signed(w, n)
  BY <1>1 DEF ToSigned, Ideal!Signed, Ideal!Bit, BitOf
<1> DEFINE h == 2^(w - 1)
<1>3. 2^w = 2 * h /\ h \in Nat \ {0} /\ n \in 0..(2 * h - 1) /\ 2 * h \in Nat \ {0}
  BY <1>1
<1>4. ToSigned(w, n) = IF n >= h THEN n - 2 * h ELSE n
  BY <1>1 DEF ToSigned
<1> HIDE DEF h
<1>5. n >= h => (n - 2 * h) % (2 * h) = n
  <2> SUFFICES ASSUME n >= h PROVE (n - 2 * h) % (2 * h) = n
    OBVIOUS
  <2> DEFINE p == 2 * h
             x == n - p
  <2>1. p \in Nat \ {0} /\ x \in Int /\ -p <= x /\ x < 0 /\ x + p = n
    BY <1>3
  <2> HIDE DEF p, x
  <2>2. x % p = x + p
    BY <2>1, ModNegative
  <2> QED
    BY <2>1, <2>2 DEF x, p
<1>6. n % (2 * h) = n
  BY <1>3, Small
<1>7. /\ ToSigned(w, n) \in Int /\ -h <= ToSigned(w, n) /\ ToSigned(w, n) < h
      /\ ToSigned(w, n) % (2 * h) = n
  BY <1>3, <1>4, <1>5, <1>6
<1>8. ToSigned(w, n) = (IF BitOf(n, w - 1) = 1 THEN n - 2^w ELSE n)
  BY <1>1 DEF ToSigned
<1> QED
  BY <1>2, <1>3, <1>7, <1>8 DEF h

LEMMA ReadSigned ==
  ASSUME NEW m \in Nat \ {0}, NEW v \in Int,
         -(2^(Group * m - 1)) <= v, v < 2^(Group * m - 1)
  PROVE  ReadLebI64(Encode(v, m)) = v % 2^W64
<1> DEFINE K == Group * m
           s == v % 2^K
           b == Encode(v, m)[m]
<1>1. /\ Group \in Nat \ {0} /\ W64 \in Nat \ {0} /\ Group <= W64 /\ More \in Nat \ {0}
      /\ More = 2^Group /\ Shift(m) \in Nat /\ SignFill(m) = K
  BY GroupType DEF SignFill
<1>2. K \in Nat /\ K - 1 \in Nat /\ (K - 1) + 1 = K /\ Group - 1 \in Nat /\ Shift(m) = K - Group
  <2>1. m * Group >= Group
    BY <1>1, Grows
  <2>2. Group * (m - 1) = Group * m - Group /\ m * Group = Group * m
    BY <1>1
  <2> QED
    BY <1>1, <2>1, <2>2 DEF Shift
<1>3. SumOf(Encode(v, m)) = s
  BY SumOfEncode
<1>4. Len(Encode(v, m)) = m
  <2> DEFINE e == Encode(v, m)
  <2>1. e = [i \in 1..m |-> e[i]]
    BY Zenon DEF Encode
  <2> HIDE DEF e
  <2>2. Len([i \in 1..m |-> e[i]]) = m
    OBVIOUS
  <2> QED
    BY <2>1, <2>2 DEF e
<1>5. m \in 1..m
  OBVIOUS
<1>6. b = (v \div 2^Shift(m)) % More /\ b \in 0..(More - 1)
  BY <1>5, EncodeSlice
<1>7. b \in 0..(2^W64 - 1)
  <2>1. 2^Group <= 2^W64 /\ 2^W64 \in Nat
    BY <1>1, PowLess, Pow
  <2> QED
    BY <1>1, <1>6, <2>1
<1>8. BitOf(b, Group - 1) = BitOf(v, K - 1)
  <2> DEFINE u == v \div 2^Shift(m)
  <2>1. u \in Int
    BY <1>1, BitType
  <2>2. Group - 1 < Group /\ Group \in Nat
    BY <1>1
  <2> HIDE DEF u
  <2>3. BitOf(u % 2^Group, Group - 1) = BitOf(u, Group - 1)
    BY <1>2, <2>1, <2>2, BitMod
  <2>4. BitOf(v \div 2^Shift(m), Group - 1) = BitOf(v, (Group - 1) + Shift(m))
    BY <1>1, <1>2, BitDiv
  <2>5. (Group - 1) + Shift(m) = K - 1
    BY <1>1, <1>2
  <2> QED
    BY <1>1, <1>6, <2>3, <2>4, <2>5 DEF u
<1>9. BitAnd(b, 2^(Group - 1)) # 0 <=> BitOf(v, K - 1) = 1
  <2>1. Group - 1 \in 0..(W64 - 1)
    BY <1>1, <1>2
  <2>2. BitAnd(b, 2^(Group - 1)) # 0 <=> BitOf(b, Group - 1) = 1
    <3> HIDE DEF b
    <3> QED
      BY <1>7, <2>1, AndBit
  <2> QED
    BY <1>8, <2>2
<1>10. BitOf(v, K - 1) = 1 <=> v < 0
  <2>1. 2^(K - 1) \in Nat /\ K - 1 <= K - 1
    BY <1>2, Pow
  <2>2. ASSUME v < 0
        PROVE  BitOf(v, K - 1) = 1
    <3>1. -(2^(K - 1)) <= v
      OBVIOUS
    <3> HIDE DEF K
    <3> QED
      BY <1>2, <2>1, <2>2, <3>1, BitNegative
  <2>3. ASSUME ~(v < 0)
        PROVE  BitOf(v, K - 1) = 0
    <3>1. v \in 0..(2^(K - 1) - 1)
      BY <2>1, <2>3
    <3> HIDE DEF K
    <3> QED
      BY <1>2, <2>1, <3>1, BitHigh
  <2> QED
    BY <2>2, <2>3
<1>11. ReadLebI64(Encode(v, m)) =
         (s % 2^W64) + (IF K < W64 /\ v < 0 THEN 2^W64 - 2^K ELSE 0)
  <2> HIDE DEF K, s
  <2> QED
    BY <1>1, <1>3, <1>4, <1>9, <1>10 DEF ReadLebI64, b
<1>12. 2^W64 \in Nat \ {0} /\ 2^K \in Nat \ {0} /\ 2^K = 2 * 2^(K - 1) /\ 2^(K - 1) \in Nat
       /\ -(2^(K - 1)) <= v /\ v < 2^(K - 1)
  BY <1>1, <1>2, Pow, Powers
<1> HIDE DEF K, b
<1>13. CASE K >= W64
  <2>1. K - W64 \in Nat /\ 2^K = 2^(K - W64) * 2^W64 /\ 2^(K - W64) \in Nat \ {0}
    BY <1>1, <1>2, <1>13, PowLess, Pow
  <2> DEFINE p == 2^W64
             q == 2^(K - W64)
  <2>2. p \in Nat \ {0} /\ q \in Nat \ {0} /\ 2^K = p * q
    BY <1>12, <2>1
  <2>3. (v % (p * q)) % p = v % p
    <3> HIDE DEF p, q
    <3> QED
      BY <2>2, ModMod
  <2>4. s % p = v % p /\ v % p \in Int
    BY <2>2, <2>3, Divided
  <2>5. ~(K < W64)
    BY <1>1, <1>2, <1>13
  <2> QED
    BY <1>11, <2>4, <2>5
<1>14. CASE K < W64 /\ v < 0
  <2>1. 2^K <= 2^W64
    BY <1>1, <1>2, <1>14, PowLess
  <2>2. s = v + 2^K
    BY <1>12, <1>14, ModNegative
  <2>3. v % 2^W64 = v + 2^W64
    BY <1>12, <1>14, <2>1, ModNegative
  <2>4. s \in 0..(2^W64 - 1)
    BY <1>12, <1>14, <2>1, <2>2
  <2>5. s % 2^W64 = s
    <3> HIDE DEF s
    <3> QED
      BY <1>12, <2>4, Small
  <2> QED
    BY <1>11, <1>12, <1>14, <2>2, <2>3, <2>5
<1>15. CASE K < W64 /\ ~(v < 0)
  <2>1. v \in 0..(2^K - 1)
    BY <1>12, <1>15
  <2>2. s = v
    BY <1>12, <2>1, Small
  <2>3. v % 2^W64 \in Int
    BY <1>12, Divided
  <2> QED
    BY <1>11, <1>15, <2>2, <2>3
<1> QED
  BY <1>1, <1>2, <1>13, <1>14, <1>15

-----------------------------------------------------------------------------
(* Slots.                                                                  *)
Kinds == {"i32", "i64"}

LEMMA WidthType ==
  ASSUME NEW t \in Kinds
  PROVE  /\ Width(t) \in {W32, W64} /\ Width(t) \in Nat \ {0} /\ Ideal!Width(t) = Width(t)
         /\ Width("i32") = W32 /\ Width("i64") = W64
BY GroupType DEF Width, Ideal!Width, Kinds

LEMMA Wide ==
  ASSUME NEW w \in {W32, W64}
  PROVE  /\ w \in Nat \ {0} /\ w <= W64 /\ 2^w \in Nat \ {0} /\ 2^W64 \in Nat \ {0}
         /\ 2^w <= 2^W64 /\ w < 2^w
<1>1. w \in Nat \ {0} /\ w <= W64 /\ W64 \in Nat
  BY GroupType
<1>2. 2^w <= 2^W64
  BY <1>1, PowLess
<1> QED
  BY <1>1, <1>2, Pow, Powers

LEMMA Halves ==
  2^W64 = 2^W32 * 2^W32 /\ 2^W32 \in Nat \ {0} /\ 2^W64 \in Nat \ {0}
<1>1. W64 = W32 + W32 /\ W32 \in Nat /\ W64 \in Nat
  BY GroupType
<1> QED
  BY <1>1, PowSum, Pow

LEMMA UnsignedType ==
  ASSUME NEW t \in Kinds, NEW s \in 0..(2^W64 - 1)
  PROVE  Unsigned(t, s) \in 0..(2^Width(t) - 1)
<1>1. 2^Width(t) \in Nat \ {0} /\ s \in Int
  BY WidthType, Wide, Halves
<1> DEFINE p == 2^Width(t)
<1> HIDE DEF p
<1>2. s % p \in 0..(p - 1)
  BY <1>1, Divided DEF p
<1> QED
  BY <1>2 DEF Unsigned, p

LEMMA NewIs ==
  ASSUME NEW t \in Kinds, NEW n \in 0..(2^Width(t) - 1), NEW s \in NewValues(t, n)
  PROVE  s \in 0..(2^W64 - 1) /\ Unsigned(t, s) = n
<1>1. CASE t = "i64"
  <2>1. s = n /\ Width(t) = W64
    BY <1>1 DEF NewValues, Width
  <2>2. n % 2^W64 = n
    BY <2>1, Halves, Small
  <2> QED
    BY <2>1, <2>2 DEF Unsigned
<1>2. CASE t = "i32"
  <2>1. PICK h \in Stale : s = n + h * 2^W32
    BY <1>2 DEF NewValues
  <2>2. Width(t) = W32
    BY <1>2 DEF Width
  <2> DEFINE p == 2^W32
  <2>3. h \in 0..(p - 1) /\ n \in 0..(p - 1) /\ p \in Nat \ {0} /\ 2^W64 = p * p
    BY <2>2, Halves, NumbersAssumption
  <2>4. s = n + h * p
    BY <2>1
  <2> HIDE DEF p
  <2>5. (n + h * p) % p = n % p /\ n % p = n
    <3>1. n \in Int /\ h \in Int
      BY <2>3
    <3> QED
      BY <2>3, <3>1, MoreTimes, Small
  <2>6. h * p + p <= p * p /\ h * p \in Nat
    <3> DEFINE k == p - h
    <3>1. k \in Int /\ k >= 1 /\ p = h + k /\ p \in Nat
      BY <2>3
    <3> HIDE DEF k
    <3>2. k * p >= p
      BY <3>1, Grows
    <3>3. (h + k) * p = h * p + k * p
      BY <2>3, <3>1
    <3> QED
      BY <2>3, <3>1, <3>2, <3>3
  <2> DEFINE z == h * p
             y == p * p
  <2>7. z + p <= y /\ z \in Nat /\ y \in Int
    BY <2>3, <2>6
  <2> HIDE DEF z, y
  <2>8. n + z \in 0..(y - 1)
    BY <2>3, <2>7
  <2>9. s \in 0..(2^W64 - 1)
    BY <2>3, <2>4, <2>8 DEF z, y
  <2> QED
    BY <2>2, <2>4, <2>5, <2>9 DEF Unsigned, p
<1> QED
  BY <1>1, <1>2 DEF Kinds

LEMMA AssignIs ==
  ASSUME NEW t \in Kinds, NEW s \in 0..(2^W64 - 1), NEW n \in 0..(2^Width(t) - 1)
  PROVE  Assign(t, s, n) \in 0..(2^W64 - 1) /\ Unsigned(t, Assign(t, s, n)) = n
<1>1. CASE t = "i64"
  <2>1. Assign(t, s, n) = n /\ Width(t) = W64
    BY <1>1 DEF Assign, Width
  <2>2. n % 2^W64 = n
    BY <2>1, Halves, Small
  <2> QED
    BY <2>1, <2>2 DEF Unsigned
<1>2. CASE t = "i32"
  <2>1. Assign(t, s, n) = (s - (s % 2^W32)) + n
    BY <1>2 DEF Assign
  <2>2. Width(t) = W32
    BY <1>2 DEF Width
  <2> DEFINE p == 2^W32
             h == s \div p
             r == s % p
  <2>3. n \in 0..(p - 1) /\ p \in Nat \ {0} /\ 2^W64 = p * p /\ s \in Int
    BY <2>2, Halves
  <2>4. h \in Int /\ r \in Int /\ 0 <= r /\ r < p /\ s = h * p + r
    <3> HIDE DEF p
    <3> QED
      BY <2>3, Divided
  <2>5. Assign(t, s, n) = (s - r) + n
    BY <2>1
  <2>6. 0 <= s /\ s < p * p
    BY <2>3
  <2> HIDE DEF p, h, r
  <2>7. h * p >= 0 /\ h * p + p <= p * p
    <3>1. h >= 0
      <4> SUFFICES ASSUME h < 0 PROVE FALSE
        BY <2>4
      <4> DEFINE k == -h
      <4>1. k \in Int /\ k >= 1 /\ h = -k /\ p \in Nat
        BY <2>3, <2>4
      <4> HIDE DEF k
      <4>2. k * p >= p
        BY <4>1, Grows
      <4>3. h * p = -(k * p)
        BY <2>3, <4>1
      <4> QED
        BY <2>3, <2>4, <2>6, <4>1, <4>2, <4>3
    <3>2. h < p
      <4> SUFFICES ASSUME h >= p PROVE FALSE
        BY <2>3, <2>4
      <4>1. h * p >= p * p
        BY <2>3, <2>4
      <4> DEFINE z == h * p
                 y == p * p
      <4>2. z \in Int /\ y \in Int /\ z >= y /\ s = z + r /\ s < y
        BY <2>3, <2>4, <2>6, <4>1
      <4> HIDE DEF z, y
      <4> QED
        BY <2>4, <4>2
    <3> DEFINE k == p - h
    <3>3. k \in Int /\ k >= 1 /\ p = h + k /\ p \in Nat
      BY <2>3, <2>4, <3>2
    <3> HIDE DEF k
    <3>4. k * p >= p
      BY <3>3, Grows
    <3>5. (h + k) * p = h * p + k * p
      BY <2>3, <2>4, <3>3
    <3>6. h * p >= 0
      BY <2>3, <2>4, <3>1
    <3> DEFINE z == h * p
               x == k * p
               y == p * p
    <3>7. y = z + x /\ z >= 0 /\ x >= p
      BY <3>3, <3>4, <3>5, <3>6
    <3>8. z \in Int /\ x \in Int /\ y \in Int
      BY <2>3, <2>4, <3>3
    <3> HIDE DEF z, x, y
    <3>9. z + p <= y
      BY <2>3, <3>7, <3>8
    <3> QED
      BY <3>6, <3>9 DEF z, y
  <2>8. s - r = h * p /\ h * p \in Int /\ p * p \in Int
    BY <2>3, <2>4
  <2>9. (n + h * p) % p = n % p /\ n % p = n
    <3>1. n \in Int
      BY <2>3
    <3> QED
      BY <2>3, <2>4, <3>1, MoreTimes, Small
  <2> DEFINE z == h * p
             y == p * p
  <2>10. s - r = z /\ z \in Int /\ y \in Int /\ z >= 0 /\ z + p <= y /\ (n + z) % p = n
    BY <2>7, <2>8, <2>9
  <2>11. 2^W64 = y
    BY <2>3
  <2> HIDE DEF z, y
  <2>12. z + n \in 0..(y - 1) /\ z + n = n + z
    BY <2>3, <2>10
  <2>13. Assign(t, s, n) = z + n
    BY <2>5, <2>10
  <2>14. Unsigned(t, Assign(t, s, n)) = (z + n) % p
    BY <2>2, <2>13 DEF Unsigned, p
  <2> QED
    BY <2>10, <2>11, <2>12, <2>13, <2>14
<1> QED
  BY <1>1, <1>2 DEF Kinds

(* A literal is read as the number that it was written for.                *)
LEMMA ReadLebBack ==
  ASSUME NEW t \in Kinds, NEW n \in 0..(2^Width(t) - 1),
         NEW bytes \in SignedEncodings(Width(t), ToSigned(Width(t), n))
  PROVE  ReadLeb(t, bytes) = n
<1> DEFINE w == Width(t)
           v == ToSigned(w, n)
<1>1. w \in Nat \ {0} /\ w \in {W32, W64} /\ n \in 0..(2^w - 1)
  BY WidthType
<1>2. v \in Int /\ v % 2^w = n
  <2> HIDE DEF w
  <2> QED
    BY <1>1, SignedBack
<1>3. PICK m \in Lengths(w) : /\ v \in -(2^(Group * m - 1))..(2^(Group * m - 1) - 1)
                              /\ bytes = Encode(v, m)
  BY DEF SignedEncodings
<1> HIDE DEF w, v
<1>4. m \in Nat \ {0}
  BY <1>3 DEF Lengths
<1>5. -(2^(Group * m - 1)) <= v /\ v < 2^(Group * m - 1)
  <2>1. m * Group >= Group
    BY <1>4, GroupType, Grows
  <2>2. Group * m - 1 \in Nat
    BY <1>4, <2>1, GroupType
  <2>3. 2^(Group * m - 1) \in Nat
    BY <2>2, Pow
  <2> QED
    BY <1>2, <1>3, <2>3
<1>6. ReadLebI64(bytes) = v % 2^W64
  BY <1>2, <1>3, <1>4, <1>5, ReadSigned
<1>7. CASE t = "i64"
  BY <1>2, <1>6, <1>7 DEF ReadLeb, w, Width
<1>8. CASE t = "i32"
  <2>1. ReadLeb(t, bytes) = (v % 2^W64) % 2^W32 /\ w = W32
    BY <1>6, <1>8 DEF ReadLeb, w, Width
  <2> DEFINE p == 2^W32
  <2>2. p \in Nat \ {0} /\ 2^W64 = p * p
    BY Halves
  <2> HIDE DEF p
  <2>3. (v % (p * p)) % p = v % p
    BY <1>2, <2>2, ModMod
  <2> QED
    BY <1>2, <2>1, <2>2, <2>3 DEF p
<1> QED
  BY <1>7, <1>8 DEF Kinds

LEMMA ReadIndex ==
  ASSUME NEW n \in 0..(2^W32 - 1), NEW bytes \in UnsignedEncodings(W32, n)
  PROVE  ReadLebU32(bytes) = n
<1>1. PICK m \in Lengths(W32) : n < 2^(Group * m) /\ bytes = Encode(n, m)
  BY DEF UnsignedEncodings
<1>2. /\ Group \in Nat \ {0} /\ W32 \in Nat \ {0} /\ W64 = 2 * W32 /\ More \in Nat \ {0}
      /\ More = 2^Group
  BY GroupType
<1>3. m \in Nat \ {0} /\ m <= (W32 + Group - 1) \div Group
  BY <1>1, <1>2 DEF Lengths
<1>4. Group * (m - 1) < W32
  <2> DEFINE a == W32 + Group - 1
             q == a \div Group
  <2>1. a \in Int /\ a >= 0
    BY <1>2
  <2>2. q \in Int /\ a % Group \in Int /\ 0 <= a % Group /\ a = q * Group + (a % Group)
    <3> HIDE DEF a
    <3> QED
      BY <1>2, <2>1, Divided
  <2> DEFINE r == a % Group
  <2>3. r \in Int /\ 0 <= r /\ a = q * Group + r /\ m <= q
    BY <1>3, <2>2
  <2>4. a = W32 + Group - 1
    OBVIOUS
  <2> HIDE DEF a, q, r
  <2>5. \A g \in Nat : m * g <= q * g
    BY <1>3, <2>2, <2>3
  <2>6. m * Group <= q * Group
    BY <1>2, <2>5
  <2>7. Group * (m - 1) = m * Group - Group /\ m * Group \in Int /\ q * Group \in Int
    BY <1>2, <1>3, <2>2
  <2> DEFINE x == m * Group
             y == q * Group
  <2>8. x <= y /\ x \in Int /\ y \in Int /\ a = y + r /\ Group * (m - 1) = x - Group
    BY <2>3, <2>6, <2>7
  <2> HIDE DEF x, y
  <2> QED
    BY <1>2, <2>1, <2>3, <2>4, <2>8
<1>5. 2^W32 \in Nat \ {0} /\ 2^W64 \in Nat \ {0} /\ 2^W32 <= 2^W64 /\ n \in Int
  BY Wide
<1>6. ASSUME NEW i \in 1..m
      PROVE  ~TooBig(Slice(bytes, i), Shift(i))
  <2> DEFINE sh == Shift(i)
             d == (n \div 2^sh) % More
             u == n \div 2^sh
  <2>1. Slice(bytes, i) = d
    BY <1>1, <1>3, <1>5, EncodeSlice
  <2>2. sh \in Nat /\ sh < W64
    <3>1. sh = Group * (i - 1) /\ i \in Nat \ {0}
      BY <1>3 DEF Shift
    <3>2. \A g \in Nat : g * (i - 1) <= g * (m - 1) /\ g * (i - 1) \in Nat
      BY <1>3
    <3>3. Group * (i - 1) <= Group * (m - 1) /\ Group * (i - 1) \in Nat /\ Group * (m - 1) \in Int
      BY <1>2, <1>3, <3>2
    <3> DEFINE x == Group * (i - 1)
               y == Group * (m - 1)
    <3>4. x \in Nat /\ y \in Int /\ x <= y /\ y < W32 /\ sh = x
      BY <1>4, <3>1, <3>3
    <3> HIDE DEF x, y, sh
    <3> QED
      BY <1>2, <3>4
  <2>3. 2^sh \in Nat \ {0}
    BY <2>2, Pow
  <2> DEFINE p == 2^sh
  <2>4. u \in Int /\ n % p \in Int /\ 0 <= n % p /\ n % p < p /\ n = u * p + (n % p)
    <3> HIDE DEF sh
    <3>1. p \in Nat \ {0}
      BY <2>3
    <3> HIDE DEF p
    <3> QED
      BY <1>5, <3>1, Divided DEF p
  <2> DEFINE r == n % p
  <2>5. p \in Nat \ {0} /\ u \in Int /\ r \in Int /\ 0 <= r /\ r < p /\ n = u * p + r
    BY <2>3, <2>4
  <2> HIDE DEF r, u, p
  <2>6. u >= 0
    <3> HIDE DEF sh
    <3>1. n \in Nat /\ p \in Nat \ {0}
      BY <2>5
    <3> HIDE DEF p
    <3>2. n \div p \in Nat
      BY <3>1, DivNat
    <3> QED
      BY <3>2 DEF u, p
  <2>7. d <= u /\ d \in Nat
    <3>1. u \in Nat
      BY <2>5, <2>6
    <3>2. u % More <= u /\ u % More \in Int /\ 0 <= u % More
      BY <1>2, <2>5, <3>1, DivNat, Divided
    <3> QED
      BY <3>2 DEF u
  <2> HIDE DEF d
  <2>8. \A k \in Nat : k <= u => k * p <= u * p
    BY <2>5, <2>6
  <2>9. d * p <= u * p
    BY <2>7, <2>8
  <2> DEFINE x == d * p
             y == u * p
  <2>10. x <= y /\ x \in Int /\ y \in Int /\ n = y + r
    BY <2>5, <2>7, <2>9
  <2> HIDE DEF x, y
  <2>11. ~(x >= 2^W64)
    BY <1>5, <2>5, <2>10
  <2> HIDE DEF sh
  <2>12. ~(sh >= W64)
    BY <1>2, <2>2
  <2> QED
    BY <2>1, <2>11, <2>12 DEF TooBig, x, p, sh
<1>7. DOMAIN bytes = 1..m
  BY <1>1 DEF Encode
<1>8. ReadLebU64(bytes) = SumOf(bytes)
  BY <1>6, <1>7 DEF ReadLebU64
<1>9. SumOf(bytes) = n % 2^(Group * m)
  BY <1>1, <1>3, <1>5, SumOfEncode
<1>10. n % 2^(Group * m) = n
  <2>1. Group * m \in Nat
    BY <1>2, <1>3
  <2>2. 2^(Group * m) \in Nat \ {0}
    BY <2>1, Pow
  <2>3. n \in 0..(2^(Group * m) - 1)
    BY <1>1, <1>5, <2>2
  <2> QED
    BY <2>2, <2>3, Small
<1>11. n % 2^W32 = n
  BY <1>5, Small
<1> QED
  BY <1>8, <1>9, <1>10, <1>11 DEF ReadLebU32

-----------------------------------------------------------------------------
(* Instructions on bits.                                                   *)
LEMMA BitSame ==
  ASSUME NEW n, NEW i
  PROVE  Ideal!Bit(n, i) = BitOf(n, i)
BY DEF Ideal!Bit, BitOf

LEMMA AndResult ==
  ASSUME NEW w \in {W32, W64}, NEW a \in 0..(2^w - 1), NEW b \in 0..(2^w - 1)
  PROVE  BitAnd(a, b) % 2^w = Ideal!Result("and", w, a, b)
<1> DEFINE x == BitAnd(a, b)
           f == [i \in 0..(w - 1) |-> Ideal!Bit(a, i) * Ideal!Bit(b, i)]
<1>1. w \in Nat \ {0} /\ w <= W64 /\ 2^w \in Nat /\ 2^W64 \in Nat /\ 2^w <= 2^W64 /\ W64 \in Nat
  BY Wide, GroupType
<1>2. a \in 0..(2^W64 - 1) /\ b \in 0..(2^W64 - 1)
  BY <1>1
<1>3. x \in Int /\ \A i \in 0..(W64 - 1) : BitOf(x, i) = BitOf(a, i) * BitOf(b, i)
  <2>1. x \in 0..(2^W64 - 1)
    BY <1>2, Machine
  <2>2. x \in Int
    <3> HIDE DEF x
    <3> QED
      BY <1>1, <2>1
  <2> QED
    BY <1>2, <2>2, Machine
<1> HIDE DEF x
<1>4. \A i \in 0..(w - 1) : f[i] = BitOf(x, i)
  BY <1>1, <1>3, BitSame
<1> HIDE DEF f
<1>5. x % 2^w = Ideal!FromBits(w, f)
  BY <1>1, <1>3, <1>4, ModBits
<1> QED
  BY <1>5, Zenon DEF Ideal!Result, x, f

LEMMA OrResult ==
  ASSUME NEW w \in {W32, W64}, NEW a \in 0..(2^w - 1), NEW b \in 0..(2^w - 1)
  PROVE  BitOr(a, b) % 2^w = Ideal!Result("or", w, a, b)
<1> DEFINE x == BitOr(a, b)
           f == [i \in 0..(w - 1) |-> Ideal!Max({Ideal!Bit(a, i), Ideal!Bit(b, i)})]
<1>1. w \in Nat \ {0} /\ w <= W64 /\ 2^w \in Nat /\ 2^W64 \in Nat /\ 2^w <= 2^W64 /\ W64 \in Nat
  BY Wide, GroupType
<1>2. a \in 0..(2^W64 - 1) /\ b \in 0..(2^W64 - 1)
  BY <1>1
<1>3. x \in Int /\ \A i \in 0..(W64 - 1) : BitOf(x, i) = Max({BitOf(a, i), BitOf(b, i)})
  <2>1. x \in 0..(2^W64 - 1)
    BY <1>2, Machine
  <2>2. x \in Int
    <3> HIDE DEF x
    <3> QED
      BY <1>1, <2>1
  <2> QED
    BY <1>2, <2>2, Machine
<1> HIDE DEF x
<1>4. \A i \in 0..(w - 1) : f[i] = BitOf(x, i)
  BY <1>1, <1>3, BitSame, SameSets
<1> HIDE DEF f
<1>5. x % 2^w = Ideal!FromBits(w, f)
  BY <1>1, <1>3, <1>4, ModBits
<1> QED
  BY <1>5, Zenon DEF Ideal!Result, x, f

LEMMA XorResult ==
  ASSUME NEW w \in {W32, W64}, NEW a \in 0..(2^w - 1), NEW b \in 0..(2^w - 1)
  PROVE  BitXor(a, b) % 2^w = Ideal!Result("xor", w, a, b)
<1> DEFINE x == BitXor(a, b)
           f == [i \in 0..(w - 1) |-> IF Ideal!Bit(a, i) = Ideal!Bit(b, i) THEN 0 ELSE 1]
<1>1. w \in Nat \ {0} /\ w <= W64 /\ 2^w \in Nat /\ 2^W64 \in Nat /\ 2^w <= 2^W64 /\ W64 \in Nat
  BY Wide, GroupType
<1>2. a \in 0..(2^W64 - 1) /\ b \in 0..(2^W64 - 1) /\ a \in Int /\ b \in Int
  BY <1>1
<1>3. x \in Int /\ \A i \in 0..(W64 - 1) : BitOf(x, i) = (BitOf(a, i) + BitOf(b, i)) % 2
  <2>1. x \in 0..(2^W64 - 1)
    BY <1>2, Machine
  <2>2. x \in Int
    <3> HIDE DEF x
    <3> QED
      BY <1>1, <2>1
  <2> QED
    BY <1>2, <2>2, Machine
<1> HIDE DEF x
<1>4. ASSUME NEW i \in 0..(w - 1)
      PROVE  f[i] = BitOf(x, i)
  <2>1. i \in Nat /\ i \in 0..(W64 - 1)
    BY <1>1
  <2>2. BitOf(a, i) \in {0, 1} /\ BitOf(b, i) \in {0, 1}
    BY <1>2, <2>1, BitType
  <2>3. f[i] = IF BitOf(a, i) = BitOf(b, i) THEN 0 ELSE 1
    BY BitSame
  <2>4. BitOf(x, i) = (BitOf(a, i) + BitOf(b, i)) % 2
    BY <1>3, <2>1
  <2>5. \A y, z \in {0, 1} : (y + z) % 2 = IF y = z THEN 0 ELSE 1
    OBVIOUS
  <2> QED
    BY <2>2, <2>3, <2>4, <2>5
<1> HIDE DEF f
<1>5. x % 2^w = Ideal!FromBits(w, f)
  BY <1>1, <1>3, <1>4, ModBits
<1> QED
  BY <1>5, Zenon DEF Ideal!Result, x, f

LEMMA CountType ==
  ASSUME NEW w \in Nat \ {0}, NEW b \in Int
  PROVE  b % w \in 0..(w - 1) /\ b % w \in Nat
BY Divided

LEMMA ShlResult ==
  ASSUME NEW w \in {W32, W64}, NEW a \in 0..(2^w - 1), NEW b \in 0..(2^w - 1)
  PROVE  (a * 2^(b % w)) % 2^w = Ideal!Result("shl", w, a, b)
<1> DEFINE c == b % w
           x == a * 2^c
           f == [i \in 0..(w - 1) |-> IF i < c THEN 0 ELSE Ideal!Bit(a, i - c)]
<1>1. w \in Nat \ {0} /\ 2^w \in Nat /\ a \in Int /\ b \in Int
  BY Wide
<1>2. c \in Nat
  BY <1>1, CountType
<1>3. x \in Int
  BY <1>1, <1>2, Pow
<1> HIDE DEF c
<1>4. ASSUME NEW i \in 0..(w - 1)
      PROVE  f[i] = BitOf(x, i)
  <2>1. i \in Nat
    BY <1>1
  <2>2. BitOf(a * 2^c, i) = IF i < c THEN 0 ELSE BitOf(a, i - c)
    BY <1>1, <1>2, <2>1, BitTimes
  <2> QED
    BY <2>2, BitSame
<1> HIDE DEF f, x
<1>5. x % 2^w = Ideal!FromBits(w, f)
  BY <1>1, <1>3, <1>4, ModBits
<1> QED
  BY <1>5, Zenon DEF Ideal!Result, x, f, c

LEMMA ShrUResult ==
  ASSUME NEW w \in {W32, W64}, NEW a \in 0..(2^w - 1), NEW b \in 0..(2^w - 1)
  PROVE  (a \div 2^(b % w)) % 2^w = Ideal!Result("shr_u", w, a, b)
<1> DEFINE c == b % w
           x == a \div 2^c
           f == [i \in 0..(w - 1) |-> IF i + c \in 0..(w - 1) THEN Ideal!Bit(a, i + c) ELSE 0]
<1>1. w \in Nat \ {0} /\ 2^w \in Nat /\ a \in Int /\ b \in Int
  BY Wide
<1>2. c \in Nat
  BY <1>1, CountType
<1> HIDE DEF c
<1>3. x \in Int
  BY <1>1, <1>2, BitType
<1>4. ASSUME NEW i \in 0..(w - 1)
      PROVE  f[i] = BitOf(x, i)
  <2>1. i \in Nat /\ i + c \in Nat /\ (i + c \notin 0..(w - 1) => w <= i + c)
    BY <1>1, <1>2
  <2>2. BitOf(x, i) = BitOf(a, i + c)
    BY <1>1, <1>2, <2>1, BitDiv
  <2>3. w <= i + c => BitOf(a, i + c) = 0
    BY <1>1, <2>1, BitHigh
  <2> QED
    BY <2>1, <2>2, <2>3, BitSame
<1> HIDE DEF f, x
<1>5. x % 2^w = Ideal!FromBits(w, f)
  BY <1>1, <1>3, <1>4, ModBits
<1> QED
  BY <1>5, Zenon DEF Ideal!Result, x, f, c

(* The bits above w of a negative number are 1.                            *)
LEMMA SignedBits ==
  ASSUME NEW w \in Nat \ {0}, NEW a \in 0..(2^w - 1), NEW i \in Nat
  PROVE  BitOf(ToSigned(w, a), i) = BitOf(a, IF i < w THEN i ELSE w - 1)
<1> DEFINE s == ToSigned(w, a)
<1>1. /\ s \in Int /\ -(2^(w - 1)) <= s /\ s < 2^(w - 1)
      /\ s = IF BitOf(a, w - 1) = 1 THEN a - 2^w ELSE a
  BY SignedBack
<1>2. /\ w - 1 \in Nat /\ 2^w = 2 * 2^(w - 1) /\ 2^(w - 1) \in Nat \ {0}
      /\ BitOf(a, w - 1) = IF a >= 2^(w - 1) THEN 1 ELSE 0
  BY SignBit
<1>3. 2^w \in Nat \ {0} /\ a \in Int /\ w \in Nat
  BY Pow
<1> HIDE DEF s
<1>4. CASE i < w
  <2>1. s = a + (-1) * 2^w \/ s = a
    BY <1>1, <1>3
  <2>2. BitOf(a + (-1) * 2^w, i) = BitOf(a, i)
    BY <1>3, <1>4, BitPlus
  <2> QED
    BY <1>4, <2>1, <2>2 DEF s
<1>5. CASE ~(i < w) /\ a >= 2^(w - 1)
  <2>1. s < 0 /\ w - 1 <= i
    BY <1>1, <1>2, <1>3, <1>5
  <2>2. BitOf(s, i) = 1
    BY <1>1, <1>2, <2>1, BitNegative
  <2> QED
    BY <1>2, <1>5, <2>2 DEF s
<1>6. CASE ~(i < w) /\ ~(a >= 2^(w - 1))
  <2>1. s = a /\ w <= i
    BY <1>1, <1>2, <1>3, <1>6
  <2>2. BitOf(s, i) = 0
    BY <1>3, <2>1, BitHigh
  <2> QED
    BY <1>2, <1>6, <2>2 DEF s
<1> QED
  BY <1>4, <1>5, <1>6

LEMMA MinTwo ==
  ASSUME NEW a \in Int, NEW b \in Int
  PROVE  Min({a, b}) = IF a <= b THEN a ELSE b
<1>1. \E x \in {a, b} : \A y \in {a, b} : x <= y
  OBVIOUS
<1>2. Min({a, b}) \in {a, b} /\ \A y \in {a, b} : Min({a, b}) <= y
  BY <1>1, Zenon DEF Min
<1> QED
  BY <1>2

LEMMA ShrSResult ==
  ASSUME NEW w \in {W32, W64}, NEW a \in 0..(2^w - 1), NEW b \in 0..(2^w - 1)
  PROVE  (ToSigned(w, a) \div 2^(b % w)) % 2^w = Ideal!Result("shr_s", w, a, b)
<1> DEFINE c == b % w
           x == ToSigned(w, a) \div 2^c
           f == [i \in 0..(w - 1) |-> Ideal!Bit(a, Ideal!Min({i + c, w - 1}))]
<1>1. w \in Nat \ {0} /\ 2^w \in Nat /\ a \in Int /\ b \in Int
  BY Wide
<1>2. c \in Nat /\ ToSigned(w, a) \in Int
  BY <1>1, CountType, SignedBack
<1> HIDE DEF c
<1>3. x \in Int
  BY <1>1, <1>2, BitType
<1>4. ASSUME NEW i \in 0..(w - 1)
      PROVE  f[i] = BitOf(x, i)
  <2>1. i \in Nat /\ i + c \in Nat /\ i + c \in Int /\ w - 1 \in Int
    BY <1>1, <1>2
  <2>2. BitOf(x, i) = BitOf(ToSigned(w, a), i + c)
    BY <1>1, <1>2, <2>1, BitDiv
  <2>3. BitOf(ToSigned(w, a), i + c) = BitOf(a, IF i + c < w THEN i + c ELSE w - 1)
    BY <1>1, <2>1, SignedBits
  <2>4. Min({i + c, w - 1}) = IF i + c <= w - 1 THEN i + c ELSE w - 1
    BY <2>1, MinTwo
  <2>5. (IF i + c <= w - 1 THEN i + c ELSE w - 1) = IF i + c < w THEN i + c ELSE w - 1
    BY <1>1, <2>1
  <2>6. f[i] = BitOf(a, Min({i + c, w - 1}))
    BY BitSame, SameSets
  <2> QED
    BY <2>2, <2>3, <2>4, <2>5, <2>6
<1> HIDE DEF f, x
<1>5. x % 2^w = Ideal!FromBits(w, f)
  BY <1>1, <1>3, <1>4, ModBits
<1> QED
  BY <1>5, Zenon DEF Ideal!Result, x, f, c

LEMMA OrBits ==
  ASSUME NEW w \in {W32, W64}, NEW p \in 0..(2^w - 1), NEW q \in 0..(2^w - 1)
  PROVE  /\ BitOr(p, q) \in 0..(2^w - 1)
         /\ \A i \in 0..(w - 1) :
              BitOf(BitOr(p, q), i) = IF BitOf(p, i) = 1 \/ BitOf(q, i) = 1 THEN 1 ELSE 0
<1> DEFINE x == BitOr(p, q)
<1>1. w \in Nat \ {0} /\ w <= W64 /\ 2^w \in Nat /\ 2^W64 \in Nat /\ 2^w <= 2^W64 /\ W64 \in Nat
  BY Wide, GroupType
<1>2. p \in 0..(2^W64 - 1) /\ q \in 0..(2^W64 - 1) /\ p \in Int /\ q \in Int
  BY <1>1
<1>3. x \in 0..(2^W64 - 1) /\ \A i \in 0..(W64 - 1) : BitOf(x, i) = Max({BitOf(p, i), BitOf(q, i)})
  BY <1>2, Machine
<1> HIDE DEF x
<1>4. ASSUME NEW i \in 0..(W64 - 1)
      PROVE  /\ BitOf(x, i) = IF BitOf(p, i) = 1 \/ BitOf(q, i) = 1 THEN 1 ELSE 0
             /\ i \in Nat /\ (w <= i => BitOf(x, i) = 0)
  <2>1. i \in Nat
    BY <1>1
  <2>2. BitOf(p, i) \in {0, 1} /\ BitOf(q, i) \in {0, 1}
    BY <1>2, <2>1, BitType
  <2>3. Max({BitOf(p, i), BitOf(q, i)}) = IF BitOf(p, i) = 1 \/ BitOf(q, i) = 1 THEN 1 ELSE 0
    BY <2>2, MaxBits
  <2>4. w <= i => BitOf(p, i) = 0 /\ BitOf(q, i) = 0
    BY <1>1, <2>1, BitHigh
  <2> QED
    BY <1>3, <2>1, <2>3, <2>4
<1>5. \A i \in w..(W64 - 1) : BitOf(x, i) = 0
  BY <1>1, <1>4
<1>6. x \in 0..(2^w - 1)
  BY <1>1, <1>3, <1>5, NoHighBits
<1>7. 0..(w - 1) \subseteq 0..(W64 - 1)
  BY <1>1
<1> QED
  BY <1>4, <1>6, <1>7 DEF x

LEMMA MinusZero ==
  ASSUME NEW d \in Int, d = 0
  PROVE  -d = 0
<1> DEFINE k == -d
<1>1. k \in Int /\ k <= 0 /\ k >= 0
  <2>1. d <= 0 /\ d >= 0
    OBVIOUS
  <2> QED
    BY <2>1
<1> HIDE DEF k
<1>2. k = 0
  BY <1>1
<1> QED
  BY <1>2 DEF k

(* The two parts that a rotation by d puts together.                       *)
LEMMA Rotated ==
  ASSUME NEW w \in Nat \ {0}, NEW a \in 0..(2^w - 1), NEW d \in 0..(w - 1)
  PROVE  /\ (a * 2^d) % 2^w \in 0..(2^w - 1) /\ a \div 2^((-d) % w) \in 0..(2^w - 1)
         /\ \A i \in 0..(w - 1) :
              /\ (i - d) % w \in 0..(w - 1)
              /\ BitOf((a * 2^d) % 2^w, i) = 1 \/ BitOf(a \div 2^((-d) % w), i) = 1
                   <=> BitOf(a, (i - d) % w) = 1
<1> DEFINE e == (-d) % w
<1>1. d \in Nat /\ d < w /\ w \in Nat /\ 2^d \in Nat \ {0} /\ 2^w \in Nat \ {0} /\ a \in Int
  BY Pow
<1>2. e = (IF d = 0 THEN 0 ELSE w - d) /\ e \in Nat
  <2>1. d = 0 => e = 0
    <3>1. 0 % w = 0
      BY Small
    <3>2. d = 0 => -d = 0
      <4>1. d \in Int
        BY <1>1
      <4> QED
        BY <4>1, MinusZero, Zenon
    <3> QED
      BY <3>1, <3>2
  <2>2. d # 0 => e = w - d
    <3> SUFFICES ASSUME d # 0 PROVE e = w - d
      OBVIOUS
    <3>1. -d \in Int /\ -w <= -d /\ -d < 0
      BY <1>1
    <3>2. (-d) % w = (-d) + w
      BY <1>1, <3>1, ModNegative
    <3> QED
      BY <1>1, <3>2
  <2> QED
    BY <1>1, <2>1, <2>2
<1> DEFINE y == a * 2^d
           z == a \div 2^e
<1> HIDE DEF e
<1>3. y \in Int
  BY <1>1
<1>4. y % 2^w \in 0..(2^w - 1)
  <2> HIDE DEF y
  <2> QED
    BY <1>1, <1>3, Divided
<1>5. z \in 0..(2^w - 1)
  <2>1. 2^e \in Nat \ {0} /\ a \in Nat
    BY <1>2, Pow
  <2>2. z \in Nat /\ z <= a
    BY <2>1, DivNat
  <2> HIDE DEF z
  <2> QED
    BY <1>1, <2>2
<1>6. ASSUME NEW i \in 0..(w - 1)
      PROVE  /\ (i - d) % w \in 0..(w - 1)
             /\ BitOf(y % 2^w, i) = 1 \/ BitOf(z, i) = 1 <=> BitOf(a, (i - d) % w) = 1
  <2>1. i \in Nat /\ i < w /\ i - d \in Int /\ i + e \in Nat
    BY <1>1, <1>2
  <2>2. (i - d) % w = IF i < d THEN (i - d) + w ELSE i - d
    <3>1. i < d => (i - d) % w = (i - d) + w
      <4> SUFFICES ASSUME i < d PROVE (i - d) % w = (i - d) + w
        OBVIOUS
      <4>1. -w <= i - d /\ i - d < 0
        BY <1>1, <2>1
      <4> QED
        BY <2>1, <4>1, ModNegative
    <3>2. ~(i < d) => (i - d) % w = i - d
      <4> SUFFICES ASSUME ~(i < d) PROVE (i - d) % w = i - d
        OBVIOUS
      <4>1. i - d \in 0..(w - 1)
        BY <1>1, <2>1
      <4> QED
        BY <4>1, Small
    <3> QED
      BY <3>1, <3>2
  <2>3. BitOf(y % 2^w, i) = IF i < d THEN 0 ELSE BitOf(a, i - d)
    <3>1. BitOf(a * 2^d, i) = IF i < d THEN 0 ELSE BitOf(a, i - d)
      BY <1>1, <2>1, BitTimes
    <3> HIDE DEF y
    <3>2. BitOf(y % 2^w, i) = BitOf(y, i)
      BY <1>1, <1>3, <2>1, BitMod
    <3> QED
      BY <3>1, <3>2 DEF y
  <2>4. BitOf(z, i) = BitOf(a, i + e)
    BY <1>1, <1>2, <2>1, BitDiv
  <2>5. w <= i + e => BitOf(a, i + e) = 0
    BY <1>1, <2>1, BitHigh
  <2> HIDE DEF y, z
  <2>6. CASE i < d
    <3>1. i + e = (i - d) + w /\ (i - d) + w \in 0..(w - 1)
      BY <1>1, <1>2, <2>1, <2>6
    <3> QED
      BY <2>2, <2>3, <2>4, <2>6, <3>1
  <2>7. CASE ~(i < d) /\ d # 0
    <3>1. w <= i + e /\ i - d \in 0..(w - 1)
      BY <1>1, <1>2, <2>1, <2>7
    <3> QED
      BY <2>2, <2>3, <2>4, <2>5, <2>7, <3>1
  <2>8. CASE d = 0
    <3>1. i + e = i /\ i - d = i /\ ~(i < d) /\ i \in 0..(w - 1)
      BY <1>2, <2>1, <2>8
    <3> QED
      BY <2>2, <2>3, <2>4, <3>1
  <2> QED
    BY <2>6, <2>7, <2>8
<1> QED
  BY <1>4, <1>5, <1>6 DEF e

LEMMA RotlResult ==
  ASSUME NEW w \in {W32, W64}, NEW a \in 0..(2^w - 1), NEW b \in 0..(2^w - 1)
  PROVE  Rotl(w, a, b) = Ideal!Result("rotl", w, a, b) /\ Rotl(w, a, b) \in 0..(2^w - 1)
<1> DEFINE c == b % w
           y == (a * 2^c) % 2^w
           z == a \div 2^((-c) % w)
           x == BitOr(y, z)
           f == [i \in 0..(w - 1) |-> Ideal!Bit(a, (i - c) % w)]
<1>1. w \in Nat \ {0} /\ 2^w \in Nat /\ a \in Int /\ b \in Int
  BY Wide
<1>2. c \in 0..(w - 1)
  BY <1>1, CountType
<1> HIDE DEF c
<1>3. /\ y \in 0..(2^w - 1) /\ z \in 0..(2^w - 1)
      /\ \A i \in 0..(w - 1) :
           /\ (i - c) % w \in 0..(w - 1)
           /\ BitOf(y, i) = 1 \/ BitOf(z, i) = 1 <=> BitOf(a, (i - c) % w) = 1
  BY <1>1, <1>2, Rotated
<1> HIDE DEF y, z
<1>4. /\ x \in 0..(2^w - 1)
      /\ \A i \in 0..(w - 1) :
           BitOf(x, i) = IF BitOf(y, i) = 1 \/ BitOf(z, i) = 1 THEN 1 ELSE 0
  BY <1>3, OrBits
<1> HIDE DEF x
<1>5. ASSUME NEW i \in 0..(w - 1)
      PROVE  f[i] = BitOf(x, i)
  <2>1. (i - c) % w \in Nat
    BY <1>1, <1>3
  <2>2. BitOf(a, (i - c) % w) \in {0, 1}
    BY <1>1, <2>1, BitType
  <2> QED
    BY <1>3, <1>4, <2>2, BitSame
<1> HIDE DEF f
<1>6. x = Ideal!FromBits(w, f)
  BY <1>1, <1>4, <1>5, ByBits
<1>7. Rotl(w, a, b) = x
  BY DEF Rotl, x, y, z, c
<1>8. Ideal!Result("rotl", w, a, b) = Ideal!FromBits(w, f)
  BY Zenon DEF Ideal!Result, f, c
<1> QED
  BY <1>4, <1>6, <1>7, <1>8

LEMMA RotrResult ==
  ASSUME NEW w \in {W32, W64}, NEW a \in 0..(2^w - 1), NEW b \in 0..(2^w - 1)
  PROVE  Rotr(w, a, b) = Ideal!Result("rotr", w, a, b) /\ Rotr(w, a, b) \in 0..(2^w - 1)
<1> DEFINE d == b % w
           c == (-d) % w
           y == (a * 2^c) % 2^w
           z == a \div 2^d
           x == BitOr(z, y)
           f == [i \in 0..(w - 1) |-> Ideal!Bit(a, (i + d) % w)]
<1>1. w \in Nat \ {0} /\ 2^w \in Nat /\ a \in Int /\ b \in Int
  BY Wide
<1>2. d \in 0..(w - 1) /\ d \in Nat
  BY <1>1, CountType
<1> HIDE DEF d
<1>3. c = (IF d = 0 THEN 0 ELSE w - d) /\ c \in 0..(w - 1)
  <2>1. d = 0 => c = 0
    <3>1. 0 % w = 0
      BY <1>1, Small
    <3>2. d = 0 => -d = 0
      <4>1. d \in Int
        BY <1>2
      <4> QED
        BY <4>1, MinusZero, Zenon
    <3> QED
      BY <3>1, <3>2
  <2>2. d # 0 => c = w - d
    <3> SUFFICES ASSUME d # 0 PROVE c = w - d
      OBVIOUS
    <3>1. -d \in Int /\ -w <= -d /\ -d < 0
      BY <1>1, <1>2
    <3>2. (-d) % w = (-d) + w
      BY <1>1, <3>1, ModNegative
    <3> QED
      BY <1>1, <1>2, <3>2
  <2> QED
    BY <1>1, <1>2, <2>1, <2>2
<1> HIDE DEF c
<1>4. (-c) % w = d
  <2>1. CASE d = 0
    <3>1. 0 % w = 0
      BY <1>1, Small
    <3>2. c = 0 => -c = 0
      <4>1. c \in Int
        BY <1>1, <1>3
      <4> QED
        BY <4>1, MinusZero, Zenon
    <3> QED
      BY <1>3, <2>1, <3>1, <3>2
  <2>2. CASE d # 0
    <3>1. c = w - d /\ -c \in Int /\ -w <= -c /\ -c < 0
      BY <1>1, <1>2, <1>3, <2>2
    <3>2. (-c) % w = (-c) + w
      BY <1>1, <3>1, ModNegative
    <3> QED
      BY <1>1, <1>2, <3>1, <3>2
  <2> QED
    BY <2>1, <2>2
<1>5. \A i \in 0..(w - 1) : (i - c) % w = (i + d) % w
  <2> SUFFICES ASSUME NEW i \in 0..(w - 1)
               PROVE  (i - c) % w = (i + d) % w
    OBVIOUS
  <2>1. CASE d = 0
    BY <1>1, <1>3, <2>1
  <2>2. CASE d # 0
    <3> DEFINE k == i - c
    <3>1. k \in Int /\ 1 \in Int /\ k + 1 * w = i + d
      BY <1>1, <1>2, <1>3, <2>2
    <3> HIDE DEF k
    <3>2. (k + 1 * w) % w = k % w
      BY <1>1, <3>1, MoreTimes
    <3> QED
      BY <3>1, <3>2 DEF k
  <2> QED
    BY <2>1, <2>2
<1>6. /\ y \in 0..(2^w - 1) /\ z \in 0..(2^w - 1)
      /\ \A i \in 0..(w - 1) :
           /\ (i - c) % w \in 0..(w - 1)
           /\ BitOf(y, i) = 1 \/ BitOf(z, i) = 1 <=> BitOf(a, (i - c) % w) = 1
  <2> DEFINE u == a \div 2^((-c) % w)
  <2>1. /\ y \in 0..(2^w - 1) /\ u \in 0..(2^w - 1)
        /\ \A i \in 0..(w - 1) :
             /\ (i - c) % w \in 0..(w - 1)
             /\ BitOf(y, i) = 1 \/ BitOf(u, i) = 1 <=> BitOf(a, (i - c) % w) = 1
    BY <1>1, <1>3, Rotated
  <2>2. u = z
    BY <1>4
  <2> HIDE DEF y, z, u
  <2> QED
    BY <2>1, <2>2
<1> HIDE DEF y, z
<1>7. /\ x \in 0..(2^w - 1)
      /\ \A i \in 0..(w - 1) :
           BitOf(x, i) = IF BitOf(z, i) = 1 \/ BitOf(y, i) = 1 THEN 1 ELSE 0
  BY <1>6, OrBits
<1> HIDE DEF x
<1>8. ASSUME NEW i \in 0..(w - 1)
      PROVE  f[i] = BitOf(x, i)
  <2>1. (i - c) % w \in Nat
    BY <1>1, <1>6
  <2>2. BitOf(a, (i - c) % w) \in {0, 1}
    BY <1>1, <2>1, BitType
  <2>3. f[i] = BitOf(a, (i - c) % w)
    BY <1>5, BitSame
  <2> QED
    BY <1>6, <1>7, <2>2, <2>3
<1> HIDE DEF f
<1>9. x = Ideal!FromBits(w, f)
  BY <1>1, <1>7, <1>8, ByBits
<1>10. Rotr(w, a, b) = x
  BY DEF Rotr, x, y, z, c, d
<1>11. Ideal!Result("rotr", w, a, b) = Ideal!FromBits(w, f)
  BY Zenon DEF Ideal!Result, f, d
<1> QED
  BY <1>7, <1>9, <1>10, <1>11

-----------------------------------------------------------------------------
(* Counts of bits.                                                         *)
LEMMA Least ==
  ASSUME NEW S \in SUBSET Nat, S # {}
  PROVE  \E x \in S : \A y \in S : x <= y
<1> DEFINE R == {ss \in Nat \X Nat : ss[1] < ss[2]}
<1>1. IsWellFoundedOn(R, Nat)
  BY NatLessThanWellFounded, Zenon DEF OpToRel
<1> HIDE DEF R
<1>2. PICK x \in S : \A y \in S : ~(<<y, x>> \in R)
  BY <1>1, WFMin
<1>3. ASSUME NEW y \in S
      PROVE  x <= y
  <2>1. x \in Nat /\ y \in Nat /\ ~(<<y, x>> \in R)
    BY <1>2
  <2> QED
    BY <2>1 DEF R
<1> QED
  BY <1>3

LEMMA Extremes ==
  ASSUME NEW k \in Nat, NEW S \in SUBSET (0..k), S # {}
  PROVE  Max(S) \in S /\ Min(S) \in S /\ Max(S) \in 0..k /\ Min(S) \in 0..k
<1>1. \E x \in S : \A y \in S : x <= y
  BY Least
<1>2. \E x \in S : \A y \in S : x >= y
  <2> DEFINE T == {k - x : x \in S}
  <2>1. T \in SUBSET Nat /\ T # {}
    <3>1. \A x \in S : x \in 0..k /\ k - x \in Nat
      OBVIOUS
    <3>2. T \subseteq Nat
      BY <3>1
    <3>3. PICK x \in S : TRUE
      OBVIOUS
    <3>4. k - x \in T
      BY <3>3
    <3> QED
      BY <3>2, <3>4
  <2>2. PICK u \in T : \A v \in T : u <= v
    <3> HIDE DEF T
    <3> QED
      BY <2>1, Least
  <2>3. PICK x \in S : u = k - x
    OBVIOUS
  <2>4. \A y \in S : k - y \in T
    OBVIOUS
  <2>5. \A y \in S : u <= k - y
    BY <2>2, <2>4
  <2>6. \A y \in S : x >= y
    BY <2>3, <2>5
  <2> QED
    BY <2>6
<1>3. Min(S) \in S
  BY <1>1, Zenon DEF Min
<1>4. Max(S) \in S
  BY <1>2, Zenon DEF Max
<1> QED
  BY <1>3, <1>4

LEMMA OnesAre ==
  ASSUME NEW w \in {W32, W64}, NEW n \in 0..(2^w - 1)
  PROVE  /\ Ones(n) = {i \in 0..(w - 1) : Ideal!Bit(n, i) = 1}
         /\ Ones(n) = {} <=> n = 0
         /\ Ones(n) \in SUBSET (0..(w - 1))
<1>1. w \in Nat \ {0} /\ w <= W64 /\ 2^w \in Nat /\ 2^W64 \in Nat /\ 2^w <= 2^W64 /\ W64 \in Nat
  BY Wide, GroupType
<1>2. n \in 0..(2^W64 - 1) /\ n \in Int
  BY <1>1
<1>3. \A i \in 0..(W64 - 1) : BitAnd(n, 2^i) # 0 <=> BitOf(n, i) = 1
  BY <1>2, AndBit
<1>4. \A i \in 0..(W64 - 1) : i \notin 0..(w - 1) => BitOf(n, i) = 0
  <2> SUFFICES ASSUME NEW i \in 0..(W64 - 1), i \notin 0..(w - 1)
               PROVE  BitOf(n, i) = 0
    OBVIOUS
  <2>1. i \in Nat /\ w <= i
    BY <1>1
  <2> QED
    BY <1>1, <2>1, BitHigh
<1>5. 0..(w - 1) \subseteq 0..(W64 - 1)
  BY <1>1
<1>6. Ones(n) = {i \in 0..(w - 1) : BitOf(n, i) = 1}
  BY <1>3, <1>4, <1>5 DEF Ones
<1>7. Ones(n) = {i \in 0..(w - 1) : Ideal!Bit(n, i) = 1}
  BY <1>6, BitSame
<1>8. ASSUME Ones(n) = {}
      PROVE  n = 0
  <2>1. \A i \in 0..(w - 1) : BitOf(n, i) # 1
    BY <1>6, <1>8
  <2>2. \A i \in 0..(w - 1) : BitOf(n, i) = 0
    <3> SUFFICES ASSUME NEW i \in 0..(w - 1)
                 PROVE  BitOf(n, i) = 0
      OBVIOUS
    <3>1. i \in Nat
      BY <1>1
    <3>2. BitOf(n, i) \in {0, 1}
      BY <1>2, <3>1, BitType
    <3> QED
      BY <2>1, <3>2
  <2>3. 0 \in Nat /\ 0 <= w
    BY <1>1
  <2>4. n \in 0..(2^0 - 1)
    BY <1>1, <2>2, <2>3, NoHighBits
  <2> QED
    BY <2>4, Powers
<1>9. ASSUME n = 0
      PROVE  Ones(n) = {}
  <2>1. \A i \in 0..(w - 1) : BitOf(n, i) = 0
    <3> SUFFICES ASSUME NEW i \in 0..(w - 1)
                 PROVE  BitOf(n, i) = 0
      OBVIOUS
    <3>1. i \in Nat /\ 0 \in Nat /\ 0 <= i
      BY <1>1
    <3>2. n \in 0..(2^0 - 1)
      BY <1>9, Powers
    <3> QED
      BY <3>1, <3>2, BitHigh
  <2> QED
    BY <1>6, <2>1
<1> QED
  BY <1>6, <1>7, <1>8, <1>9

LEMMA CountedResult ==
  ASSUME NEW w \in {W32, W64}, NEW n \in 0..(2^w - 1), NEW op \in {"clz", "ctz", "popcnt"}
  PROVE  /\ Counted(op, w, n) = Ideal!Counted(op, w, n)
         /\ Counted(op, w, n) \in 0..(2^w - 1)
<1> DEFINE S == Ones(n)
<1>1. w \in Nat \ {0} /\ w < 2^w /\ 2^w \in Nat
  BY Wide
<1>2. /\ S = {i \in 0..(w - 1) : Ideal!Bit(n, i) = 1}
      /\ S = {} <=> n = 0
      /\ S \in SUBSET (0..(w - 1))
  BY OnesAre
<1>3. w - 1 \in Nat
  BY <1>1
<1> HIDE DEF S
<1>4. S # {} => Max(S) \in 0..(w - 1) /\ Min(S) \in 0..(w - 1)
  BY <1>2, <1>3, Extremes
<1>5. IsFiniteSet(S) /\ Cardinality(S) \in 0..w
  <2>1. IsFiniteSet(0..(w - 1)) /\ Cardinality(0..(w - 1)) = w
    BY <1>1, FS_Interval
  <2>2. IsFiniteSet(S) /\ Cardinality(S) <= Cardinality(0..(w - 1))
    BY <1>2, <2>1, FS_Subset
  <2>3. Cardinality(S) \in Nat
    BY <2>2, FS_CardinalityType
  <2> QED
    BY <1>1, <2>1, <2>2, <2>3
<1>6. Cardinality({}) = 0
  BY FS_EmptySet
<1>7. CASE op = "clz"
  <2>1. Ideal!Counted(op, w, n) = IF S = {} THEN w ELSE w - 1 - Ideal!Max(S)
    BY <1>2, <1>7, Zenon DEF Ideal!Counted
  <2>2. Counted(op, w, n) = IF n = 0 THEN w ELSE w - 1 - Max(S)
    BY <1>7, Zenon DEF Counted, BuiltinClz, S
  <2> QED
    BY <1>1, <1>2, <1>4, <2>1, <2>2, SameSets
<1>8. CASE op = "ctz"
  <2>1. Ideal!Counted(op, w, n) = IF S = {} THEN w ELSE Ideal!Min(S)
    BY <1>2, <1>8, Zenon DEF Ideal!Counted
  <2>2. Counted(op, w, n) = IF n = 0 THEN w ELSE Min(S)
    BY <1>8, Zenon DEF Counted, BuiltinCtz, S
  <2> QED
    BY <1>1, <1>2, <1>4, <2>1, <2>2, SameSets
<1>9. CASE op = "popcnt"
  <2>1. Ideal!Counted(op, w, n) = Ideal!Cardinality(S)
    BY <1>2, <1>9, Zenon DEF Ideal!Counted
  <2>2. Counted(op, w, n) = IF n = 0 THEN 0 ELSE Cardinality(S)
    BY <1>9, Zenon DEF Counted, S
  <2> QED
    BY <1>1, <1>2, <1>5, <1>6, <2>1, <2>2, SameSets
<1> QED
  BY <1>7, <1>8, <1>9

-----------------------------------------------------------------------------
(* The division of C++.                                                    *)
Abs(x) == IF x < 0 THEN -x ELSE x

LEMMA AbsSame ==
  ASSUME NEW x \in Int
  PROVE  Ideal!AbsVal(x) = Abs(x) /\ Abs(x) \in Nat /\ (x # 0 => Abs(x) >= 1)
BY DEF Ideal!AbsVal, Abs

(* No multiple of b but 0 is smaller than b.                               *)
LEMMA NoMultiple ==
  ASSUME NEW k \in Int, NEW b \in Int, NEW d \in Int, d = k * b, -Abs(b) < d, d < Abs(b)
  PROVE  k = 0
<1> DEFINE m == Abs(b)
<1>1. m \in Nat /\ (m = b \/ b = -m)
  BY DEF Abs
<1>2. -m < d /\ d < m
  OBVIOUS
<1> HIDE DEF m
<1>3. k * b = k * m \/ k * b = -(k * m)
  BY <1>1
<1>4. ASSUME k >= 1
      PROVE  FALSE
  <2>1. k * m >= m
    BY <1>1, <1>4, Grows
  <2> DEFINE z == k * m
  <2>2. z \in Int /\ z >= m /\ (d = z \/ d = -z)
    BY <1>1, <1>3, <2>1
  <2> HIDE DEF z
  <2> QED
    BY <1>1, <1>2, <2>2
<1>5. ASSUME k <= -1
      PROVE  FALSE
  <2> DEFINE j == -k
  <2>1. j \in Int /\ j >= 1 /\ k = -j
    BY <1>5
  <2> HIDE DEF j
  <2>2. j * m >= m
    BY <1>1, <2>1, Grows
  <2>3. k * m = -(j * m)
    BY <1>1, <2>1
  <2> DEFINE z == j * m
  <2>4. z \in Int /\ z >= m /\ (d = z \/ d = -z)
    BY <1>1, <1>3, <2>1, <2>2, <2>3
  <2> HIDE DEF z
  <2> QED
    BY <1>1, <1>2, <2>4
<1> QED
  BY <1>4, <1>5

(* What the division of C++ returns, by its equation.                      *)
LEMMA CutDivIs ==
  ASSUME NEW a \in Int, NEW b \in Int, b # 0
  PROVE  /\ CutDiv(a, b) \in (-Abs(a))..Abs(a)
         /\ Abs(a - CutDiv(a, b) * b) < Abs(b)
         /\ a - CutDiv(a, b) * b = 0 \/ (a - CutDiv(a, b) * b < 0 <=> a < 0)
<1> DEFINE x == Abs(a)
           y == Abs(b)
           q == x \div y
           r == x % y
<1>1. x \in Nat /\ y \in Nat \ {0} /\ x \in Int
  BY AbsSame
<1>2. a = (IF a < 0 THEN -x ELSE x) /\ b = (IF b < 0 THEN -y ELSE y)
  BY DEF Abs
<1>3. CutDiv(a, b) = IF (a < 0) = (b < 0) THEN q ELSE -q
  BY DEF CutDiv, Abs
<1>4. (a < 0 => x > 0) /\ (b < 0 => y > 0)
  BY DEF Abs
<1> HIDE DEF x, y
<1>5. q \in Int /\ r \in Int /\ 0 <= r /\ r < y /\ x = q * y + r
  BY <1>1, Divided
<1> HIDE DEF q, r
<1>6. q >= 0
  <2>1. x \div y \in Nat
    BY <1>1, DivNat
  <2> QED
    BY <2>1 DEF q
<1>7. q * y >= q
  <2>1. y \in Int /\ y >= 1 /\ q \in Nat
    BY <1>1, <1>5, <1>6
  <2>2. y * q >= q
    BY <2>1, Grows
  <2>3. y * q = q * y
    BY <2>1
  <2> QED
    BY <2>2, <2>3
<1> DEFINE z == q * y
<1>8. z \in Int /\ z >= q /\ x = z + r
  BY <1>1, <1>5, <1>7
<1>9. CutDiv(a, b) * b = IF a < 0 THEN -z ELSE z
  <2>1. (-q) * (-y) = q * y /\ (-q) * y = -(q * y) /\ q * (-y) = -(q * y)
    BY <1>1, <1>5
  <2>2. CASE a < 0 /\ b < 0
    <3>1. CutDiv(a, b) = q /\ b = -y
      BY <1>2, <1>3, <2>2
    <3> QED
      BY <2>1, <2>2, <3>1
  <2>3. CASE a < 0 /\ ~(b < 0)
    <3>1. CutDiv(a, b) = -q /\ b = y
      BY <1>2, <1>3, <2>3
    <3> QED
      BY <2>1, <2>3, <3>1
  <2>4. CASE ~(a < 0) /\ b < 0
    <3>1. CutDiv(a, b) = -q /\ b = -y
      BY <1>2, <1>3, <2>4
    <3> QED
      BY <2>1, <2>4, <3>1
  <2>5. CASE ~(a < 0) /\ ~(b < 0)
    <3>1. CutDiv(a, b) = q /\ b = y
      BY <1>2, <1>3, <2>5
    <3> QED
      BY <2>5, <3>1
  <2> QED
    BY <2>2, <2>3, <2>4, <2>5
<1> HIDE DEF z
<1>10. a - CutDiv(a, b) * b = IF a < 0 THEN -r ELSE r
  BY <1>1, <1>2, <1>5, <1>8, <1>9
<1>11. CutDiv(a, b) \in (-x)..x
  <2>1. q \in Int /\ 0 <= q /\ q <= x
    BY <1>1, <1>5, <1>6, <1>8
  <2> QED
    BY <1>1, <1>3, <2>1
<1> DEFINE s == a - CutDiv(a, b) * b
<1>12. s = IF a < 0 THEN -r ELSE r
  BY <1>10
<1> HIDE DEF s
<1>13. Abs(s) < y /\ (s = 0 \/ (s < 0 <=> a < 0))
  BY <1>1, <1>5, <1>12 DEF Abs
<1> QED
  BY <1>11, <1>13 DEF s, x, y

LEMMA QuotientIs ==
  ASSUME NEW a \in Int, NEW b \in Int, b # 0
  PROVE  Ideal!Quotient(a, b) = CutDiv(a, b) /\ Ideal!Remainder(a, b) = CutRem(a, b)
<1> DEFINE Good(q) == /\ Abs(a - q * b) < Abs(b)
                      /\ a - q * b = 0 \/ (a - q * b < 0 <=> a < 0)
           c == CutDiv(a, b)
<1>1. c \in (-Abs(a))..Abs(a) /\ Good(c)
  BY CutDivIs
<1>2. Abs(a) \in Nat /\ Abs(b) \in Nat /\ c \in Int
  <2>1. Abs(a) \in Nat /\ Abs(b) \in Nat
    BY AbsSame
  <2> HIDE DEF c
  <2> QED
    BY <1>1, <2>1
<1>3. ASSUME NEW q \in (-Abs(a))..Abs(a), Good(q)
      PROVE  q = c
  <2> HIDE DEF c
  <2>1. q \in Int
    BY <1>2
  <2> DEFINE u == a - q * b
             v == a - c * b
             k == c - q
  <2>2. u \in Int /\ v \in Int /\ k \in Int /\ u - v = k * b
    BY <1>2, <2>1
  <2>3. /\ Abs(u) < Abs(b) /\ (u = 0 \/ (u < 0 <=> a < 0))
        /\ Abs(v) < Abs(b) /\ (v = 0 \/ (v < 0 <=> a < 0))
    BY <1>1, <1>3
  <2>4. k = 0 => c = q
    BY <1>2, <2>1
  <2> HIDE DEF u, v, k
  <2> DEFINE d == u - v
             m == Abs(b)
  <2>5. -m < d /\ d < m /\ d \in Int
    <3>1. m \in Nat /\ Abs(u) < m /\ Abs(v) < m
      BY <1>2, <2>3
    <3> HIDE DEF m
    <3> QED
      BY <2>2, <2>3, <3>1 DEF Abs
  <2>6. d = k * b
    BY <2>2
  <2> HIDE DEF d
  <2>7. k = 0
    BY <2>2, <2>5, <2>6, NoMultiple
  <2> QED
    BY <2>4, <2>7
<1>4. Ideal!Quotient(a, b) = CHOOSE q \in (-Abs(a))..Abs(a) : Good(q)
  BY AbsSame DEF Ideal!Quotient
<1> HIDE DEF Good, c
<1>5. Ideal!Quotient(a, b) = c
  BY <1>1, <1>3, <1>4
<1>6. c * b = b * c
  BY <1>2
<1> QED
  BY <1>5, <1>6 DEF Ideal!Remainder, CutRem, c

LEMMA UnsignedDivision ==
  ASSUME NEW a \in Nat, NEW b \in Nat \ {0}
  PROVE  CutDiv(a, b) \in 0..a /\ CutRem(a, b) \in 0..(b - 1)
<1> DEFINE q == a \div b
           r == a % b
<1>1. q \in Nat /\ q <= a
  BY DivNat
<1>2. r \in Int /\ 0 <= r /\ r < b /\ a = q * b + r
  BY Divided
<1>3. CutDiv(a, b) = q
  <2>1. ~(a < 0) /\ ~(b < 0)
    OBVIOUS
  <2> QED
    BY <2>1 DEF CutDiv
<1> HIDE DEF q, r
<1>4. CutRem(a, b) = r
  BY <1>1, <1>2, <1>3 DEF CutRem
<1> QED
  BY <1>1, <1>2, <1>3, <1>4

LEMMA SignedIs ==
  ASSUME NEW t \in Kinds, NEW s \in 0..(2^W64 - 1)
  PROVE  /\ SignedOf(t, s) = Ideal!Signed(Width(t), Unsigned(t, s))
         /\ SignedOf(t, s) \in Int
         /\ SignedOf(t, s) % 2^Width(t) = Unsigned(t, s)
         /\ SignedOf(t, s) = 0 <=> Unsigned(t, s) = 0
<1> DEFINE w == Width(t)
           n == Unsigned(t, s)
<1>1. w \in Nat \ {0} /\ n \in 0..(2^w - 1)
  BY WidthType, UnsignedType
<1> HIDE DEF w, n
<1>2. ToSigned(w, n) = Ideal!Signed(w, n) /\ ToSigned(w, n) \in Int /\ ToSigned(w, n) % 2^w = n
  BY <1>1, SignedBack
<1>3. 2^w \in Nat \ {0}
  BY <1>1, Pow
<1>4. 0 % 2^w = 0
  BY <1>3, Small
<1>5. n = 0 => ToSigned(w, n) = 0
  <2>1. 2^(w - 1) \in Nat \ {0}
    BY <1>1, SignBit
  <2> QED
    BY <2>1 DEF ToSigned
<1> QED
  BY <1>2, <1>4, <1>5 DEF SignedOf, w, n

LEMMA DivRemResult ==
  ASSUME NEW t \in Kinds, NEW A \in 0..(2^W64 - 1), NEW B \in 0..(2^W64 - 1),
         Unsigned(t, B) # 0, NEW op \in {"div_s", "div_u", "rem_s", "rem_u"}
  PROVE  DivRemOp(op, t, A, B) % 2^Width(t)
           = Ideal!Result(op, Width(t), Unsigned(t, A), Unsigned(t, B))
<1> DEFINE w == Width(t)
           a == Unsigned(t, A)
           b == Unsigned(t, B)
           x == SignedOf(t, A)
           y == SignedOf(t, B)
<1>1. w \in {W32, W64} /\ a \in 0..(2^w - 1) /\ b \in 0..(2^w - 1) /\ 2^w \in Nat \ {0}
  BY WidthType, UnsignedType, Wide
<1>2. x = Ideal!Signed(w, a) /\ y = Ideal!Signed(w, b) /\ x \in Int /\ y \in Int /\ y # 0 /\ b # 0
  BY SignedIs
<1> HIDE DEF w, a, b, x, y
<1>3. Ideal!Quotient(x, y) = CutDiv(x, y) /\ Ideal!Remainder(x, y) = CutRem(x, y)
  BY <1>2, QuotientIs
<1>4. a \in Nat /\ b \in Nat \ {0} /\ a \in Int /\ b \in Int
  BY <1>1, <1>2
<1>5. Ideal!Quotient(a, b) = CutDiv(a, b) /\ Ideal!Remainder(a, b) = CutRem(a, b)
  BY <1>4, QuotientIs
<1>6. CutDiv(a, b) \in 0..a /\ CutRem(a, b) \in 0..(b - 1)
  BY <1>4, UnsignedDivision
<1>7. CutDiv(a, b) \in 0..(2^w - 1) /\ CutRem(a, b) \in 0..(2^w - 1)
  BY <1>1, <1>4, <1>6
<1>8. CutDiv(a, b) % 2^w = CutDiv(a, b) /\ CutRem(a, b) % 2^w = CutRem(a, b)
  BY <1>1, <1>7, Small
<1>9. CASE op = "div_s"
  <2>1. DivRemOp(op, t, A, B) = CutDiv(x, y)
    BY <1>9, Zenon DEF DivRemOp, x, y
  <2>2. Ideal!Result(op, w, a, b) = Ideal!Quotient(Ideal!Signed(w, a), Ideal!Signed(w, b)) % 2^w
    BY <1>9, Zenon DEF Ideal!Result
  <2> QED
    BY <1>2, <1>3, <2>1, <2>2 DEF w, a, b
<1>10. CASE op = "rem_s"
  <2>1. DivRemOp(op, t, A, B) = CutRem(x, y)
    BY <1>10, Zenon DEF DivRemOp, x, y
  <2>2. Ideal!Result(op, w, a, b) = Ideal!Remainder(Ideal!Signed(w, a), Ideal!Signed(w, b)) % 2^w
    BY <1>10, Zenon DEF Ideal!Result
  <2> QED
    BY <1>2, <1>3, <2>1, <2>2 DEF w, a, b
<1>11. CASE op = "div_u"
  <2>1. DivRemOp(op, t, A, B) = CutDiv(a, b)
    BY <1>11, Zenon DEF DivRemOp, a, b
  <2>2. Ideal!Result(op, w, a, b) = Ideal!Quotient(a, b)
    BY <1>11, Zenon DEF Ideal!Result
  <2> QED
    BY <1>5, <1>8, <2>1, <2>2 DEF w, a, b
<1>12. CASE op = "rem_u"
  <2>1. DivRemOp(op, t, A, B) = CutRem(a, b)
    BY <1>12, Zenon DEF DivRemOp, a, b
  <2>2. Ideal!Result(op, w, a, b) = Ideal!Remainder(a, b)
    BY <1>12, Zenon DEF Ideal!Result
  <2> QED
    BY <1>5, <1>8, <2>1, <2>2 DEF w, a, b
<1> QED
  BY <1>9, <1>10, <1>11, <1>12

(* The least number by -1 leaves no remainder.                             *)
LEMMA NoRemainder ==
  ASSUME NEW x \in Int
  PROVE  Ideal!Remainder(x, -1) = 0
<1> DEFINE m == -1
           c == CutDiv(x, m)
<1>1. m \in Int /\ m # 0 /\ m < 0 /\ Abs(m) = 1
  <2>1. m \in Int /\ m + 1 = 0
    OBVIOUS
  <2> HIDE DEF m
  <2> QED
    BY <2>1 DEF Abs
<1> HIDE DEF m
<1>2. Ideal!Remainder(x, m) = CutRem(x, m)
  BY <1>1, QuotientIs
<1>3. c \in (-Abs(x))..Abs(x) /\ Abs(x - c * m) < 1
  BY <1>1, CutDivIs
<1>4. Abs(x) \in Nat
  BY AbsSame
<1> HIDE DEF c
<1>5. c \in Int
  BY <1>3, <1>4
<1> DEFINE r == x - c * m
<1>6. r \in Int /\ Abs(r) < 1
  BY <1>1, <1>3, <1>5
<1>7. CutRem(x, m) = r
  <2>1. c * m = m * c
    BY <1>1, <1>5
  <2> QED
    BY <2>1 DEF CutRem, c
<1> HIDE DEF r
<1>8. r = 0
  BY <1>6 DEF Abs
<1> QED
  BY <1>2, <1>7, <1>8 DEF m

LEMMA NumResult ==
  ASSUME NEW t \in Kinds, NEW A \in 0..(2^W64 - 1), NEW B \in 0..(2^W64 - 1), Masks,
         NEW op \in {"add", "sub", "mul", "and", "or", "xor", "shl", "shr_s", "shr_u"}
  PROVE  NumOp(op, t, A, B) % 2^Width(t)
           = Ideal!Result(op, Width(t), Unsigned(t, A), Unsigned(t, B))
<1> DEFINE w == Width(t)
           a == Unsigned(t, A)
           b == Unsigned(t, B)
           c == b % w
<1>1. w \in {W32, W64} /\ a \in 0..(2^w - 1) /\ b \in 0..(2^w - 1)
  BY WidthType, UnsignedType
<1>2. ShiftCount(w, b) = c
  BY DEF ShiftCount
<1>3. SignedOf(t, A) = ToSigned(w, a)
  BY DEF SignedOf
<1> HIDE DEF w, a, b
<1>4. CASE op = "add"
  BY <1>4, Zenon DEF NumOp, Ideal!Result, w, a, b
<1>5. CASE op = "sub"
  BY <1>5, Zenon DEF NumOp, Ideal!Result, w, a, b
<1>6. CASE op = "mul"
  BY <1>6, Zenon DEF NumOp, Ideal!Result, w, a, b
<1>7. CASE op = "and"
  <2>1. NumOp(op, t, A, B) = BitAnd(a, b)
    BY <1>7, Zenon DEF NumOp, a, b
  <2> QED
    BY <1>1, <1>7, <2>1, AndResult DEF w, a, b
<1>8. CASE op = "or"
  <2>1. NumOp(op, t, A, B) = BitOr(a, b)
    BY <1>8, Zenon DEF NumOp, a, b
  <2> QED
    BY <1>1, <1>8, <2>1, OrResult DEF w, a, b
<1>9. CASE op = "xor"
  <2>1. NumOp(op, t, A, B) = BitXor(a, b)
    BY <1>9, Zenon DEF NumOp, a, b
  <2> QED
    BY <1>1, <1>9, <2>1, XorResult DEF w, a, b
<1>10. CASE op = "shl"
  <2>1. NumOp(op, t, A, B) = a * 2^ShiftCount(w, b)
    BY <1>10, Zenon DEF NumOp, w, a, b
  <2>2. (a * 2^c) % 2^w = Ideal!Result("shl", w, a, b)
    BY <1>1, ShlResult
  <2> QED
    BY <1>2, <1>10, <2>1, <2>2 DEF w, a, b
<1>11. CASE op = "shr_u"
  <2>1. NumOp(op, t, A, B) = a \div 2^ShiftCount(w, b)
    BY <1>11, Zenon DEF NumOp, w, a, b
  <2>2. (a \div 2^c) % 2^w = Ideal!Result("shr_u", w, a, b)
    BY <1>1, ShrUResult
  <2> QED
    BY <1>2, <1>11, <2>1, <2>2 DEF w, a, b
<1>12. CASE op = "shr_s"
  <2>1. NumOp(op, t, A, B) = SignedOf(t, A) \div 2^ShiftCount(w, b)
    BY <1>12, Zenon DEF NumOp, w, a, b
  <2>2. (ToSigned(w, a) \div 2^c) % 2^w = Ideal!Result("shr_s", w, a, b)
    BY <1>1, ShrSResult
  <2> QED
    BY <1>2, <1>3, <1>12, <2>1, <2>2 DEF w, a, b
<1> QED
  BY <1>4, <1>5, <1>6, <1>7, <1>8, <1>9, <1>10, <1>11, <1>12

Comparisons == {"eq", "ne", "lt_s", "lt_u", "gt_s", "gt_u", "le_s", "le_u", "ge_s", "ge_u"}

LEMMA HoldsResult ==
  ASSUME NEW t \in Kinds, NEW A \in 0..(2^W64 - 1), NEW B \in 0..(2^W64 - 1),
         NEW op \in Comparisons
  PROVE  Holds(op, t, A, B) <=> Ideal!Holds(op, Width(t), Unsigned(t, A), Unsigned(t, B))
<1>1. /\ SignedOf(t, A) = Ideal!Signed(Width(t), Unsigned(t, A))
      /\ SignedOf(t, B) = Ideal!Signed(Width(t), Unsigned(t, B))
  BY SignedIs
<1>2. op = "eq" \/ op = "ne" \/ op = "lt_s" \/ op = "lt_u" \/ op = "gt_s" \/ op = "gt_u"
      \/ op = "le_s" \/ op = "le_u" \/ op = "ge_s" \/ op = "ge_u"
  BY DEF Comparisons
<1> QED
  BY <1>1, <1>2, Zenon DEF Holds, Ideal!Holds

(* A number of k bits is loaded with its sign.                             *)
LEMMA SignExtIs ==
  ASSUME NEW t \in Kinds, NEW k \in 1..Width(t), NEW n \in 0..(2^k - 1)
  PROVE  /\ SignExt(t, k, n) = Ideal!Signed(k, n) % 2^Width(t)
         /\ SignExt(t, k, n) \in 0..(2^Width(t) - 1)
         /\ n \in 0..(2^Width(t) - 1)
<1> DEFINE w == Width(t)
           h == 2^(k - 1)
           p == n + 2^w - 2^k
           m == 2^w - 2^k
<1>1. w \in {W32, W64} /\ w \in Nat \ {0} /\ k \in Nat \ {0} /\ k <= w /\ k \in 1..w
  BY WidthType
<1> HIDE DEF w
<1>2. /\ w <= W64 /\ W64 \in Nat /\ 2^w \in Nat \ {0} /\ 2^W64 \in Nat \ {0} /\ 2^w <= 2^W64
      /\ 2^k \in Nat \ {0} /\ 2^k <= 2^w /\ w - k \in Nat /\ 2^w = 2^(w - k) * 2^k
      /\ 2^(w - k) \in Nat
  <2>1. /\ w <= W64 /\ W64 \in Nat /\ 2^w \in Nat \ {0} /\ 2^W64 \in Nat \ {0} /\ 2^w <= 2^W64
    BY <1>1, Wide, GroupType
  <2>2. 2^k <= 2^w /\ w - k \in Nat /\ 2^w = 2^(w - k) * 2^k
    BY <1>1, PowLess
  <2> QED
    BY <1>1, <2>1, <2>2, Pow
<1>3. n \in 0..(2^w - 1) /\ n \in 0..(2^W64 - 1) /\ n \in Int
  BY <1>2
<1>4. /\ k - 1 \in Nat /\ BitOf(n, k - 1) = (IF n >= h THEN 1 ELSE 0)
      /\ 2^k = 2 * h /\ h \in Nat \ {0}
  BY <1>1, SignBit
<1>5. BitAnd(n, 2^(k - 1)) # 0 <=> n >= h
  <2>1. k - 1 \in 0..(W64 - 1)
    BY <1>1, <1>2
  <2>2. BitAnd(n, 2^(k - 1)) # 0 <=> BitOf(n, k - 1) = 1
    BY <1>3, <2>1, AndBit
  <2> QED
    BY <1>4, <2>2
<1>6. Ideal!Signed(k, n) = IF n >= h THEN n - 2^k ELSE n
  BY <1>4 DEF Ideal!Signed, Ideal!Bit, BitOf
<1>7. SignExt(t, k, n) = IF n >= h THEN BitOr(p, m) ELSE n
  BY <1>5 DEF SignExt, w
<1> HIDE DEF h
<1>8. CASE n >= h
  <2>1. p \in 0..(2^w - 1) /\ m \in 0..(2^w - 1)
    BY <1>2, <1>4, <1>8
  <2>2. p = (n - 2^k) + 1 * 2^w /\ n - 2^k \in Int /\ -(2^k) <= n - 2^k /\ n - 2^k < 0 /\ 1 \in Int
    BY <1>2, <1>3
  <2>3. m = (2^(w - k) - 1) * 2^k /\ 2^(w - k) - 1 \in Int
    <3> DEFINE y == 2^(w - k)
               z == 2^k
    <3>1. y \in Nat /\ z \in Nat /\ 2^w = y * z
      BY <1>2
    <3> HIDE DEF y, z
    <3>2. y * z - z = (y - 1) * z
      BY <3>1
    <3> QED
      BY <3>1, <3>2 DEF y, z
  <2> HIDE DEF p, m
  <2>4. /\ BitOr(p, m) \in 0..(2^w - 1)
        /\ \A i \in 0..(w - 1) :
             BitOf(BitOr(p, m), i) = IF BitOf(p, i) = 1 \/ BitOf(m, i) = 1 THEN 1 ELSE 0
    BY <1>1, <2>1, OrBits
  <2>5. ASSUME NEW i \in 0..(w - 1)
        PROVE  BitOf(BitOr(p, m), i) = BitOf(p, i)
    <3>1. i \in Nat /\ i < w /\ p \in Int
      BY <1>1, <1>2, <2>1
    <3>2. BitOf(p, i) \in {0, 1}
      BY <3>1, BitType
    <3>3. i < k => BitOf(m, i) = 0
      <4> DEFINE j == 2^(w - k) - 1
      <4>1. j \in Int /\ m = j * 2^k
        BY <2>3
      <4> HIDE DEF j
      <4>2. BitOf(j * 2^k, i) = IF i < k THEN 0 ELSE BitOf(j, i - k)
        BY <1>1, <3>1, <4>1, BitTimes
      <4> QED
        BY <4>1, <4>2
    <3>4. ~(i < k) => BitOf(p, i) = 1
      <4> SUFFICES ASSUME ~(i < k) PROVE BitOf(p, i) = 1
        OBVIOUS
      <4> DEFINE j == n - 2^k
      <4>1. p = j + 1 * 2^w /\ j \in Int /\ -(2^k) <= j /\ j < 0 /\ k <= i /\ k \in Nat
        BY <1>1, <2>2, <3>1
      <4> HIDE DEF j
      <4>2. BitOf(j + 1 * 2^w, i) = BitOf(j, i)
        BY <1>1, <2>2, <3>1, <4>1, BitPlus
      <4>3. BitOf(j, i) = 1
        BY <3>1, <4>1, BitNegative
      <4> QED
        BY <4>1, <4>2, <4>3
    <3>5. BitOf(BitOr(p, m), i) = IF BitOf(p, i) = 1 \/ BitOf(m, i) = 1 THEN 1 ELSE 0
      BY <2>4
    <3> QED
      BY <3>2, <3>3, <3>4, <3>5
  <2>6. BitOr(p, m) = p
    BY <1>1, <2>1, <2>4, <2>5, SameBits
  <2>7. (n - 2^k) % 2^w = p
    <3> DEFINE j == n - 2^k
    <3>1. j \in Int /\ -(2^w) <= j /\ j < 0 /\ p = j + 2^w
      BY <1>2, <2>2
    <3> HIDE DEF j
    <3>2. j % 2^w = j + 2^w
      BY <1>2, <3>1, ModNegative
    <3> QED
      BY <3>1, <3>2 DEF j
  <2> QED
    BY <1>3, <1>6, <1>7, <1>8, <2>1, <2>6, <2>7 DEF w
<1>9. CASE ~(n >= h)
  <2>1. n % 2^w = n
    BY <1>2, <1>3, Small
  <2> QED
    BY <1>3, <1>6, <1>7, <1>9, <2>1 DEF w
<1> QED
  BY <1>8, <1>9

-----------------------------------------------------------------------------
(* The stack of Arithmetic.                                                *)
Slots == 0..(2^W64 - 1)
Operand(t, s) == [type |-> t, n |-> Unsigned(t, s)]
StackFrom(vs, ts) == [i \in DOMAIN vs |-> [type |-> ts[i], n |-> Unsigned(ts[i], vs[i])]]
StackOf == IF trap # "none" THEN <<>> ELSE StackFrom(values, types)

LEMMA StackType ==
  ASSUME NEW vs \in Seq(Slots), NEW ts \in Seq(Kinds), Len(ts) = Len(vs)
  PROVE  /\ Len(vs) \in Nat /\ DOMAIN vs = 1..Len(vs) /\ DOMAIN ts = 1..Len(vs)
         /\ \A i \in 1..Len(vs) : vs[i] \in Slots /\ ts[i] \in Kinds
         /\ StackFrom(vs, ts) = [i \in 1..Len(vs) |-> Operand(ts[i], vs[i])]
         /\ Len(StackFrom(vs, ts)) = Len(vs)
         /\ \E T : StackFrom(vs, ts) \in Seq(T)
<1>1. /\ Len(vs) \in Nat /\ DOMAIN vs = 1..Len(vs) /\ DOMAIN ts = 1..Len(vs)
      /\ \A i \in 1..Len(vs) : vs[i] \in Slots /\ ts[i] \in Kinds
  OBVIOUS
<1>2. StackFrom(vs, ts) = [i \in 1..Len(vs) |-> Operand(ts[i], vs[i])]
  BY <1>1, Zenon DEF StackFrom, Operand
<1> DEFINE f == [i \in 1..Len(vs) |-> Operand(ts[i], vs[i])]
           T == {Operand(ts[i], vs[i]) : i \in 1..Len(vs)}
<1>3. f \in [1..Len(vs) -> T]
  OBVIOUS
<1> HIDE DEF f, T
<1>4. f \in Seq(T) /\ Len(f) = Len(vs)
  BY <1>1, <1>3
<1> QED
  BY <1>1, <1>2, <1>4 DEF f

LEMMA StackAppend ==
  ASSUME NEW vs \in Seq(Slots), NEW ts \in Seq(Kinds), Len(ts) = Len(vs),
         NEW s \in Slots, NEW t \in Kinds
  PROVE  /\ Append(vs, s) \in Seq(Slots) /\ Append(ts, t) \in Seq(Kinds)
         /\ Len(Append(ts, t)) = Len(Append(vs, s))
         /\ StackFrom(Append(vs, s), Append(ts, t))
              = Append(StackFrom(vs, ts), Ideal!Number(t, Unsigned(t, s)))
<1> DEFINE v == Append(vs, s)
           u == Append(ts, t)
           n == Len(vs)
           x == StackFrom(vs, ts)
<1>1. v \in Seq(Slots) /\ u \in Seq(Kinds) /\ Len(u) = Len(v) /\ Len(v) = n + 1 /\ n \in Nat
  OBVIOUS
<1>2. /\ \A i \in 1..n : v[i] = vs[i] /\ u[i] = ts[i]
      /\ v[n + 1] = s /\ u[n + 1] = t
  OBVIOUS
<1>3. x = [i \in 1..n |-> Operand(ts[i], vs[i])] /\ Len(x) = n
  BY StackType
<1>4. PICK T : x \in Seq(T)
  BY StackType
<1> HIDE DEF v, u, x
<1>5. StackFrom(v, u) = [i \in 1..(n + 1) |-> Operand(u[i], v[i])]
  BY <1>1, StackType
<1>6. Append(x, Operand(t, s)) = [i \in 1..(n + 1) |-> IF i \in 1..n THEN x[i] ELSE Operand(t, s)]
  <2> DEFINE e == Operand(t, s)
  <2> HIDE DEF e
  <2>1. x \in Seq(T \cup {e}) /\ e \in T \cup {e}
    BY <1>4
  <2> DEFINE y == Append(x, e)
  <2>2. y \in Seq(T \cup {e}) /\ Len(y) = n + 1
    BY <1>1, <1>3, <2>1
  <2>3. \A i \in 1..(n + 1) : y[i] = IF i \in 1..n THEN x[i] ELSE e
    BY <1>1, <1>3, <2>1
  <2> HIDE DEF y
  <2>4. y = [i \in 1..(n + 1) |-> y[i]]
    BY <2>2
  <2>5. y = [i \in 1..(n + 1) |-> IF i \in 1..n THEN x[i] ELSE e]
    BY <2>3, <2>4, Zenon
  <2> QED
    BY <2>5 DEF y, e
<1>7. \A i \in 1..(n + 1) :
        Operand(u[i], v[i]) = IF i \in 1..n THEN x[i] ELSE Operand(t, s)
  <2> SUFFICES ASSUME NEW i \in 1..(n + 1)
               PROVE  Operand(u[i], v[i]) = IF i \in 1..n THEN x[i] ELSE Operand(t, s)
    OBVIOUS
  <2>1. CASE i \in 1..n
    BY <1>2, <1>3, <2>1
  <2>2. CASE i \notin 1..n
    <3>1. i = n + 1
      BY <1>1, <2>2
    <3> QED
      BY <1>2, <2>2, <3>1
  <2> QED
    BY <2>1, <2>2
<1>8. StackFrom(v, u) = Append(x, Operand(t, s))
  BY <1>5, <1>6, <1>7, Zenon
<1>9. Operand(t, s) = Ideal!Number(t, Unsigned(t, s))
  BY DEF Operand, Ideal!Number
<1> QED
  BY <1>1, <1>8, <1>9 DEF v, u, x

LEMMA StackBelow ==
  ASSUME NEW vs \in Seq(Slots), NEW ts \in Seq(Kinds), Len(ts) = Len(vs),
         NEW k \in 0..Len(vs)
  PROVE  /\ Below(k, vs) \in Seq(Slots) /\ Below(k, ts) \in Seq(Kinds)
         /\ Len(Below(k, ts)) = Len(Below(k, vs))
         /\ StackFrom(Below(k, vs), Below(k, ts))
              = SubSeq(StackFrom(vs, ts), 1, Len(StackFrom(vs, ts)) - k)
<1> DEFINE v == SubSeq(vs, 1, Len(vs) - k)
           u == SubSeq(ts, 1, Len(ts) - k)
           n == Len(vs) - k
           x == StackFrom(vs, ts)
<1>1. n \in Nat /\ n <= Len(vs) /\ Len(vs) \in Nat
  OBVIOUS
<1>2. v \in Seq(Slots) /\ u \in Seq(Kinds) /\ Len(u) = n /\ Len(v) = n
  BY <1>1
<1>3. \A i \in 1..n : v[i] = vs[i] /\ u[i] = ts[i]
  BY <1>1
<1>4. Below(k, vs) = v /\ Below(k, ts) = u
  BY Zenon DEF Below
<1>5. x = [i \in 1..Len(vs) |-> Operand(ts[i], vs[i])] /\ Len(x) = Len(vs)
  BY StackType
<1>6. PICK T : x \in Seq(T)
  BY StackType
<1> HIDE DEF v, u, x
<1>7. StackFrom(v, u) = [i \in 1..n |-> Operand(u[i], v[i])]
  BY <1>2, StackType
<1>8. SubSeq(x, 1, n) = [i \in 1..n |-> x[i]]
  BY <1>1, <1>5, <1>6
<1>9. \A i \in 1..n : Operand(u[i], v[i]) = x[i]
  BY <1>1, <1>3, <1>5
<1>10. StackFrom(v, u) = SubSeq(x, 1, n)
  BY <1>7, <1>8, <1>9, Zenon
<1>11. Len(x) - k = n
  BY <1>5
<1> QED
  BY <1>2, <1>4, <1>10, <1>11 DEF x

-----------------------------------------------------------------------------
(* The invariant.                                                          *)
IInv ==
  /\ values \in Seq(Slots) /\ types \in Seq(Kinds) /\ Len(types) = Len(values)
  /\ trap \in {"none", "integer overflow", "divide by zero"}

LEMMA Stacked ==
  ASSUME IInv, trap = "none"
  PROVE  /\ StackOf = StackFrom(values, types) /\ Len(StackOf) = Len(values) /\ Len(values) \in Nat
         /\ StackOf = <<>> <=> values = <<>>
         /\ Len(values) >= 1 => /\ StackOf[Len(StackOf)] = Operand(TopType, Top)
                                /\ Top \in Slots /\ TopType \in Kinds /\ StackOf # <<>>
         /\ Len(values) >= 2 => /\ StackOf[Len(StackOf) - 1] = Operand(types[Len(types) - 1], Second)
                                /\ Second \in Slots /\ types[Len(types) - 1] \in Kinds
<1>1. StackOf = StackFrom(values, types)
  BY DEF StackOf
<1>2. values \in Seq(Slots) /\ types \in Seq(Kinds) /\ Len(types) = Len(values)
  BY DEF IInv
<1>3. /\ Len(values) \in Nat
      /\ \A i \in 1..Len(values) : values[i] \in Slots /\ types[i] \in Kinds
      /\ StackFrom(values, types) = [i \in 1..Len(values) |-> Operand(types[i], values[i])]
      /\ Len(StackFrom(values, types)) = Len(values)
  BY <1>2, StackType
<1>4. StackOf = <<>> <=> values = <<>>
  <2>1. Len(values) = 0 <=> values = <<>>
    BY <1>2
  <2>2. PICK T : StackOf \in Seq(T)
    BY <1>1, <1>2, StackType
  <2>3. Len(StackOf) = 0 <=> StackOf = <<>>
    BY <2>2
  <2> QED
    BY <1>1, <1>3, <2>1, <2>3
<1>5. ASSUME Len(values) >= 1
      PROVE  /\ StackOf[Len(StackOf)] = Operand(TopType, Top)
             /\ Top \in Slots /\ TopType \in Kinds /\ StackOf # <<>>
  <2>1. Len(values) \in 1..Len(values)
    BY <1>3, <1>5
  <2>2. values # <<>>
    BY <1>5
  <2> QED
    BY <1>1, <1>2, <1>3, <1>4, <2>1, <2>2 DEF Top, TopType
<1>6. ASSUME Len(values) >= 2
      PROVE  /\ StackOf[Len(StackOf) - 1] = Operand(types[Len(types) - 1], Second)
             /\ Second \in Slots /\ types[Len(types) - 1] \in Kinds
  <2>1. Len(values) - 1 \in 1..Len(values)
    BY <1>3, <1>6
  <2> QED
    BY <1>1, <1>2, <1>3, <2>1 DEF Second
<1> QED
  BY <1>1, <1>3, <1>4, <1>5, <1>6

LEMMA PushStep ==
  ASSUME IInv, NEW t \in Kinds, NEW n \in 0..(2^Width(t) - 1), Push(t, n)
  PROVE  IInv' /\ Ideal!Push(t, n)
<1>1. trap = "none" /\ Len(values) < MaxHeight /\ types' = Append(types, t) /\ trap' = trap
  BY DEF Push
<1>2. PICK s \in NewValues(t, n) : values' = Append(values, s)
  BY DEF Push
<1>3. s \in Slots /\ Unsigned(t, s) = n
  BY NewIs DEF Slots
<1>4. values \in Seq(Slots) /\ types \in Seq(Kinds) /\ Len(types) = Len(values)
  BY DEF IInv
<1>5. /\ values' \in Seq(Slots) /\ types' \in Seq(Kinds) /\ Len(types') = Len(values')
      /\ StackFrom(values', types') = Append(StackFrom(values, types), Ideal!Number(t, n))
  BY <1>1, <1>2, <1>3, <1>4, StackAppend
<1>6. IInv'
  BY <1>1, <1>5 DEF IInv
<1>7. StackOf = StackFrom(values, types) /\ Len(StackOf) = Len(values)
  BY <1>1, Stacked
<1>8. StackOf' = StackFrom(values', types')
  BY <1>1 DEF StackOf
<1>9. StackOf' = Append(StackOf, Ideal!Number(t, n)) /\ Len(StackOf) < MaxHeight
  BY <1>1, <1>5, <1>7, <1>8
<1>10. Ideal!Push(t, n)
  BY <1>1, <1>9 DEF Ideal!Push, Ideal!Running, StackOf, StackFrom
<1> QED
  BY <1>6, <1>10

LEMMA ReplaceStep ==
  ASSUME IInv, trap = "none", NEW k \in 0..Len(values), NEW t \in Kinds, NEW s \in Slots,
         Replace(k, t, s)
  PROVE  IInv' /\ Ideal!Replace(k, Ideal!Number(t, Unsigned(t, s))) /\ trap' = trap
<1>1. values' = Append(Below(k, values), s) /\ types' = Append(Below(k, types), t) /\ trap' = trap
  BY DEF Replace
<1>2. values \in Seq(Slots) /\ types \in Seq(Kinds) /\ Len(types) = Len(values)
  BY DEF IInv
<1> DEFINE v == Below(k, values)
           u == Below(k, types)
<1>3. /\ v \in Seq(Slots) /\ u \in Seq(Kinds) /\ Len(u) = Len(v)
      /\ StackFrom(v, u) = SubSeq(StackFrom(values, types), 1, Len(StackFrom(values, types)) - k)
  BY <1>2, StackBelow
<1> HIDE DEF v, u
<1>4. values' = Append(v, s) /\ types' = Append(u, t)
  BY <1>1 DEF v, u
<1>5. /\ values' \in Seq(Slots) /\ types' \in Seq(Kinds) /\ Len(types') = Len(values')
      /\ StackFrom(values', types') = Append(StackFrom(v, u), Ideal!Number(t, Unsigned(t, s)))
  BY <1>3, <1>4, StackAppend
<1>6. IInv'
  BY <1>1, <1>5 DEF IInv
<1>7. StackOf' = StackFrom(values', types') /\ StackOf = StackFrom(values, types)
  BY <1>1 DEF StackOf
<1>8. StackOf' = Append(SubSeq(StackOf, 1, Len(StackOf) - k), Ideal!Number(t, Unsigned(t, s)))
  BY <1>3, <1>5, <1>7
<1>9. Ideal!Replace(k, Ideal!Number(t, Unsigned(t, s)))
  BY <1>1, <1>8 DEF Ideal!Replace, Ideal!Below, StackOf, StackFrom
<1> QED
  BY <1>1, <1>6, <1>9

LEMMA OneOperand ==
  ASSUME IInv, NEW t \in Kinds, Operands(1, t)
  PROVE  /\ trap = "none" /\ 1 \in 0..Len(values) /\ TopType = t /\ Top \in Slots
         /\ Ideal!Running /\ StackOf # <<>>
         /\ Ideal!Top.type = t /\ Ideal!Top.n = Unsigned(t, Top)
<1>1. trap = "none" /\ Len(values) >= 1 /\ \A i \in 0..(1 - 1) : types[Len(types) - i] = t
  BY DEF Operands
<1>2. Len(types) = Len(values) /\ Len(values) \in Nat
  BY <1>1, Stacked DEF IInv
<1>3. TopType = t
  <2>1. 0 \in 0..(1 - 1) /\ Len(types) - 0 = Len(types)
    BY <1>2
  <2>2. types[Len(types) - 0] = t
    BY <1>1, <2>1
  <2> QED
    BY <2>1, <2>2 DEF TopType
<1>4. StackOf[Len(StackOf)] = Operand(TopType, Top) /\ Top \in Slots /\ StackOf # <<>>
  BY <1>1, Stacked
<1>5. Ideal!Top = StackOf[Len(StackOf)]
  BY Zenon DEF Ideal!Top, StackOf, StackFrom
<1>6. Ideal!Top.type = t /\ Ideal!Top.n = Unsigned(t, Top)
  BY <1>3, <1>4, <1>5 DEF Operand
<1>7. Ideal!Running
  BY <1>1 DEF Ideal!Running
<1> QED
  BY <1>1, <1>2, <1>3, <1>4, <1>6, <1>7

LEMMA TwoOperands ==
  ASSUME IInv, NEW t \in Kinds, Operands(2, t), NEW op, last' = Last(op, t, <<>>, <<>>)
  PROVE  /\ trap = "none" /\ 2 \in 0..Len(values) /\ 1 \in 0..Len(values)
         /\ Top \in Slots /\ Second \in Slots
         /\ Ideal!TwoOperands(op) /\ Ideal!Running
         /\ Ideal!Top.type = t /\ Ideal!Top.n = Unsigned(t, Top)
         /\ Ideal!Second.type = t /\ Ideal!Second.n = Unsigned(t, Second)
<1>1. trap = "none" /\ Len(values) >= 2 /\ \A i \in 0..(2 - 1) : types[Len(types) - i] = t
  BY DEF Operands
<1>2. Len(types) = Len(values) /\ Len(values) \in Nat /\ Len(StackOf) = Len(values)
  BY <1>1, Stacked DEF IInv
<1>3. Operands(1, t)
  <2>1. \A i \in 0..(1 - 1) : i \in 0..(2 - 1)
    OBVIOUS
  <2>2. \A i \in 0..(1 - 1) : types[Len(types) - i] = t
    BY <1>1, <2>1
  <2> QED
    BY <1>1, <1>2, <2>2 DEF Operands
<1>4. /\ 1 \in 0..Len(values) /\ Top \in Slots /\ Ideal!Running
      /\ Ideal!Top.type = t /\ Ideal!Top.n = Unsigned(t, Top)
  BY <1>3, OneOperand
<1>5. types[Len(types) - 1] = t
  <2>1. 1 \in 0..(2 - 1)
    OBVIOUS
  <2> QED
    BY <1>1, <2>1
<1>6. StackOf[Len(StackOf) - 1] = Operand(types[Len(types) - 1], Second) /\ Second \in Slots
  BY <1>1, Stacked
<1>7. Ideal!Second = StackOf[Len(StackOf) - 1]
  BY Zenon DEF Ideal!Second, StackOf, StackFrom
<1>8. Ideal!Second.type = t /\ Ideal!Second.n = Unsigned(t, Second)
  BY <1>5, <1>6, <1>7 DEF Operand
<1>9. Ideal!TwoOperands(op)
  <2>1. last' = Ideal!Last(op, t, <<>>, <<>>)
    BY DEF Last, Ideal!Last
  <2>2. Len(StackOf) >= 2
    BY <1>1, <1>2
  <2>3. Ideal!TwoOperands(op) <=> /\ Ideal!Running /\ Len(StackOf) >= 2 /\ Ideal!Top.type = Ideal!Second.type
                                  /\ last' = Ideal!Last(op, Ideal!Top.type, <<>>, <<>>)
    BY Zenon DEF Ideal!TwoOperands, StackOf, StackFrom
  <2> QED
    BY <1>4, <1>8, <2>1, <2>2, <2>3
<1> QED
  BY <1>1, <1>2, <1>4, <1>6, <1>8, <1>9

(* Each instruction keeps the invariant and is one of Arithmetic.          *)
LEMMA ConstStep ==
  ASSUME IInv, Const
  PROVE  IInv' /\ Ideal!Const
<1>0. PICK t \in Kinds : \E n \in 0..(2^Width(t) - 1) :
        \E bytes \in SignedEncodings(Width(t), ToSigned(Width(t), n)) :
          Push(t, ReadLeb(t, bytes)) /\ last' = Last("const", t, <<n>>, <<>>)
  BY DEF Const, Kinds
<1>a. PICK n \in 0..(2^Width(t) - 1) :
        \E bytes \in SignedEncodings(Width(t), ToSigned(Width(t), n)) :
          Push(t, ReadLeb(t, bytes)) /\ last' = Last("const", t, <<n>>, <<>>)
  BY <1>0
<1>1. PICK bytes \in SignedEncodings(Width(t), ToSigned(Width(t), n)) :
        Push(t, ReadLeb(t, bytes)) /\ last' = Last("const", t, <<n>>, <<>>)
  BY <1>a
<1>2. ReadLeb(t, bytes) = n
  BY ReadLebBack
<1>3. Push(t, n)
  BY <1>1, <1>2
<1>4. IInv' /\ Ideal!Push(t, n)
  BY <1>3, PushStep
<1>5. last' = Ideal!Last("const", t, <<n>>, <<>>)
  BY <1>1 DEF Last, Ideal!Last
<1>6. t \in Ideal!Types /\ n \in Ideal!Bits(Ideal!Width(t))
  BY WidthType DEF Ideal!Types, Kinds, Ideal!Bits
<1>7. Ideal!Const
  BY <1>4, <1>5, <1>6, Zenon DEF Ideal!Const
<1> QED
  BY <1>4, <1>7

LEMMA IndexStep ==
  ASSUME IInv, Index
  PROVE  IInv' /\ Ideal!Index
<1>0. PICK n \in 0..(2^W32 - 1) : \E bytes \in UnsignedEncodings(W32, n) :
        /\ trap = "none" /\ values = <<>>
        /\ last' = Last("index", "i32", <<n>>, <<ReadLebU32(bytes)>>)
        /\ UNCHANGED <<values, types, trap>>
  BY DEF Index
<1>1. PICK bytes \in UnsignedEncodings(W32, n) :
        /\ trap = "none" /\ values = <<>>
        /\ last' = Last("index", "i32", <<n>>, <<ReadLebU32(bytes)>>)
        /\ UNCHANGED <<values, types, trap>>
  BY <1>0
<1>2. ReadLebU32(bytes) = n
  BY ReadIndex
<1>3. StackOf = <<>> /\ StackOf' = StackOf
  <2>1. StackOf = <<>>
    BY <1>1, Stacked
  <2> QED
    BY <1>1, <2>1 DEF StackOf, StackFrom
<1>4. last' = Ideal!Last("index", "i32", <<n>>, <<n>>)
  BY <1>1, <1>2 DEF Last, Ideal!Last
<1>5. n \in Ideal!Bits(W32) /\ Ideal!Running /\ trap' = trap
  BY <1>1 DEF Ideal!Bits, Ideal!Running
<1>6. Ideal!Index
  BY <1>3, <1>4, <1>5, Zenon DEF Ideal!Index, StackOf, StackFrom
<1>7. IInv'
  BY <1>1 DEF IInv
<1> QED
  BY <1>6, <1>7

LEMMA LoadStep ==
  ASSUME IInv, Load
  PROVE  IInv' /\ Ideal!Load
<1>0. PICK t \in Kinds : \E k \in 1..Width(t) : \E n \in 0..(2^k - 1) :
        \/ Push(t, SignExt(t, k, n)) /\ last' = Last("load_s", t, <<k, n>>, <<>>)
        \/ Push(t, n) /\ last' = Last("load_u", t, <<k, n>>, <<>>)
  BY DEF Load, Kinds
<1>a. PICK k \in 1..Width(t) : \E n \in 0..(2^k - 1) :
        \/ Push(t, SignExt(t, k, n)) /\ last' = Last("load_s", t, <<k, n>>, <<>>)
        \/ Push(t, n) /\ last' = Last("load_u", t, <<k, n>>, <<>>)
  BY <1>0
<1>1. PICK n \in 0..(2^k - 1) :
        \/ Push(t, SignExt(t, k, n)) /\ last' = Last("load_s", t, <<k, n>>, <<>>)
        \/ Push(t, n) /\ last' = Last("load_u", t, <<k, n>>, <<>>)
  BY <1>a
<1>2. /\ SignExt(t, k, n) = Ideal!Signed(k, n) % 2^Width(t)
      /\ SignExt(t, k, n) \in 0..(2^Width(t) - 1)
      /\ n \in 0..(2^Width(t) - 1)
  BY SignExtIs
<1>3. /\ t \in Ideal!Types /\ k \in 1..Ideal!Width(t) /\ n \in Ideal!Bits(k)
      /\ Ideal!Width(t) = Width(t)
  BY WidthType DEF Ideal!Types, Kinds, Ideal!Bits
<1>4. CASE Push(t, SignExt(t, k, n)) /\ last' = Last("load_s", t, <<k, n>>, <<>>)
  <2>1. IInv' /\ Ideal!Push(t, SignExt(t, k, n))
    BY <1>2, <1>4, PushStep
  <2>2. last' = Ideal!Last("load_s", t, <<k, n>>, <<>>)
    BY <1>4 DEF Last, Ideal!Last
  <2>3. Ideal!Push(t, Ideal!Signed(k, n) % 2^Ideal!Width(t))
    BY <1>2, <1>3, <2>1
  <2>4. Ideal!Load
    BY <1>3, <2>2, <2>3, Zenon DEF Ideal!Load
  <2> QED
    BY <2>1, <2>4
<1>5. CASE Push(t, n) /\ last' = Last("load_u", t, <<k, n>>, <<>>)
  <2>1. IInv' /\ Ideal!Push(t, n)
    BY <1>2, <1>5, PushStep
  <2>2. last' = Ideal!Last("load_u", t, <<k, n>>, <<>>)
    BY <1>5 DEF Last, Ideal!Last
  <2>3. Ideal!Load
    BY <1>3, <2>1, <2>2, Zenon DEF Ideal!Load
  <2> QED
    BY <2>1, <2>3
<1> QED
  BY <1>1, <1>4, <1>5

LEMMA StoreStep ==
  ASSUME IInv, Store
  PROVE  IInv' /\ Ideal!Store
<1>0. PICK t \in Kinds : \E k \in 1..Width(t) :
        /\ Operands(1, t)
        /\ last' = Last("store", t, <<k>>, <<Unsigned(t, Top) % 2^k>>)
        /\ values' = Below(1, values) /\ types' = Below(1, types) /\ trap' = trap
  BY DEF Store, Kinds
<1>1. PICK k \in 1..Width(t) :
        /\ Operands(1, t)
        /\ last' = Last("store", t, <<k>>, <<Unsigned(t, Top) % 2^k>>)
        /\ values' = Below(1, values) /\ types' = Below(1, types) /\ trap' = trap
  BY <1>0
<1>2. /\ trap = "none" /\ 1 \in 0..Len(values) /\ Ideal!Running /\ StackOf # <<>>
      /\ Ideal!Top.type = t /\ Ideal!Top.n = Unsigned(t, Top)
  BY <1>1, OneOperand
<1>3. values \in Seq(Slots) /\ types \in Seq(Kinds) /\ Len(types) = Len(values)
  BY DEF IInv
<1>4. /\ values' \in Seq(Slots) /\ types' \in Seq(Kinds) /\ Len(types') = Len(values')
      /\ StackFrom(values', types')
           = SubSeq(StackFrom(values, types), 1, Len(StackFrom(values, types)) - 1)
  BY <1>1, <1>2, <1>3, StackBelow
<1>5. IInv'
  BY <1>1, <1>2, <1>4 DEF IInv
<1>6. StackOf' = SubSeq(StackOf, 1, Len(StackOf) - 1)
  BY <1>1, <1>2, <1>4 DEF StackOf
<1>7. k \in 1..W64 /\ k <= Ideal!Width(Ideal!Top.type)
  <2>1. /\ Width(t) \in {W32, W64} /\ Ideal!Width(t) = Width(t)
        /\ W32 \in Nat /\ W64 \in Nat /\ W64 = 2 * W32
    BY WidthType, GroupType
  <2>2. k \in Nat \ {0} /\ k <= Width(t) /\ Width(t) <= W64
    BY <2>1
  <2> QED
    BY <1>2, <2>1, <2>2
<1>8. last' = Ideal!Last("store", Ideal!Top.type, <<k>>, <<Ideal!Top.n % 2^k>>)
  BY <1>1, <1>2 DEF Last, Ideal!Last
<1>9. Ideal!Store
  BY <1>1, <1>2, <1>6, <1>7, <1>8, Zenon DEF Ideal!Store, Ideal!Below, StackOf, StackFrom
<1> QED
  BY <1>5, <1>9

LEMMA BitOpStep ==
  ASSUME IInv, BitOp
  PROVE  IInv' /\ Ideal!Unary
<1>1. PICK t \in Kinds, op \in {"clz", "ctz", "popcnt"} :
        /\ Operands(1, t) /\ last' = Last(op, t, <<>>, <<>>)
        /\ \E s \in NewValues(t, Counted(op, Width(t), Unsigned(t, Top))) : Replace(1, t, s)
  BY DEF BitOp, Kinds
<1>2. /\ trap = "none" /\ 1 \in 0..Len(values) /\ Ideal!Running /\ StackOf # <<>>
      /\ Ideal!Top.type = t /\ Ideal!Top.n = Unsigned(t, Top) /\ Top \in Slots
  BY <1>1, OneOperand
<1> DEFINE w == Width(t)
           n == Unsigned(t, Top)
           x == Counted(op, w, n)
<1>3. w \in {W32, W64} /\ n \in 0..(2^w - 1) /\ Ideal!Width(t) = w
  BY <1>2, WidthType, UnsignedType DEF Slots
<1> HIDE DEF w, n
<1>4. x = Ideal!Counted(op, w, n) /\ x \in 0..(2^w - 1)
  BY <1>3, CountedResult
<1> HIDE DEF x
<1>5. PICK s \in NewValues(t, x) : Replace(1, t, s)
  BY <1>1 DEF x, w, n
<1>6. s \in Slots /\ Unsigned(t, s) = x
  BY <1>4, NewIs DEF Slots, w
<1>7. IInv' /\ Ideal!Replace(1, Ideal!Number(t, Unsigned(t, s)))
  BY <1>2, <1>5, <1>6, ReplaceStep
<1>8. Ideal!Replace(1, Ideal!Number(t, Ideal!Counted(op, w, n)))
  BY <1>4, <1>6, <1>7 DEF Ideal!Replace
<1>9. Ideal!Replace(1, Ideal!Number(Ideal!Top.type,
                         Ideal!Counted(op, Ideal!Width(Ideal!Top.type), Ideal!Top.n)))
  BY <1>2, <1>3, <1>8 DEF n, Ideal!Replace
<1>10. last' = Ideal!Last(op, Ideal!Top.type, <<>>, <<>>) /\ op \in Ideal!UnaryOps
  BY <1>1, <1>2 DEF Last, Ideal!Last, Ideal!UnaryOps
<1>11. Ideal!Unary
  BY <1>2, <1>9, <1>10, Zenon DEF Ideal!Unary, StackOf, StackFrom
<1> QED
  BY <1>7, <1>11

LEMMA TruthType ==
  ASSUME NEW b \in 0..1
  PROVE  b \in 0..(2^Width("i32") - 1) /\ "i32" \in Kinds
<1>1. W32 \in Nat \ {0} /\ Width("i32") = W32
  BY GroupType DEF Width
<1>2. W32 < 2^W32 /\ 2^W32 \in Nat
  BY <1>1, Powers
<1> QED
  BY <1>1, <1>2 DEF Kinds

LEMMA EqzStep ==
  ASSUME IInv, Eqz
  PROVE  IInv' /\ Ideal!Eqz
<1>1. PICK t \in Kinds :
        /\ Operands(1, t) /\ last' = Last("eqz", t, <<>>, <<>>)
        /\ \E s \in NewValues("i32", IF Unsigned(t, Top) = 0 THEN 1 ELSE 0) : Replace(1, "i32", s)
  BY DEF Eqz, Kinds
<1>2. /\ trap = "none" /\ 1 \in 0..Len(values) /\ Ideal!Running /\ StackOf # <<>>
      /\ Ideal!Top.type = t /\ Ideal!Top.n = Unsigned(t, Top)
  BY <1>1, OneOperand
<1> DEFINE x == IF Unsigned(t, Top) = 0 THEN 1 ELSE 0
<1>3. PICK s \in NewValues("i32", x) : Replace(1, "i32", s)
  BY <1>1
<1>4. x = Ideal!Truth(Ideal!Top.n = 0) /\ x \in 0..1
  BY <1>2 DEF Ideal!Truth
<1> HIDE DEF x
<1>5. x \in 0..(2^Width("i32") - 1) /\ "i32" \in Kinds
  BY <1>4, TruthType
<1>6. s \in Slots /\ Unsigned("i32", s) = x
  BY <1>5, NewIs DEF Slots
<1>7. IInv' /\ Ideal!Replace(1, Ideal!Number("i32", Unsigned("i32", s)))
  BY <1>2, <1>3, <1>5, <1>6, ReplaceStep
<1>8. Ideal!Replace(1, Ideal!Number("i32", Ideal!Truth(Ideal!Top.n = 0)))
  BY <1>4, <1>6, <1>7 DEF Ideal!Replace
<1>9. last' = Ideal!Last("eqz", Ideal!Top.type, <<>>, <<>>)
  BY <1>1, <1>2 DEF Last, Ideal!Last
<1>10. Ideal!Eqz
  BY <1>2, <1>8, <1>9, Zenon DEF Ideal!Eqz, StackOf, StackFrom
<1> QED
  BY <1>7, <1>10

LEMMA WrapStep ==
  ASSUME IInv, Wrap
  PROVE  IInv' /\ Ideal!Convert
<1>1. /\ Operands(1, "i64") /\ last' = Last("wrap", "i64", <<>>, <<>>)
      /\ \E s \in NewValues("i32", Unsigned("i32", Top)) : Replace(1, "i32", s)
      /\ "i32" \in Kinds /\ "i64" \in Kinds
  BY DEF Wrap, Kinds
<1>2. /\ trap = "none" /\ 1 \in 0..Len(values) /\ Ideal!Running /\ StackOf # <<>>
      /\ Ideal!Top.type = "i64" /\ Ideal!Top.n = Unsigned("i64", Top) /\ Top \in Slots
  BY <1>1, OneOperand
<1> DEFINE x == Unsigned("i32", Top)
<1>3. PICK s \in NewValues("i32", x) : Replace(1, "i32", s)
  BY <1>1
<1>4. x \in 0..(2^Width("i32") - 1)
  BY <1>1, <1>2, UnsignedType DEF Slots
<1>5. x = Ideal!Top.n % 2^W32
  <2>1. Top % 2^W64 = Top
    BY <1>2, Halves, Small DEF Slots
  <2> QED
    BY <1>2, <2>1 DEF Unsigned, Width
<1> HIDE DEF x
<1>6. s \in Slots /\ Unsigned("i32", s) = x
  BY <1>1, <1>4, NewIs DEF Slots
<1>7. IInv' /\ Ideal!Replace(1, Ideal!Number("i32", Unsigned("i32", s)))
  BY <1>1, <1>2, <1>3, <1>6, ReplaceStep
<1>8. Ideal!Replace(1, Ideal!Converted("wrap", Ideal!Top.n))
  <2>1. Ideal!Converted("wrap", Ideal!Top.n) = Ideal!Number("i32", Ideal!Top.n % 2^W32)
    BY Zenon DEF Ideal!Converted
  <2> QED
    BY <1>5, <1>6, <1>7, <2>1 DEF Ideal!Replace
<1>9. last' = Ideal!Last("wrap", Ideal!Top.type, <<>>, <<>>)
  BY <1>1, <1>2 DEF Last, Ideal!Last
<1>10. Ideal!Convert
  <2> DEFINE op == "wrap"
  <2>1. /\ op \in {"wrap", "extend_s", "extend_u"}
        /\ Ideal!Top.type = (IF op = "wrap" THEN "i64" ELSE "i32")
    BY <1>2
  <2>2. Ideal!Replace(1, Ideal!Converted(op, Ideal!Top.n)) /\ last' = Ideal!Last(op, Ideal!Top.type, <<>>, <<>>)
    BY <1>8, <1>9
  <2> HIDE DEF op
  <2> QED
    BY <1>2, <2>1, <2>2, Zenon DEF Ideal!Convert, StackOf, StackFrom
<1> QED
  BY <1>7, <1>10

LEMMA ExtendStep ==
  ASSUME IInv, Extend
  PROVE  IInv' /\ Ideal!Convert
<1> DEFINE X(op) == IF op = "extend_s" THEN SignedOf("i32", Top) % 2^W64 ELSE Unsigned("i32", Top)
<1>1. PICK op \in {"extend_s", "extend_u"} :
        /\ Operands(1, "i32") /\ last' = Last(op, "i32", <<>>, <<>>)
        /\ Replace(1, "i64", X(op))
  BY DEF Extend
<1> DEFINE x == X(op)
<1>2. /\ trap = "none" /\ 1 \in 0..Len(values) /\ Ideal!Running /\ StackOf # <<>>
      /\ Ideal!Top.type = "i32" /\ Ideal!Top.n = Unsigned("i32", Top) /\ Top \in Slots
      /\ "i32" \in Kinds /\ "i64" \in Kinds
  BY <1>1, OneOperand DEF Kinds
<1>3. x \in Slots /\ Ideal!Converted(op, Ideal!Top.n) = Ideal!Number("i64", x)
  <2>1. CASE op = "extend_s"
    <3>1. SignedOf("i32", Top) = Ideal!Signed(Width("i32"), Unsigned("i32", Top))
          /\ SignedOf("i32", Top) \in Int
      BY <1>2, SignedIs DEF Slots
    <3> DEFINE y == SignedOf("i32", Top)
               p == 2^W64
    <3>2. y = Ideal!Signed(W32, Ideal!Top.n) /\ y \in Int /\ p \in Nat \ {0}
      BY <1>2, <3>1, Halves DEF Width
    <3>3. Ideal!Converted(op, Ideal!Top.n) = Ideal!Number("i64", Ideal!Signed(W32, Ideal!Top.n) % 2^W64)
      BY <2>1, Zenon DEF Ideal!Converted
    <3>4. x = y % p
      BY <2>1
    <3> HIDE DEF y, x
    <3>5. x \in 0..(p - 1)
      <4> HIDE DEF p
      <4> QED
        BY <3>2, <3>4, Divided
    <3> QED
      BY <3>2, <3>3, <3>4, <3>5 DEF Slots
  <2>2. CASE op = "extend_u"
    <3>1. x = Ideal!Top.n
      BY <1>2, <2>2
    <3>2. Ideal!Converted(op, Ideal!Top.n) = Ideal!Number("i64", Ideal!Top.n)
      BY <2>2, Zenon DEF Ideal!Converted
    <3>3. Unsigned("i32", Top) \in 0..(2^Width("i32") - 1)
      BY <1>2, UnsignedType DEF Slots
    <3>4. Width("i32") = W32 /\ 2^W32 <= 2^W64 /\ 2^W32 \in Nat /\ 2^W64 \in Nat
      BY Wide DEF Width
    <3> DEFINE y == Unsigned("i32", Top)
    <3> HIDE DEF y
    <3>5. y \in Slots
      BY <3>3, <3>4 DEF Slots, y
    <3> QED
      BY <1>2, <3>1, <3>2, <3>5 DEF y
  <2> QED
    BY <2>1, <2>2
<1> HIDE DEF x
<1>4. Unsigned("i64", x) = x
  <2>1. x % 2^W64 = x
    BY <1>3, Halves, Small DEF Slots
  <2> QED
    BY <2>1 DEF Unsigned, Width
<1>b. PICK s \in Slots : s = x
  BY <1>3
<1>5. Replace(1, "i64", s)
  BY <1>1, <1>b DEF x, Replace
<1>6. IInv' /\ Ideal!Replace(1, Ideal!Number("i64", Unsigned("i64", s)))
  BY <1>2, <1>5, ReplaceStep
<1>7. Ideal!Replace(1, Ideal!Converted(op, Ideal!Top.n))
  BY <1>3, <1>4, <1>6, <1>b DEF Ideal!Replace
<1>8. last' = Ideal!Last(op, Ideal!Top.type, <<>>, <<>>) /\ op # "wrap"
  BY <1>1, <1>2 DEF Last, Ideal!Last
<1>9. Ideal!Convert
  BY <1>2, <1>7, <1>8, Zenon DEF Ideal!Convert, StackOf, StackFrom
<1> QED
  BY <1>6, <1>9

(* What the instructions on two operands leave is a number of their width, *)
(* whatever a shift that C++ does not define does.                         *)
LEMMA ShiftType ==
  ASSUME NEW w \in Nat \ {0}, NEW b \in Nat
  PROVE  2^ShiftCount(w, b) \in Nat \ {0}
<1>1. b % w \in Nat
  BY Divided
<1>2. ShiftCount(w, b) \in Nat
  BY <1>1 DEF ShiftCount
<1> QED
  BY <1>2, Pow

LEMMA NumType ==
  ASSUME NEW t \in Kinds, NEW A \in 0..(2^W64 - 1), NEW B \in 0..(2^W64 - 1),
         NEW op \in {"add", "sub", "mul", "and", "or", "xor", "shl", "shr_s", "shr_u"}
  PROVE  NumOp(op, t, A, B) \in Int
<1> DEFINE w == Width(t)
           a == Unsigned(t, A)
           b == Unsigned(t, B)
           x == SignedOf(t, A)
           p == 2^ShiftCount(w, b)
<1>1. w \in Nat \ {0} /\ a \in 0..(2^w - 1) /\ b \in 0..(2^w - 1) /\ 2^w \in Nat /\ 2^W64 \in Nat
      /\ 2^w <= 2^W64
  BY WidthType, Wide, UnsignedType
<1>2. x \in Int
  BY SignedIs
<1> HIDE DEF w, a, b, x
<1>3. p \in Nat \ {0}
  BY <1>1, ShiftType
<1>4. a \in Nat /\ b \in Nat /\ a \in 0..(2^W64 - 1) /\ b \in 0..(2^W64 - 1)
  BY <1>1
<1>5. BitAnd(a, b) \in Int /\ BitOr(a, b) \in Int /\ BitXor(a, b) \in Int
  BY <1>1, <1>4, Machine
<1> HIDE DEF p
<1>6. a + b \in Int /\ a - b \in Int /\ a * b \in Int /\ a * p \in Int
  BY <1>3, <1>4
<1>7. a \div p \in Int /\ x \div p \in Int
  BY <1>2, <1>3, <1>4, Divided
<1> DEFINE y == NumOp(op, t, A, B)
<1>8. \/ y = a + b \/ y = a - b \/ y = a * b
      \/ y = BitAnd(a, b) \/ y = BitOr(a, b) \/ y = BitXor(a, b)
      \/ y = a * p \/ y = a \div p \/ y = x \div p
  BY Zenon DEF NumOp, w, a, b, x, p
<1> QED
  BY <1>5, <1>6, <1>7, <1>8

LEMMA DivRemType ==
  ASSUME NEW t \in Kinds, NEW A \in 0..(2^W64 - 1), NEW B \in 0..(2^W64 - 1),
         Unsigned(t, B) # 0, NEW op \in {"div_s", "div_u", "rem_s", "rem_u"}
  PROVE  DivRemOp(op, t, A, B) \in Int
<1>1. ASSUME NEW x \in Int, NEW y \in Int, y # 0
      PROVE  CutDiv(x, y) \in Int /\ CutRem(x, y) \in Int
  <2>1. CutDiv(x, y) \in (-Abs(x))..Abs(x) /\ Abs(x) \in Nat
    BY <1>1, CutDivIs, AbsSame
  <2>2. CutDiv(x, y) \in Int
    BY <2>1
  <2> QED
    BY <2>2 DEF CutRem
<1> DEFINE a == Unsigned(t, A)
           b == Unsigned(t, B)
           x == SignedOf(t, A)
           y == SignedOf(t, B)
<1>2. a \in Int /\ b \in Int /\ x \in Int /\ y \in Int /\ b # 0 /\ y # 0
  BY UnsignedType, SignedIs
<1> HIDE DEF a, b, x, y
<1>3. CutDiv(a, b) \in Int /\ CutRem(a, b) \in Int /\ CutDiv(x, y) \in Int /\ CutRem(x, y) \in Int
  BY <1>1, <1>2
<1> DEFINE z == DivRemOp(op, t, A, B)
<1>4. z = CutDiv(a, b) \/ z = CutRem(a, b) \/ z = CutDiv(x, y) \/ z = CutRem(x, y)
  BY Zenon DEF DivRemOp, a, b, x, y
<1> QED
  BY <1>3, <1>4

LEMMA Reduced ==
  ASSUME NEW t \in Kinds, NEW x \in Int
  PROVE  x % 2^Width(t) \in 0..(2^Width(t) - 1)
<1> DEFINE p == 2^Width(t)
<1>1. p \in Nat \ {0}
  BY WidthType, Wide
<1> HIDE DEF p
<1>2. x % p \in 0..(p - 1)
  BY <1>1, Divided
<1> QED
  BY <1>2 DEF p

(* An instruction on two operands that does not trap.                      *)
LEMMA BinaryDone ==
  ASSUME NEW op \in Ideal!BinaryOps, NEW t \in Kinds, Ideal!TwoOperands(op),
         Ideal!Top.type = t, trap = "none", trap' = trap,
         Ideal!TrapOf(op, Width(t), Ideal!Second.n, Ideal!Top.n) = "none",
         Ideal!Replace(2, Ideal!Number(t, Ideal!Result(op, Width(t), Ideal!Second.n, Ideal!Top.n)))
  PROVE  Ideal!Binary
<1>1. Ideal!Width(Ideal!Top.type) = Width(t)
  BY WidthType
<1>2. trap' = Ideal!TrapOf(op, Ideal!Width(Ideal!Top.type), Ideal!Second.n, Ideal!Top.n) /\ trap' = "none"
  BY <1>1
<1>3. Ideal!Replace(2, Ideal!Number(Ideal!Top.type,
        Ideal!Result(op, Ideal!Width(Ideal!Top.type), Ideal!Second.n, Ideal!Top.n)))
  BY <1>1 DEF Ideal!Replace
<1>4. StackOf' = Append(Ideal!Below(2), Ideal!Number(Ideal!Top.type,
        Ideal!Result(op, Ideal!Width(Ideal!Top.type), Ideal!Second.n, Ideal!Top.n)))
  BY <1>3, Zenon DEF Ideal!Replace, StackOf, StackFrom
<1> QED
  BY <1>2, <1>4, Zenon DEF Ideal!Binary, StackOf, StackFrom

LEMMA BinaryTrapped ==
  ASSUME NEW op \in Ideal!BinaryOps, NEW t \in Kinds, Ideal!TwoOperands(op),
         Ideal!Top.type = t, trap' # "none",
         trap' = Ideal!TrapOf(op, Width(t), Ideal!Second.n, Ideal!Top.n)
  PROVE  Ideal!Binary
<1>1. Ideal!Width(Ideal!Top.type) = Width(t)
  BY WidthType
<1>2. trap' = Ideal!TrapOf(op, Ideal!Width(Ideal!Top.type), Ideal!Second.n, Ideal!Top.n)
  BY <1>1
<1>3. StackOf' = <<>>
  BY DEF StackOf
<1> QED
  BY <1>2, <1>3, Zenon DEF Ideal!Binary, StackOf, StackFrom

LEMMA NumStep ==
  ASSUME IInv, Num
  PROVE  IInv' /\ (Masks => Ideal!Binary)
<1>1. PICK t \in Kinds, op \in {"add", "sub", "mul", "and", "or", "xor", "shl", "shr_s", "shr_u"} :
        /\ Operands(2, t) /\ last' = Last(op, t, <<>>, <<>>)
        /\ Replace(2, t, Assign(t, Second, NumOp(op, t, Second, Top) % 2^Width(t)))
  BY DEF Num, Kinds
<1>2. /\ trap = "none" /\ 2 \in 0..Len(values) /\ Top \in Slots /\ Second \in Slots
      /\ Ideal!TwoOperands(op) /\ Ideal!Top.type = t
      /\ Ideal!Top.n = Unsigned(t, Top) /\ Ideal!Second.n = Unsigned(t, Second)
  BY <1>1, TwoOperands
<1>3. PICK B \in Slots : B = Top
  BY <1>2
<1>4. PICK A \in Slots : A = Second
  BY <1>2
<1> DEFINE n == NumOp(op, t, A, B) % 2^Width(t)
           x == Assign(t, A, n)
<1>5. n \in 0..(2^Width(t) - 1)
  BY NumType, Reduced DEF Slots
<1>6. Masks => n = Ideal!Result(op, Width(t), Unsigned(t, A), Unsigned(t, B))
  BY NumResult DEF Slots
<1>7. Replace(2, t, x)
  BY <1>1, <1>3, <1>4 DEF Replace
<1> HIDE DEF n
<1>8. x \in Slots /\ Unsigned(t, x) = n
  BY <1>5, AssignIs DEF Slots
<1> HIDE DEF x
<1>9. PICK s \in Slots : s = x
  BY <1>8
<1>10. Replace(2, t, s)
  BY <1>7, <1>9
<1>11. IInv' /\ Ideal!Replace(2, Ideal!Number(t, Unsigned(t, s))) /\ trap' = trap
  BY <1>2, <1>10, ReplaceStep
<1>12. ASSUME Masks PROVE Ideal!Binary
  <2>1. Ideal!Replace(2, Ideal!Number(t, Ideal!Result(op, Width(t), Ideal!Second.n, Ideal!Top.n)))
    BY <1>2, <1>3, <1>4, <1>6, <1>8, <1>9, <1>11, <1>12 DEF Ideal!Replace
  <2>2. op \in Ideal!BinaryOps /\ op \notin Ideal!DivOps /\ op # "div_s"
    BY DEF Ideal!BinaryOps, Ideal!DivOps
  <2>3. Ideal!TrapOf(op, Width(t), Ideal!Second.n, Ideal!Top.n) = "none"
    BY <2>2 DEF Ideal!TrapOf
  <2> QED
    BY <1>2, <1>11, <2>1, <2>2, <2>3, BinaryDone
<1> QED
  BY <1>11, <1>12

LEMMA RotStep ==
  ASSUME IInv, Rot
  PROVE  IInv' /\ Ideal!Binary
<1>1. PICK t \in Kinds, op \in {"rotl", "rotr"} :
        /\ Operands(2, t) /\ last' = Last(op, t, <<>>, <<>>)
        /\ \E s \in NewValues(t, IF op = "rotl"
                                 THEN Rotl(Width(t), Unsigned(t, Second), Unsigned(t, Top))
                                 ELSE Rotr(Width(t), Unsigned(t, Second), Unsigned(t, Top))) :
             Replace(2, t, s)
  BY DEF Rot, Kinds
<1>2. /\ trap = "none" /\ 2 \in 0..Len(values) /\ Top \in Slots /\ Second \in Slots
      /\ Ideal!TwoOperands(op) /\ Ideal!Top.type = t
      /\ Ideal!Top.n = Unsigned(t, Top) /\ Ideal!Second.n = Unsigned(t, Second)
  BY <1>1, TwoOperands
<1> DEFINE w == Width(t)
           a == Unsigned(t, Second)
           b == Unsigned(t, Top)
           x == IF op = "rotl" THEN Rotl(w, a, b) ELSE Rotr(w, a, b)
<1>3. w \in {W32, W64} /\ a \in 0..(2^w - 1) /\ b \in 0..(2^w - 1)
  BY <1>2, WidthType, UnsignedType DEF Slots
<1>4. PICK s \in NewValues(t, x) : Replace(2, t, s)
  BY <1>1
<1> HIDE DEF w, a, b
<1>5. x = Ideal!Result(op, w, a, b) /\ x \in 0..(2^w - 1)
  <2>1. CASE op = "rotl"
    BY <1>3, <2>1, RotlResult
  <2>2. CASE op = "rotr"
    BY <1>3, <2>2, RotrResult
  <2> QED
    BY <2>1, <2>2
<1> HIDE DEF x
<1>6. s \in Slots /\ Unsigned(t, s) = x
  BY <1>5, NewIs DEF Slots, w
<1>7. IInv' /\ Ideal!Replace(2, Ideal!Number(t, Unsigned(t, s))) /\ trap' = trap
  BY <1>2, <1>4, <1>6, ReplaceStep
<1>8. Ideal!Replace(2, Ideal!Number(t, Ideal!Result(op, Width(t), Ideal!Second.n, Ideal!Top.n)))
  BY <1>2, <1>5, <1>6, <1>7 DEF Ideal!Replace, w, a, b
<1>9. op \in Ideal!BinaryOps /\ op \notin Ideal!DivOps /\ op # "div_s"
  BY DEF Ideal!BinaryOps, Ideal!DivOps
<1>10. Ideal!TrapOf(op, Width(t), Ideal!Second.n, Ideal!Top.n) = "none"
  BY <1>9 DEF Ideal!TrapOf
<1>11. Ideal!Binary
  BY <1>2, <1>7, <1>8, <1>9, <1>10, BinaryDone
<1> QED
  BY <1>7, <1>11

(* A trap of a division leaves the operands it has not popped.             *)
LEMMA TrapStep ==
  ASSUME IInv, NEW k \in 0..Len(values), NEW reason \in {"integer overflow", "divide by zero"},
         Trapped(reason, k)
  PROVE  IInv' /\ trap' = reason /\ trap' # "none"
<1>1. trap' = reason /\ values' = Below(k, values) /\ types' = Below(k, types)
  BY DEF Trapped
<1>2. values \in Seq(Slots) /\ types \in Seq(Kinds) /\ Len(types) = Len(values)
  BY DEF IInv
<1>3. values' \in Seq(Slots) /\ types' \in Seq(Kinds) /\ Len(types') = Len(values')
  BY <1>1, <1>2, StackBelow
<1> QED
  BY <1>1, <1>3 DEF IInv

LEMMA DivRemStep ==
  ASSUME IInv, DivRem
  PROVE  IInv' /\ Ideal!Binary
<1>1. PICK t \in Kinds, op \in {"div_s", "div_u", "rem_s", "rem_u"} :
        /\ Operands(2, t) /\ last' = Last(op, t, <<>>, <<>>)
        /\ \/ op = "div_s" /\ MinByMinusOne(t) /\ Trapped("integer overflow", 0)
           \/ op = "rem_s" /\ MinByMinusOne(t) /\ Replace(2, t, Assign(t, Second, 0))
           \/ /\ ~(op \in {"div_s", "rem_s"} /\ MinByMinusOne(t))
              /\ IF Unsigned(t, Top) = 0 THEN Trapped("divide by zero", 1)
                 ELSE \E s \in NewValues(t, DivRemOp(op, t, Second, Top) % 2^Width(t)) :
                        Replace(2, t, s)
  BY DEF DivRem, Kinds
<1>0. /\ trap = "none" /\ 2 \in 0..Len(values) /\ 1 \in 0..Len(values)
      /\ Top \in Slots /\ Second \in Slots
      /\ Ideal!TwoOperands(op) /\ Ideal!Top.type = t
      /\ Ideal!Top.n = Unsigned(t, Top) /\ Ideal!Second.n = Unsigned(t, Second)
  BY <1>1, TwoOperands
<1>2. /\ trap = "none" /\ 2 \in 0..Len(values) /\ 1 \in 0..Len(values) /\ 0 \in 0..Len(values)
      /\ Top \in Slots /\ Second \in Slots
      /\ Ideal!TwoOperands(op) /\ Ideal!Top.type = t
      /\ Ideal!Top.n = Unsigned(t, Top) /\ Ideal!Second.n = Unsigned(t, Second)
  <2>1. Len(values) \in Nat
    BY <1>0, Stacked
  <2>2. 0 \in 0..Len(values)
    BY <2>1
  <2> QED
    BY <1>0, <2>2
<1>3. PICK B \in Slots : B = Top
  BY <1>2
<1>4. PICK A \in Slots : A = Second
  BY <1>2
<1> DEFINE w == Width(t)
           a == Unsigned(t, A)
           b == Unsigned(t, B)
           x == SignedOf(t, A)
           y == SignedOf(t, B)
<1>5. /\ w \in {W32, W64} /\ 2^w \in Nat \ {0} /\ a \in 0..(2^w - 1) /\ b \in 0..(2^w - 1)
  BY WidthType, UnsignedType, Wide DEF Slots
<1>6. /\ x = Ideal!Signed(w, a) /\ y = Ideal!Signed(w, b) /\ x \in Int /\ y \in Int
      /\ (y = 0 <=> b = 0)
  BY SignedIs DEF Slots
<1>7. MinByMinusOne(t) <=> y = -1 /\ x = -(2^(w - 1))
  BY <1>3, <1>4 DEF MinByMinusOne
<1>8. Ideal!Second.n = a /\ Ideal!Top.n = b
  BY <1>2, <1>3, <1>4
<1> HIDE DEF w, a, b, x, y
<1>9. op \in Ideal!BinaryOps /\ op \in Ideal!DivOps
  BY DEF Ideal!BinaryOps, Ideal!DivOps
<1>10. Ideal!TrapOf(op, w, a, b) = IF b = 0 THEN "divide by zero"
         ELSE IF op = "div_s" /\ MinByMinusOne(t) THEN "integer overflow" ELSE "none"
  BY <1>6, <1>7, <1>9 DEF Ideal!TrapOf
<1>11. MinByMinusOne(t) => b # 0
  <2>1. -1 # 0
    <3> DEFINE m == -1
    <3>1. m \in Int /\ m + 1 = 0
      OBVIOUS
    <3> HIDE DEF m
    <3> QED
      BY <3>1 DEF m
  <2> QED
    BY <1>6, <1>7, <2>1
<1>12. CASE op = "div_s" /\ MinByMinusOne(t) /\ Trapped("integer overflow", 0)
  <2>1. IInv' /\ trap' = "integer overflow" /\ trap' # "none"
    BY <1>2, <1>12, TrapStep
  <2>2. trap' = Ideal!TrapOf(op, Width(t), Ideal!Second.n, Ideal!Top.n)
    BY <1>8, <1>10, <1>11, <1>12, <2>1 DEF w
  <2> QED
    BY <1>2, <1>9, <2>1, <2>2, BinaryTrapped
<1>13. ASSUME NEW s \in Slots, Unsigned(t, s) = Ideal!Result(op, w, a, b), Replace(2, t, s),
              Ideal!TrapOf(op, w, a, b) = "none"
       PROVE  IInv' /\ Ideal!Binary
  <2>1. IInv' /\ Ideal!Replace(2, Ideal!Number(t, Unsigned(t, s))) /\ trap' = trap
    BY <1>2, <1>13, ReplaceStep
  <2>2. Ideal!Replace(2, Ideal!Number(t, Ideal!Result(op, Width(t), Ideal!Second.n, Ideal!Top.n)))
    BY <1>8, <1>13, <2>1 DEF Ideal!Replace, w
  <2>3. Ideal!TrapOf(op, Width(t), Ideal!Second.n, Ideal!Top.n) = "none"
    BY <1>8, <1>13 DEF w
  <2> QED
    BY <1>2, <1>9, <2>1, <2>2, <2>3, BinaryDone
<1>14. CASE op = "rem_s" /\ MinByMinusOne(t) /\ Replace(2, t, Assign(t, Second, 0))
  <2>1. Ideal!Result(op, w, a, b) = Ideal!Remainder(Ideal!Signed(w, a), Ideal!Signed(w, b)) % 2^w
    BY <1>14, Zenon DEF Ideal!Result
  <2>2. Ideal!Remainder(Ideal!Signed(w, a), Ideal!Signed(w, b)) = 0
    BY <1>6, <1>7, <1>14, NoRemainder
  <2>3. 0 % 2^w = 0 /\ 0 \in 0..(2^w - 1)
    BY <1>5, Small
  <2>4. PICK s \in Slots : s = Assign(t, A, 0) /\ Unsigned(t, s) = 0
    BY <2>3, AssignIs DEF Slots, w
  <2>5. Replace(2, t, s)
    BY <1>4, <1>14, <2>4
  <2>6. Ideal!TrapOf(op, w, a, b) = "none"
    BY <1>10, <1>11, <1>14
  <2>7. Unsigned(t, s) = Ideal!Result(op, w, a, b)
    BY <2>1, <2>2, <2>3, <2>4
  <2> QED
    BY <1>13, <2>5, <2>6, <2>7
<1>15. CASE /\ ~(op \in {"div_s", "rem_s"} /\ MinByMinusOne(t))
            /\ IF Unsigned(t, Top) = 0 THEN Trapped("divide by zero", 1)
               ELSE \E s \in NewValues(t, DivRemOp(op, t, Second, Top) % 2^Width(t)) :
                      Replace(2, t, s)
  <2>0. Unsigned(t, Top) = b
    BY <1>3 DEF b
  <2>1. CASE b = 0
    <3>1. Trapped("divide by zero", 1)
      BY <1>15, <2>0, <2>1
    <3>2. IInv' /\ trap' = "divide by zero" /\ trap' # "none"
      BY <1>2, <3>1, TrapStep
    <3>3. trap' = Ideal!TrapOf(op, Width(t), Ideal!Second.n, Ideal!Top.n)
      BY <1>8, <1>10, <2>1, <3>2 DEF w
    <3> QED
      BY <1>2, <1>9, <3>2, <3>3, BinaryTrapped
  <2>2. CASE b # 0
    <3> DEFINE n == DivRemOp(op, t, A, B) % 2^Width(t)
    <3>1. \E s \in NewValues(t, DivRemOp(op, t, Second, Top) % 2^Width(t)) : Replace(2, t, s)
      BY <1>15, <2>0, <2>2
    <3>2. PICK s \in NewValues(t, n) : Replace(2, t, s)
      BY <1>3, <1>4, <3>1
    <3>3. Unsigned(t, B) # 0
      BY <2>2 DEF b
    <3>4. n \in 0..(2^Width(t) - 1) /\ n = Ideal!Result(op, Width(t), Unsigned(t, A), Unsigned(t, B))
      BY <3>3, DivRemType, Reduced, DivRemResult DEF Slots
    <3> HIDE DEF n
    <3>5. s \in Slots /\ Unsigned(t, s) = n
      BY <3>4, NewIs DEF Slots
    <3>6. Unsigned(t, s) = Ideal!Result(op, w, a, b)
      BY <3>4, <3>5 DEF w, a, b
    <3>7. Ideal!TrapOf(op, w, a, b) = "none"
      BY <1>10, <1>15, <2>2
    <3> QED
      BY <1>13, <3>2, <3>5, <3>6, <3>7
  <2> QED
    BY <2>1, <2>2
<1> QED
  BY <1>1, <1>12, <1>14, <1>15

LEMMA CmpStep ==
  ASSUME IInv, Cmp
  PROVE  IInv' /\ Ideal!Compare
<1>1. PICK t \in Kinds, op \in Comparisons :
        /\ Operands(2, t) /\ last' = Last(op, t, <<>>, <<>>)
        /\ \E s \in NewValues("i32", IF Holds(op, t, Second, Top) THEN 1 ELSE 0) :
             Replace(2, "i32", s)
  BY DEF Cmp, Kinds, Comparisons
<1>2. /\ trap = "none" /\ 2 \in 0..Len(values) /\ Top \in Slots /\ Second \in Slots
      /\ Ideal!TwoOperands(op) /\ Ideal!Top.type = t
      /\ Ideal!Top.n = Unsigned(t, Top) /\ Ideal!Second.n = Unsigned(t, Second)
  BY <1>1, TwoOperands
<1>3. PICK B \in Slots : B = Top
  BY <1>2
<1>4. PICK A \in Slots : A = Second
  BY <1>2
<1> DEFINE x == IF Holds(op, t, A, B) THEN 1 ELSE 0
<1>5. PICK s \in NewValues("i32", x) : Replace(2, "i32", s)
  BY <1>1, <1>3, <1>4
<1>6. Holds(op, t, A, B) <=> Ideal!Holds(op, Width(t), Unsigned(t, A), Unsigned(t, B))
  BY HoldsResult DEF Slots
<1>7. Ideal!Width(Ideal!Top.type) = Width(t)
  BY <1>2, WidthType
<1>8. x = Ideal!Truth(Ideal!Holds(op, Ideal!Width(Ideal!Top.type), Ideal!Second.n, Ideal!Top.n))
  <2>1. x = Ideal!Truth(Ideal!Holds(op, Width(t), Unsigned(t, A), Unsigned(t, B)))
    BY <1>6 DEF Ideal!Truth
  <2> QED
    BY <1>2, <1>3, <1>4, <1>7, <2>1
<1>9. x \in 0..1
  OBVIOUS
<1> HIDE DEF x
<1>10. x \in 0..(2^Width("i32") - 1) /\ "i32" \in Kinds
  BY <1>9, TruthType
<1>11. s \in Slots /\ Unsigned("i32", s) = x
  BY <1>10, NewIs DEF Slots
<1>12. IInv' /\ Ideal!Replace(2, Ideal!Number("i32", Unsigned("i32", s)))
  BY <1>2, <1>5, <1>10, <1>11, ReplaceStep
<1>13. Ideal!Replace(2, Ideal!Number("i32",
         Ideal!Truth(Ideal!Holds(op, Ideal!Width(Ideal!Top.type), Ideal!Second.n, Ideal!Top.n))))
  BY <1>8, <1>11, <1>12 DEF Ideal!Replace
<1>14. op \in Ideal!CompareOps
  BY DEF Ideal!CompareOps, Comparisons
<1>15. Ideal!Compare
  BY <1>2, <1>13, <1>14, Zenon DEF Ideal!Compare
<1> QED
  BY <1>12, <1>15

LEMMA RestartStep ==
  ASSUME IInv, Restart
  PROVE  IInv' /\ Ideal!Restart
<1>1. trap # "none" /\ trap' = "none" /\ values' = <<>> /\ types' = <<>> /\ last' = last
  BY DEF Restart
<1>2. values' \in Seq(Slots) /\ types' \in Seq(Kinds) /\ Len(types') = Len(values')
  BY <1>1
<1>3. IInv'
  BY <1>1, <1>2 DEF IInv
<1>4. StackOf = <<>> /\ StackOf' = <<>>
  <2>1. StackFrom(values', types') = <<>>
    <3>1. Len(StackFrom(values', types')) = Len(values') /\ \E T : StackFrom(values', types') \in Seq(T)
      BY <1>2, StackType
    <3> QED
      BY <1>1, <3>1
  <2> QED
    BY <1>1, <2>1 DEF StackOf
<1>5. ~Ideal!Running
  BY <1>1 DEF Ideal!Running
<1>6. Ideal!Restart
  BY <1>1, <1>4, <1>5, Zenon DEF Ideal!Restart, StackOf, StackFrom
<1> QED
  BY <1>3, <1>6

LEMMA Starts ==
  ASSUME Init
  PROVE  IInv /\ Ideal!Init
<1>1. values = <<>> /\ types = <<>> /\ last = Last("none", "i32", <<>>, <<>>) /\ trap = "none"
  BY DEF Init
<1>2. IInv
  BY <1>1 DEF IInv
<1>3. StackOf = <<>>
  BY <1>1, <1>2, Stacked
<1>4. last = Ideal!Last("none", "i32", <<>>, <<>>)
  BY <1>1 DEF Last, Ideal!Last
<1>5. Ideal!Init
  BY <1>1, <1>3, <1>4, Zenon DEF Ideal!Init, StackOf, StackFrom
<1> QED
  BY <1>2, <1>5

(* The invariant is kept with or without Masks; the steps are Arithmetic's *)
(* if the machine reduces the counts of shifts.                            *)
LEMMA Steps ==
  ASSUME IInv, [Next]_vars
  PROVE  IInv' /\ (Masks => [Ideal!Next]_(Ideal!vars))
<1>1. CASE Const
  BY <1>1, ConstStep DEF Ideal!Next
<1>2. CASE Index
  BY <1>2, IndexStep DEF Ideal!Next
<1>3. CASE Load
  BY <1>3, LoadStep DEF Ideal!Next
<1>4. CASE Store
  BY <1>4, StoreStep DEF Ideal!Next
<1>5. CASE BitOp
  BY <1>5, BitOpStep DEF Ideal!Next
<1>6. CASE Eqz
  BY <1>6, EqzStep DEF Ideal!Next
<1>7. CASE Wrap
  BY <1>7, WrapStep DEF Ideal!Next
<1>8. CASE Extend
  BY <1>8, ExtendStep DEF Ideal!Next
<1>9. CASE Num
  BY <1>9, NumStep DEF Ideal!Next
<1>10. CASE Rot
  BY <1>10, RotStep DEF Ideal!Next
<1>11. CASE DivRem
  BY <1>11, DivRemStep DEF Ideal!Next
<1>12. CASE Cmp
  BY <1>12, CmpStep DEF Ideal!Next
<1>13. CASE Restart
  BY <1>13, RestartStep DEF Ideal!Next
<1>14. CASE UNCHANGED vars
  <2>1. values' = values /\ types' = types /\ last' = last /\ trap' = trap
    BY <1>14 DEF vars
  <2>2. IInv'
    BY <2>1 DEF IInv
  <2>3. StackOf' = StackOf
    BY <2>1 DEF StackOf, StackFrom
  <2>4. UNCHANGED Ideal!vars
    BY <2>1, <2>3, Zenon DEF Ideal!vars, StackOf, StackFrom
  <2> QED
    BY <2>2, <2>4
<1> QED
  BY <1>1, <1>2, <1>3, <1>4, <1>5, <1>6, <1>7, <1>8, <1>9, <1>10, <1>11, <1>12, <1>13, <1>14 DEF Next

LEMMA Typed ==
  ASSUME IInv
  PROVE  NumbersTypeInv
<1>1. /\ values \in Seq(Slots) /\ types \in Seq(Kinds) /\ Len(types) = Len(values)
      /\ trap \in {"none", "integer overflow", "divide by zero"}
  BY DEF IInv
<1>2. \A i \in DOMAIN types : types[i] \in Kinds
  BY <1>1, StackType
<1> QED
  BY <1>1, <1>2 DEF NumbersTypeInv, Kinds, Slots

-----------------------------------------------------------------------------
(* Theorems.                                                               *)

(* Every operand is a slot of W64 bits with the type that validation gave   *)
(* it, after any integer instructions (operation.h), whatever a shift that *)
(* C++ does not define leaves.                                             *)
THEOREM NumbersTypes == Spec => []NumbersTypeInv
<1>1. Init => IInv
  BY Starts
<1>2. IInv /\ [Next]_vars => IInv'
  BY Steps
<1>3. IInv => NumbersTypeInv
  BY Typed
<1> QED
  BY <1>1, <1>2, <1>3, PTL DEF Spec

(* On a machine that reduces the counts of shifts to the width, the        *)
(* integer instructions of operation.h compute what Arithmetic says of     *)
(* them bit by bit or by equations: for every width, every operand, every  *)
(* encoding of a literal in LEB128 and whatever earlier i32 results left   *)
(* in the upper halves of the slots.                                       *)
THEOREM NumbersCompute == ASSUME Masks PROVE Spec => Computes
<1>1. Init => IInv /\ Ideal!Init
  BY Starts
<1>2. IInv /\ [Next]_vars => IInv' /\ [Ideal!Next]_(Ideal!vars)
  BY Steps
<1> QED
  BY <1>1, <1>2, PTL DEF Spec, Computes, Ideal!Spec
=============================================================================
