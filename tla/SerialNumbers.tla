---------------------------- MODULE SerialNumbers ----------------------------
(* Arithmetic that the proofs about sequence numbers share.  Each module   *)
(* compares numbers as (__s32)(a - b) < 0 does: the remainder of the       *)
(* difference lies in the upper half of the space.                         *)
EXTENDS Integers, WellFoundedInduction, TLAPS

(* A nonempty set of naturals has a least element.                         *)
LEMMA LeastNat ==
  ASSUME NEW T, T \subseteq Nat, T # {}
  PROVE  \E x \in T : \A y \in T : x <= y
<1>1. PICK x \in T : \A y \in T : ~(<<y, x>> \in OpToRel(<, Nat))
  BY NatLessThanWellFounded, WFMin
<1>2. \A y \in T : x <= y
  <2> SUFFICES ASSUME NEW y \in T PROVE x <= y
    OBVIOUS
  <2>1. ~(y < x)
    BY <1>1, x \in Nat, y \in Nat DEF OpToRel
  <2> QED
    BY <2>1, x \in Nat, y \in Nat
<1> QED
  BY <1>2

(* Remainders.  Numbers that differ by a multiple of r have the same one.  *)
LEMMA Division ==
  ASSUME NEW r \in Nat, r > 0, NEW a \in Int
  PROVE  /\ a % r \in 0..(r - 1) /\ a \div r \in Int
         /\ a = (r * (a \div r)) + (a % r)
OBVIOUS

LEMMA Multiples ==
  ASSUME NEW r \in Nat, NEW p \in Int, NEW q \in Int
  PROVE  /\ r * p \in Int /\ r * q \in Int
         /\ r * (p - q) = r * p - r * q /\ r * (p + q) = r * p + r * q
         /\ r > 0 /\ p >= 1 => r * p >= r
         /\ r > 0 /\ p <= -1 => r * p <= -r
OBVIOUS

LEMMA SameRemainder ==
  ASSUME NEW r \in Nat, r > 0, NEW a \in Int, NEW b \in Int, NEW q \in Int, a = b + r * q
  PROVE  a % r = b % r
<1>1. PICK qa, qb, ra, rb : qa = a \div r /\ qb = b \div r /\ ra = a % r /\ rb = b % r
  OBVIOUS
<1>2. /\ qa \in Int /\ qb \in Int /\ a = (r * qa) + ra /\ b = (r * qb) + rb
      /\ ra \in 0..(r - 1) /\ rb \in 0..(r - 1)
  BY <1>1, Division
<1>3. PICK d, e : d = qb - qa /\ e = d + q
  OBVIOUS
<1>4. d \in Int /\ e \in Int /\ r * d = r * qb - r * qa /\ r * e = r * d + r * q
      /\ r * qa \in Int /\ r * qb \in Int /\ r * q \in Int
  BY <1>2, <1>3, Multiples
<1>5. r * e = ra - rb
  BY <1>2, <1>4
<1>6. e < 1 /\ e > -1
  BY <1>2, <1>4, <1>5, Multiples
<1>7. e = 0
  BY <1>4, <1>6
<1> QED
  BY <1>1, <1>2, <1>5, <1>7

LEMMA SmallRemainder ==
  ASSUME NEW r \in Nat, NEW a \in 0..(r - 1)
  PROVE  a % r = a
<1>1. PICK q, x : q = a \div r /\ x = a % r
  OBVIOUS
<1>2. q \in Int /\ x \in 0..(r - 1) /\ a = (r * q) + x /\ r * q \in Int
  BY <1>1, Division, Multiples
<1>3. q < 1 /\ q > -1
  BY <1>2, Multiples
<1>4. q = 0
  BY <1>2, <1>3
<1> QED
  BY <1>1, <1>2, <1>4

(* Reducing a term before adding or subtracting changes nothing.           *)
LEMMA ReduceTerm ==
  ASSUME NEW r \in Nat, r > 0, NEW a \in Int, NEW b \in Int
  PROVE  ((a % r) + b) % r = (a + b) % r
<1>1. PICK q, x : q = a \div r /\ x = a % r
  OBVIOUS
<1>2. q \in Int /\ x \in 0..(r - 1) /\ a = (r * q) + x /\ r * q \in Int
  BY <1>1, Division, Multiples
<1>3. PICK s, t : s = a + b /\ t = x + b
  OBVIOUS
<1>4. s = t + r * q /\ s \in Int /\ t \in Int
  BY <1>2, <1>3
<1>5. s % r = t % r
  BY <1>2, <1>4, SameRemainder
<1> QED
  BY <1>1, <1>3, <1>5

(* Of two numbers less than half the space behind base, the one that is    *)
(* nearer to base precedes the other.                                      *)
LEMMA OffsetOrder ==
  ASSUME NEW r \in Nat, r > 0, r % 2 = 0,
         NEW base \in 0..(r - 1), NEW a \in 0..(r - 1), NEW b \in 0..(r - 1),
         (a - base) % r < r \div 2, (b - base) % r < r \div 2
  PROVE  ((a - b) % r >= r \div 2) <=> (a - base) % r < (b - base) % r
<1> DEFINE x == (a - base) % r
           y == (b - base) % r
           h == r \div 2
<1>1. /\ a \in Int /\ b \in Int /\ base \in Int /\ r \in Nat /\ r > 0
      /\ h \in Nat /\ h + h = r
  OBVIOUS
<1>2. x \in 0..(h - 1) /\ y \in 0..(h - 1)
  BY <1>1, Division
<1>3. PICK qx, qy : qx = (a - base) \div r /\ qy = (b - base) \div r
  OBVIOUS
<1>4. /\ qx \in Int /\ qy \in Int
      /\ a - base = (r * qx) + x /\ b - base = (r * qy) + y
  BY <1>1, <1>3, Division
<1> HIDE DEF x, y, h
<1>5. PICK d : d = qx - qy
  OBVIOUS
<1>6. d \in Int /\ r * d = r * qx - r * qy
      /\ r * qx \in Int /\ r * qy \in Int
  BY <1>1, <1>4, <1>5, Multiples
<1>7. a - b = (x - y) + r * d /\ x - y \in Int
  BY <1>1, <1>2, <1>4, <1>6
<1>8. (a - b) % r = (x - y) % r
  <2>1. PICK s, t : s = a - b /\ t = x - y
    OBVIOUS
  <2>2. s = t + r * d /\ s \in Int /\ t \in Int
    BY <1>1, <1>7, <2>1
  <2>0. d \in Int /\ r \in Nat /\ r > 0
    BY <1>1, <1>6
  <2>3. s % r = t % r
    BY <2>0, <2>2, SameRemainder
  <2> QED
    BY <2>1, <2>3
<1>9. CASE x < y
  <2>1. PICK z : z = x - y + r
    OBVIOUS
  <2>2. z \in 0..(r - 1) /\ z >= h
    BY <1>1, <1>2, <1>9, <2>1
  <2>3. z = (x - y) + r * 1
    BY <1>1, <1>2, <2>1
  <2>4. z % r = (x - y) % r
    BY <1>1, <1>7, <2>2, <2>3, SameRemainder
  <2>5. z % r = z
    BY <1>1, <2>2, SmallRemainder
  <2> QED
    BY <1>8, <1>9, <2>2, <2>4, <2>5 DEF x, y, h
<1>10. CASE ~(x < y)
  <2>1. x - y \in 0..(r - 1) /\ x - y < h
    BY <1>1, <1>2, <1>10
  <2>2. (x - y) % r = x - y
    BY <1>1, <2>1, SmallRemainder
  <2>3. ~((x - y) % r >= h)
    BY <1>1, <2>1, <2>2
  <2> QED
    BY <1>8, <1>10, <2>3 DEF x, y, h
<1> QED
  BY <1>9, <1>10
==============================================================================
