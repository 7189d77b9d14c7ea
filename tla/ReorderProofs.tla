---------------------------- MODULE ReorderProofs ----------------------------
(***************************************************************************)
(* Theorems about the reordering queue, for a memory and a limit of any    *)
(* size, any number of packets and any sequence space.  They assume what   *)
(* TCP's window makes sure of, that a data packet which arrives lies       *)
(* together with those held within half of the sequence space: on more     *)
(* than half of it (__s32)(a - b) < 0 is not an order, and nothing can be  *)
(* sorted by it.  Over time the data may go round the space any number of  *)
(* times.                                                                  *)
(***************************************************************************)
EXTENDS ReorderSmp, SerialNumbers, FiniteSetTheorems, FunctionTheorems, SequenceTheorems

-----------------------------------------------------------------------------
(* Sequence numbers.                                                       *)

SeqNumbers == 0..(SeqRange - 1)

Offset(origin, x) == (x - origin) % SeqRange

Window(origin) == {x \in SeqNumbers : Offset(origin, x) < SeqRange \div 2}

(* A packet from a to b within the half of the space behind origin.        *)
Fits(origin, a, b) ==
  a \in Window(origin) /\ b \in Window(origin) /\ Offset(origin, a) < Offset(origin, b)

LEMMA SameOffset ==
  ASSUME NEW origin \in SeqNumbers, NEW a \in SeqNumbers, NEW b \in SeqNumbers,
         Offset(origin, a) = Offset(origin, b)
  PROVE  a = b
<1>1. PICK r, x : r = SeqRange /\ x = (a - origin) % r
  OBVIOUS
<1>2. /\ r \in Nat /\ r > 0 /\ a \in 0..(r - 1) /\ b \in 0..(r - 1) /\ origin \in 0..(r - 1)
      /\ x = (b - origin) % r
  BY <1>1, SeqRangeAssumption DEF SeqNumbers, Offset
<1>3. PICK da, db, qa, qb : /\ da = a - origin /\ db = b - origin
                            /\ qa = da \div r /\ qb = db \div r
  OBVIOUS
<1>4. da \in Int /\ db \in Int /\ x = da % r /\ x = db % r
  BY <1>1, <1>2, <1>3
<1>10. /\ qa \in Int /\ qb \in Int /\ da = (r * qa) + x /\ db = (r * qb) + x
       /\ x \in 0..(r - 1)
  BY <1>2, <1>3, <1>4, Division
<1>5. PICK d : d = qa - qb
  OBVIOUS
<1>6. d \in Int /\ r * d = r * qa - r * qb /\ r * qa \in Int /\ r * qb \in Int /\ r * d \in Int
  BY <1>2, <1>5, <1>10, Multiples
<1>7. a - b = r * d
  BY <1>2, <1>3, <1>6, <1>10
<1>8. d < 1 /\ d > -1
  BY <1>2, <1>6, <1>7, Multiples
<1>9. d = 0
  BY <1>6, <1>8
<1> QED
  BY <1>2, <1>7, <1>9

(* On a window Before is an order, that of the offsets.                    *)
LEMMA WindowOrder ==
  ASSUME NEW origin \in SeqNumbers, NEW a \in Window(origin), NEW b \in Window(origin)
  PROVE  /\ Offset(origin, a) \in Nat /\ Offset(origin, b) \in Nat
         /\ Before(a, b) <=> Offset(origin, a) < Offset(origin, b)
         /\ NotAfter(a, b) <=> Offset(origin, a) <= Offset(origin, b)
<1>1. /\ SeqRange \in Nat /\ SeqRange > 0 /\ SeqRange % 2 = 0
      /\ origin \in 0..(SeqRange - 1) /\ a \in 0..(SeqRange - 1) /\ b \in 0..(SeqRange - 1)
      /\ (a - origin) % SeqRange < SeqRange \div 2 /\ (b - origin) % SeqRange < SeqRange \div 2
  BY SeqRangeAssumption DEF SeqNumbers, Window, Offset
<1>2. Before(a, b) <=> Offset(origin, a) < Offset(origin, b)
  BY <1>1, OffsetOrder DEF Before, Offset
<1>3. Offset(origin, a) \in Nat /\ Offset(origin, b) \in Nat
  <2>1. a - origin \in Int /\ b - origin \in Int
    BY <1>1
  <2>2. (a - origin) % SeqRange \in 0..(SeqRange - 1) /\ (b - origin) % SeqRange \in 0..(SeqRange - 1)
    BY <1>1, <2>1, Division
  <2> QED
    BY <1>1, <2>2 DEF Offset
<1>4. Offset(origin, a) = Offset(origin, b) => a = b
  BY <1>1, SameOffset DEF SeqNumbers
<1> QED
  BY <1>2, <1>3, <1>4 DEF NotAfter

LEMMA LaterInWindow ==
  ASSUME NEW origin \in SeqNumbers, NEW a \in Window(origin), NEW b \in Window(origin)
  PROVE  /\ Later(a, b) \in Window(origin)
         /\ Offset(origin, a) <= Offset(origin, Later(a, b))
         /\ Offset(origin, b) <= Offset(origin, Later(a, b))
         /\ Later(a, b) \in {a, b}
         /\ Later(a, b) = IF Offset(origin, a) < Offset(origin, b) THEN b ELSE a
BY WindowOrder DEF Later

(* What is not before or at b is ahead of it, and then b is before it.     *)
LEMMA AheadOf ==
  ASSUME NEW a \in SeqNumbers, NEW b \in SeqNumbers, ~NotAfter(a, b)
  PROVE  Before(b, a) /\ ~Before(a, b) /\ a # b /\ Later(b, a) = a
<1>1. PICK r, h, x : r = SeqRange /\ h = SeqRange \div 2 /\ x = (a - b) % r
  OBVIOUS
<1>2. /\ r \in Nat /\ r > 0 /\ h \in Nat /\ h + h = r /\ a \in 0..(r - 1) /\ b \in 0..(r - 1)
      /\ a # b /\ x < h
  BY <1>1, SeqRangeAssumption, Division DEF SeqNumbers, NotAfter, Before
<1>3. PICK d, e, q : d = a - b /\ e = b - a /\ q = d \div r
  OBVIOUS
<1>4. /\ d \in Int /\ e \in Int /\ e = -d /\ d # 0 /\ d < r /\ d > -r
      /\ q \in Int /\ d = (r * q) + x /\ x \in 0..(r - 1)
  BY <1>1, <1>2, <1>3, Division
<1>5. x # 0
  <2> SUFFICES ASSUME x = 0 PROVE FALSE
    OBVIOUS
  <2>1. r * q = d /\ r * q \in Int
    BY <1>2, <1>4, Multiples
  <2>2. q < 1 /\ q > -1
    BY <1>2, <1>4, <2>1, Multiples
  <2>3. q = 0
    BY <1>4, <2>2
  <2> QED
    BY <1>2, <1>4, <2>1, <2>3
<1>6. PICK y, p : y = r - x /\ p = -1 - q
  OBVIOUS
<1>7. y \in 0..(r - 1) /\ p \in Int /\ y >= h
  BY <1>2, <1>4, <1>5, <1>6
<1>8. e = y + r * p
  <2>1. PICK z, o : z = -1 /\ o = 0 - q
    OBVIOUS
  <2>2. z \in Int /\ o \in Int /\ p = z - q
    BY <1>4, <1>6, <2>1
  <2>3. r * p = r * z - r * q /\ r * z \in Int /\ r * q \in Int
    BY <1>2, <1>4, <2>2, Multiples
  <2>4. r * z = -r
    BY <1>2, <2>1
  <2> QED
    BY <1>2, <1>4, <1>6, <2>3, <2>4
<1>9. e % r = y % r /\ y % r = y
  BY <1>2, <1>4, <1>7, <1>8, SameRemainder, SmallRemainder
<1> QED
  BY <1>1, <1>2, <1>3, <1>7, <1>9 DEF Before, Later

(* A number is not before itself.                                          *)
LEMMA NotBeforeItself ==
  ASSUME NEW a \in SeqNumbers
  PROVE  ~Before(a, a)
<1>1. SeqRange \in Nat /\ SeqRange > 0 /\ SeqRange \div 2 > 0 /\ a - a = 0 /\ 0 \in 0..(SeqRange - 1)
  BY SeqRangeAssumption DEF SeqNumbers
<1>2. 0 % SeqRange = 0
  BY <1>1, SmallRemainder
<1> QED
  BY <1>1, <1>2 DEF Before

-----------------------------------------------------------------------------
(* The list in memory.  w is the sequence of its cells, first and last     *)
(* what reorder_queue_head and reorder_queue_tail hold, cells the memory   *)
(* and used the part of it that is allocated.  Nothing is said of the      *)
(* first cell's prev.                                                      *)
Linked(w, first, last, cells, used) ==
  /\ w \in Seq(Addresses)
  /\ \A i, j \in 1..Len(w) : w[i] = w[j] => i = j
  /\ \A i \in 1..Len(w) : w[i] \in used
  /\ first = IF Len(w) = 0 THEN NULL ELSE w[1]
  /\ last = IF Len(w) = 0 THEN NULL ELSE w[Len(w)]
  /\ \A i \in 1..Len(w) : cells[w[i]].next = IF i < Len(w) THEN w[i + 1] ELSE NULL
  /\ \A i \in 2..Len(w) : cells[w[i]].prev = w[i - 1]

(* The walk along next finds them all: its bound, one more than there are  *)
(* cells, is never reached.                                                *)
LEMMA ListFits ==
  ASSUME NEW w \in Seq(Addresses), \A i, j \in 1..Len(w) : w[i] = w[j] => i = j
  PROVE  Len(w) <= Cardinality(Addresses) /\ Cardinality(Addresses) \in Nat
<1> DEFINE S == {w[i] : i \in 1..Len(w)}
<1>1. Len(w) \in Nat /\ w \in [1..Len(w) -> Addresses]
  BY LenProperties
<1>2. S \subseteq Addresses
  BY <1>1
<1>3. IsFiniteSet(S) /\ Cardinality(S) <= Cardinality(Addresses) /\ Cardinality(Addresses) \in Nat
  BY <1>2, AddressesAssumption, FS_Subset, FS_CardinalityType
<1>4. w \in Bijection(1..Len(w), S)
  BY <1>1, Fun_IsBij
<1>5. ExistsBijection(1..Len(w), S)
  BY <1>4, Fun_ExistsBij
<1>6. Cardinality(S) = Len(w)
  BY <1>1, <1>3, <1>5, FS_CountingElements
<1> QED
  BY <1>3, <1>6

LEMMA CellsOfList ==
  ASSUME NEW w, NEW first, NEW last, NEW cells, NEW used, Linked(w, first, last, cells, used)
  PROVE  CellsFrom(first, cells) = w
<1> DEFINE n == Cardinality(Addresses) + 1
           D(f) == [k \in 1..n |-> IF k = 1 THEN first
                                   ELSE IF f[k - 1] = NULL THEN NULL ELSE cells[f[k - 1]].next]
           at == CHOOSE f : f = D(f)
           g == [k \in 1..n |-> IF k <= Len(w) THEN w[k] ELSE NULL]
<1>1. /\ w \in Seq(Addresses) /\ Len(w) \in Nat /\ n \in Nat /\ Len(w) < n /\ n >= 1
      /\ \A i \in 1..Len(w) : w[i] \in Addresses /\ w[i] # NULL
  <2>1. w \in Seq(Addresses) /\ \A i, j \in 1..Len(w) : w[i] = w[j] => i = j
    BY DEF Linked
  <2>2. Len(w) <= Cardinality(Addresses) /\ Cardinality(Addresses) \in Nat
    BY <2>1, ListFits
  <2>3. Len(w) \in Nat /\ \A i \in 1..Len(w) : w[i] \in Addresses
    BY <2>1, LenProperties, ElementOfSeq
  <2> QED
    BY <2>1, <2>2, <2>3, AddressesAssumption
<1>2. /\ first = IF Len(w) = 0 THEN NULL ELSE w[1]
      /\ \A i \in 1..Len(w) : cells[w[i]].next = IF i < Len(w) THEN w[i + 1] ELSE NULL
  BY DEF Linked
<1>3. CellsFrom(first, cells) = [k \in 1..(Min({k \in 1..n : at[k] = NULL} \cup {n}) - 1) |-> at[k]]
  BY DEF CellsFrom
<1> HIDE DEF n
<1>4. \A k \in 1..n : g[k] = D(g)[k]
  <2> SUFFICES ASSUME NEW k \in 1..n PROVE g[k] = D(g)[k]
    OBVIOUS
  <2>1. CASE k = 1
    BY <1>1, <1>2, <2>1
  <2>2. CASE k # 1
    <3>1. k - 1 \in 1..n /\ k \in Nat /\ (k <= Len(w) => k - 1 \in 1..Len(w))
          /\ (k - 1 <= Len(w) => k - 1 \in 1..Len(w)) /\ (k - 1) + 1 = k
      BY <1>1, <2>2
    <3>2. g[k - 1] = IF k - 1 <= Len(w) THEN w[k - 1] ELSE NULL
      BY <3>1
    <3>3. CASE k - 1 <= Len(w)
      <4>1. g[k - 1] # NULL /\ cells[g[k - 1]].next = IF k - 1 < Len(w) THEN w[k] ELSE NULL
        BY <1>1, <1>2, <3>1, <3>2, <3>3
      <4>2. k - 1 < Len(w) <=> k <= Len(w)
        BY <1>1, <3>1
      <4> QED
        BY <2>2, <4>1, <4>2
    <3>4. CASE ~(k - 1 <= Len(w))
      <4>1. ~(k <= Len(w))
        BY <1>1, <3>1, <3>4
      <4> QED
        BY <2>2, <3>2, <3>4, <4>1
    <3> QED
      BY <3>3, <3>4
  <2> QED
    BY <2>1, <2>2
<1>5. g = D(g)
  BY <1>4
<1>6. at = D(at)
  BY <1>5
<1> HIDE DEF at
<1>7. \A k \in 1..n : at[k] = IF k = 1 THEN first
                              ELSE IF at[k - 1] = NULL THEN NULL ELSE cells[at[k - 1]].next
  BY <1>6
<1>8. \A k \in 1..n : at[k] = g[k]
  <2> DEFINE T == {k \in 1..n : at[k] # g[k]}
  <2> SUFFICES ASSUME T # {} PROVE FALSE
    OBVIOUS
  <2>1. PICK k \in T : \A y \in T : k <= y
    <3>1. T \subseteq Nat
      BY <1>1
    <3> QED
      BY <3>1, LeastNat
  <2>2. k \in 1..n /\ at[k] # g[k]
    BY <2>1
  <2>3. k # 1
    BY <1>4, <1>7, <2>2
  <2>4. k - 1 \in 1..n /\ k - 1 \notin T
    BY <1>1, <2>1, <2>2, <2>3
  <2>5. at[k - 1] = g[k - 1]
    BY <2>4
  <2>6. g[k] = IF g[k - 1] = NULL THEN NULL ELSE cells[g[k - 1]].next
    BY <1>4, <2>2, <2>3
  <2> HIDE DEF g, T
  <2> QED
    BY <1>7, <2>2, <2>3, <2>5, <2>6
<1>9. {k \in 1..n : at[k] = NULL} \cup {n} = (Len(w) + 1)..n
  BY <1>1, <1>8
<1>10. Min((Len(w) + 1)..n) = Len(w) + 1
  <2>1. Len(w) + 1 \in (Len(w) + 1)..n /\ \A y \in (Len(w) + 1)..n : Len(w) + 1 <= y
    BY <1>1
  <2>2. \A x \in (Len(w) + 1)..n : (\A y \in (Len(w) + 1)..n : x <= y) => x = Len(w) + 1
    BY <1>1, <2>1
  <2> QED
    BY <2>1, <2>2 DEF Min
<1>11. CellsFrom(first, cells) = [k \in 1..Len(w) |-> at[k]]
  <2>1. (Len(w) + 1) - 1 = Len(w)
    BY <1>1
  <2> QED
    BY <1>3, <1>9, <1>10, <2>1
<1>12. \A k \in 1..Len(w) : at[k] = w[k]
  BY <1>1, <1>8
<1>13. w = [k \in 1..Len(w) |-> w[k]]
  BY <1>1
<1> QED
  BY <1>11, <1>12, <1>13

-----------------------------------------------------------------------------
(* Sequences without their first k elements, and with one more at k.       *)
Rest(w, k) == SubSeq(w, k + 1, Len(w))

With(w, k, c) ==
  [i \in 1..(Len(w) + 1) |-> IF i < k THEN w[i] ELSE IF i = k THEN c ELSE w[i - 1]]

Once(w) == \A i, j \in 1..Len(w) : w[i] = w[j] => i = j

Elements(w) == {w[i] : i \in 1..Len(w)}

LEMMA RestOf ==
  ASSUME NEW S, NEW w \in Seq(S), NEW k \in 0..Len(w)
  PROVE  /\ Rest(w, k) \in Seq(S) /\ Len(Rest(w, k)) = Len(w) - k
         /\ \A i \in 1..(Len(w) - k) : i + k \in 1..Len(w) /\ Rest(w, k)[i] = w[i + k]
<1>1. Len(w) \in Nat
  BY LenProperties
<1>2. w \in Seq(S) /\ k + 1 \in 1..(Len(w) + 1) /\ Len(w) \in (k + 1 - 1)..Len(w)
  BY <1>1
<1>3. Rest(w, k) = [i \in 1..(Len(w) - (k + 1) + 1) |-> w[i + (k + 1) - 1]]
  BY <1>1 DEF Rest
<1>4. Len(w) - (k + 1) + 1 = Len(w) - k /\ \A i \in 1..(Len(w) - k) : i + (k + 1) - 1 = i + k
  BY <1>1
<1>5. Rest(w, k) = [i \in 1..(Len(w) - k) |-> w[i + k]]
  BY <1>3, <1>4
<1>6. \A i \in 1..(Len(w) - k) : i + k \in 1..Len(w) /\ w[i + k] \in S
  BY <1>1, ElementOfSeq
<1>7. Len(w) - k \in Nat
  BY <1>1
<1>8. Rest(w, k) \in Seq(S) /\ Len(Rest(w, k)) = Len(w) - k
  BY <1>5, <1>6, <1>7
<1> QED
  BY <1>5, <1>6, <1>8

LEMMA WithOf ==
  ASSUME NEW S, NEW w \in Seq(S), NEW k \in 1..(Len(w) + 1), NEW c \in S
  PROVE  /\ With(w, k, c) \in Seq(S) /\ Len(With(w, k, c)) = Len(w) + 1
         /\ With(w, k, c)[k] = c
         /\ \A i \in 1..(k - 1) : With(w, k, c)[i] = w[i]
         /\ \A i \in k..Len(w) : With(w, k, c)[i + 1] = w[i]
         /\ \A i \in (k + 1)..(Len(w) + 1) : With(w, k, c)[i] = w[i - 1]
<1>1. Len(w) \in Nat /\ Len(w) + 1 \in Nat
  BY LenProperties
<1>2. \A i \in 1..Len(w) : w[i] \in S
  BY ElementOfSeq
<1>3. \A i \in 1..(Len(w) + 1) : (IF i < k THEN w[i] ELSE IF i = k THEN c ELSE w[i - 1]) \in S
  BY <1>1, <1>2
<1>4. With(w, k, c) \in Seq(S) /\ Len(With(w, k, c)) = Len(w) + 1
  BY <1>1, <1>3 DEF With
<1> QED
  BY <1>1, <1>4 DEF With

LEMMA WithOnce ==
  ASSUME NEW S, NEW w \in Seq(S), NEW k \in 1..(Len(w) + 1), NEW c \in S,
         Once(w), c \notin Elements(w)
  PROVE  Once(With(w, k, c))
<1>1. Len(w) \in Nat
  BY LenProperties
<1> DEFINE v == With(w, k, c)
           old(i) == IF i < k THEN i ELSE i - 1
<1>2. Len(v) = Len(w) + 1 /\ v[k] = c
  BY WithOf
<1>3. ASSUME NEW i \in 1..Len(v), i # k
      PROVE  old(i) \in 1..Len(w) /\ v[i] = w[old(i)]
  <2>1. CASE i < k
    <3>1. i \in 1..(k - 1) /\ i \in 1..Len(w)
      BY <1>1, <1>2, <2>1
    <3> QED
      BY <2>1, <3>1, WithOf
  <2>2. CASE ~(i < k)
    <3>1. i \in (k + 1)..(Len(w) + 1) /\ i - 1 \in 1..Len(w)
      BY <1>1, <1>2, <1>3, <2>2
    <3> QED
      BY <2>2, <3>1, WithOf
  <2> QED
    BY <2>1, <2>2
<1> HIDE DEF v
<1>4. \A i \in 1..Len(w) : w[i] # c
  BY DEF Elements
<1>5. ASSUME NEW i \in 1..Len(v), NEW j \in 1..Len(v), v[i] = v[j]
      PROVE  i = j
  <2>1. CASE i = k \/ j = k
    BY <1>2, <1>3, <1>4, <1>5, <2>1
  <2>2. CASE i # k /\ j # k
    <3>1. old(i) \in 1..Len(w) /\ old(j) \in 1..Len(w) /\ w[old(i)] = w[old(j)]
      BY <1>3, <1>5, <2>2
    <3>2. old(i) = old(j)
      BY <3>1 DEF Once
    <3> QED
      BY <1>1, <1>2, <2>2, <3>2
  <2> QED
    BY <2>1, <2>2
<1> QED
  BY <1>5 DEF Once, v

LEMMA WithElements ==
  ASSUME NEW S, NEW w \in Seq(S), NEW k \in 1..(Len(w) + 1), NEW c \in S
  PROVE  Elements(With(w, k, c)) = Elements(w) \cup {c}
<1>1. Len(w) \in Nat
  BY LenProperties
<1> DEFINE v == With(w, k, c)
<1>2. Len(v) = Len(w) + 1 /\ v[k] = c /\ k \in 1..Len(v)
  BY <1>1, WithOf
<1>3. ASSUME NEW i \in 1..Len(v) PROVE v[i] \in Elements(w) \cup {c}
  <2>1. CASE i < k
    <3>1. i \in 1..(k - 1) /\ i \in 1..Len(w)
      BY <1>1, <1>2, <2>1
    <3>2. v[i] = w[i]
      BY <3>1, WithOf
    <3> QED
      BY <3>1, <3>2 DEF Elements
  <2>2. CASE i = k
    BY <1>2, <2>2
  <2>3. CASE i > k
    <3>1. i \in (k + 1)..(Len(w) + 1) /\ i - 1 \in 1..Len(w)
      BY <1>1, <1>2, <2>3
    <3>2. v[i] = w[i - 1]
      BY <3>1, WithOf
    <3> QED
      BY <3>1, <3>2 DEF Elements
  <2> QED
    BY <1>1, <1>2, <2>1, <2>2, <2>3
<1>4. ASSUME NEW i \in 1..Len(w) PROVE w[i] \in Elements(v)
  <2>1. CASE i < k
    <3>1. i \in 1..(k - 1) /\ i \in 1..Len(v)
      BY <1>1, <1>2, <2>1
    <3>2. v[i] = w[i]
      BY <3>1, WithOf
    <3> QED
      BY <3>1, <3>2 DEF Elements
  <2>2. CASE ~(i < k)
    <3>1. i \in k..Len(w) /\ i + 1 \in 1..Len(v)
      BY <1>1, <1>2, <2>2
    <3>2. v[i + 1] = w[i]
      BY <3>1, WithOf
    <3> QED
      BY <3>1, <3>2 DEF Elements
  <2> QED
    BY <2>1, <2>2
<1>5. Elements(v) \subseteq Elements(w) \cup {c}
  BY <1>3 DEF Elements
<1>6. Elements(w) \cup {c} \subseteq Elements(v)
  <2>1. c \in Elements(v)
    BY <1>2 DEF Elements
  <2> QED
    BY <1>4, <2>1 DEF Elements
<1> QED
  BY <1>5, <1>6

LEMMA Between ==
  ASSUME NEW S, NEW g \in Seq(S), NEW e \in Seq(S), NEW t \in S
  PROVE  Append(g, t) \o e = With(g \o e, Len(g) + 1, t)
<1>A. Len(g) \in Nat /\ Len(e) \in Nat /\ <<t>> \in Seq(S) /\ Len(<<t>>) = 1
  BY LenProperties
<1>B. /\ g \o e \in Seq(S) /\ Len(g \o e) = Len(g) + Len(e)
      /\ \A i \in 1..(Len(g) + Len(e)) : (g \o e)[i] = IF i <= Len(g) THEN g[i] ELSE e[i - Len(g)]
  BY <1>A, ConcatProperties
<1> DEFINE a == Append(g, t)
           v == With(g \o e, Len(g) + 1, t)
<1>1. a \in Seq(S) /\ Len(a) = Len(g) + 1 /\ a[Len(g) + 1] = t /\ \A i \in 1..Len(g) : a[i] = g[i]
  BY AppendProperties
<1>2. /\ a \o e \in Seq(S) /\ Len(a \o e) = Len(g) + 1 + Len(e)
      /\ \A i \in 1..(Len(g) + 1 + Len(e)) :
           (a \o e)[i] = IF i <= Len(g) + 1 THEN a[i] ELSE e[i - (Len(g) + 1)]
  BY <1>1, ConcatProperties
<1> HIDE DEF a
<1>3. /\ v \in Seq(S) /\ Len(v) = Len(g) + 1 + Len(e)
      /\ \A i \in 1..(Len(g) + 1 + Len(e)) :
           v[i] = IF i < Len(g) + 1 THEN (g \o e)[i]
                  ELSE IF i = Len(g) + 1 THEN t ELSE (g \o e)[i - 1]
  <2>1. Len(g) + 1 \in 1..(Len(g \o e) + 1) /\ Len(g \o e) + 1 = Len(g) + 1 + Len(e)
    BY <1>A, <1>B
  <2> QED
    BY <1>B, <2>1, WithOf DEF With
<1> HIDE DEF v
<1>4. ASSUME NEW i \in 1..(Len(g) + 1 + Len(e)) PROVE (a \o e)[i] = v[i]
  <2>1. CASE i <= Len(g)
    <3>1. i \in 1..Len(g) /\ i \in 1..(Len(g) + Len(e)) /\ i < Len(g) + 1 /\ i <= Len(g) + 1
      BY <1>A, <2>1
    <3> QED
      BY <1>B, <1>1, <1>2, <1>3, <2>1, <3>1
  <2>2. CASE i = Len(g) + 1
    <3>1. i <= Len(g) + 1 /\ ~(i < Len(g) + 1)
      BY <1>A, <2>2
    <3> QED
      BY <1>1, <1>2, <1>3, <2>2, <3>1
  <2>3. CASE i > Len(g) + 1
    <3>1. /\ ~(i <= Len(g) + 1) /\ ~(i < Len(g) + 1) /\ i # Len(g) + 1
          /\ i - 1 \in 1..(Len(g) + Len(e)) /\ ~(i - 1 <= Len(g))
          /\ (i - 1) - Len(g) = i - (Len(g) + 1)
      BY <1>A, <2>3
    <3>2. (a \o e)[i] = e[i - (Len(g) + 1)]
      BY <1>2, <3>1
    <3>3. v[i] = (g \o e)[i - 1]
      BY <1>3, <3>1
    <3> QED
      BY <1>B, <3>1, <3>2, <3>3
  <2> QED
    <3>1. i <= Len(g) \/ i = Len(g) + 1 \/ i > Len(g) + 1
      BY <1>A
    <3> QED
      BY <2>1, <2>2, <2>3, <3>1
<1> QED
  BY <1>2, <1>3, <1>4, SeqEqual DEF a, v

(* Where a packet ends up among all that was reinjected and is held.       *)
LEMMA SubSeqOf ==
  ASSUME NEW S, NEW e \in Seq(S), NEW k \in 0..Len(e)
  PROVE  /\ SubSeq(e, 1, k) \in Seq(S) /\ Len(SubSeq(e, 1, k)) = k
         /\ \A i \in 1..k : SubSeq(e, 1, k)[i] = e[i]
         /\ SubSeq(e, 1, k) \o Rest(e, k) = e
<1>A. Len(e) \in Nat
  BY LenProperties
<1> DEFINE a == SubSeq(e, 1, k)
           b == Rest(e, k)
<1>1. k \in Nat /\ 1 \in 1..(Len(e) + 1) /\ k \in (1 - 1)..Len(e)
  BY <1>A
<1>2. a = [i \in 1..k |-> e[i]]
  <2>1. a = [i \in 1..(k - 1 + 1) |-> e[i + 1 - 1]]
    BY <1>1
  <2>2. k - 1 + 1 = k /\ \A i \in 1..k : i + 1 - 1 = i
    BY <1>1
  <2> QED
    BY <2>1, <2>2
<1>3. \A i \in 1..k : e[i] \in S
  BY <1>A, ElementOfSeq
<1>4. a \in Seq(S) /\ Len(a) = k /\ \A i \in 1..k : a[i] = e[i]
  BY <1>1, <1>2, <1>3
<1>5. b \in Seq(S) /\ Len(b) = Len(e) - k /\ \A i \in 1..(Len(e) - k) : b[i] = e[i + k]
  BY RestOf
<1> HIDE DEF a, b
<1>6. /\ a \o b \in Seq(S) /\ Len(a \o b) = k + (Len(e) - k)
      /\ \A i \in 1..(k + (Len(e) - k)) : (a \o b)[i] = IF i <= k THEN a[i] ELSE b[i - k]
  BY <1>4, <1>5, ConcatProperties
<1>7. k + (Len(e) - k) = Len(e)
  BY <1>A, <1>1
<1>8. ASSUME NEW i \in 1..Len(e) PROVE (a \o b)[i] = e[i]
  <2>1. CASE i <= k
    BY <1>1, <1>4, <1>6, <1>7, <2>1
  <2>2. CASE ~(i <= k)
    <3>1. i - k \in 1..(Len(e) - k) /\ (i - k) + k = i
      BY <1>A, <1>1, <2>2
    <3>2. b[i - k] = e[i]
      BY <1>5, <3>1
    <3> QED
      BY <1>6, <1>7, <2>2, <3>2
  <2> QED
    BY <2>1, <2>2
<1>9. a \o b = e
  BY <1>6, <1>7, <1>8, SeqEqual
<1> QED
  BY <1>4, <1>9 DEF a, b

LEMMA RearrangedWithin ==
  ASSUME NEW S, NEW g \in Seq(S), NEW e \in Seq(S), NEW t \in S, NEW k \in 1..(Len(e) + 1)
  PROVE  g \o With(e, k, t) = With(g \o e, Len(g) + k, t)
<1>A. Len(g) \in Nat /\ Len(e) \in Nat /\ <<t>> \in Seq(S) /\ Len(<<t>>) = 1
  BY LenProperties
<1>B. /\ g \o e \in Seq(S) /\ Len(g \o e) = Len(g) + Len(e)
      /\ \A i \in 1..(Len(g) + Len(e)) : (g \o e)[i] = IF i <= Len(g) THEN g[i] ELSE e[i - Len(g)]
  BY <1>A, ConcatProperties
<1> DEFINE a == With(e, k, t)
           v == With(g \o e, Len(g) + k, t)
<1>1. /\ a \in Seq(S) /\ Len(a) = Len(e) + 1
      /\ \A i \in 1..(Len(e) + 1) :
           a[i] = IF i < k THEN e[i] ELSE IF i = k THEN t ELSE e[i - 1]
  BY WithOf DEF With
<1>2. /\ v \in Seq(S) /\ Len(v) = Len(g) + (Len(e) + 1)
      /\ \A i \in 1..(Len(g) + (Len(e) + 1)) :
           v[i] = IF i < Len(g) + k THEN (g \o e)[i]
                  ELSE IF i = Len(g) + k THEN t ELSE (g \o e)[i - 1]
  <2>1. Len(g) + k \in 1..(Len(g \o e) + 1) /\ Len(g \o e) + 1 = Len(g) + (Len(e) + 1)
    BY <1>A, <1>B
  <2> QED
    BY <1>B, <2>1, WithOf DEF With
<1> HIDE DEF a, v
<1>3. /\ g \o a \in Seq(S) /\ Len(g \o a) = Len(g) + (Len(e) + 1)
      /\ \A i \in 1..(Len(g) + (Len(e) + 1)) :
           (g \o a)[i] = IF i <= Len(g) THEN g[i] ELSE a[i - Len(g)]
  <2>1. /\ g \o a \in Seq(S) /\ Len(g \o a) = Len(g) + Len(a)
        /\ \A i \in 1..(Len(g) + Len(a)) :
             (g \o a)[i] = IF i <= Len(g) THEN g[i] ELSE a[i - Len(g)]
    BY <1>1, ConcatProperties
  <2> QED
    BY <1>1, <2>1
<1>4. ASSUME NEW i \in 1..(Len(g) + (Len(e) + 1)) PROVE (g \o a)[i] = v[i]
  <2>1. CASE i <= Len(g)
    <3>1. i \in 1..(Len(g) + Len(e)) /\ i < Len(g) + k
      BY <1>A, <2>1
    <3> QED
      BY <1>B, <1>2, <1>3, <2>1, <3>1
  <2>2. CASE i > Len(g) /\ i < Len(g) + k
    <3>1. /\ i \in 1..(Len(g) + Len(e)) /\ ~(i <= Len(g)) /\ i - Len(g) < k
          /\ i - Len(g) \in 1..(Len(e) + 1)
      BY <1>A, <2>2
    <3>2. (g \o a)[i] = a[i - Len(g)] /\ a[i - Len(g)] = e[i - Len(g)]
      BY <1>1, <1>3, <3>1
    <3> QED
      BY <1>B, <1>2, <2>2, <3>1, <3>2
  <2>3. CASE i = Len(g) + k
    <3>1. ~(i <= Len(g)) /\ i - Len(g) = k /\ ~(i < Len(g) + k)
      BY <1>A, <2>3
    <3>2. a[k] = t
      BY <1>1
    <3> QED
      BY <1>2, <1>3, <2>3, <3>1, <3>2
  <2>4. CASE i > Len(g) + k
    <3>1. /\ ~(i <= Len(g)) /\ ~(i < Len(g) + k) /\ i # Len(g) + k
          /\ i - Len(g) \in 1..(Len(e) + 1) /\ ~(i - Len(g) < k) /\ i - Len(g) # k
          /\ i - 1 \in 1..(Len(g) + Len(e)) /\ ~(i - 1 <= Len(g))
          /\ (i - 1) - Len(g) = (i - Len(g)) - 1
      BY <1>A, <2>4
    <3>2. (g \o a)[i] = a[i - Len(g)] /\ a[i - Len(g)] = e[(i - Len(g)) - 1]
      BY <1>1, <1>3, <3>1
    <3>3. v[i] = (g \o e)[i - 1] /\ (g \o e)[i - 1] = e[(i - 1) - Len(g)]
      BY <1>B, <1>2, <3>1
    <3> QED
      BY <3>1, <3>2, <3>3
  <2> QED
    <3>1. i <= Len(g) \/ (i > Len(g) /\ i < Len(g) + k) \/ i = Len(g) + k \/ i > Len(g) + k
      BY <1>A
    <3> QED
      BY <2>1, <2>2, <2>3, <2>4, <3>1
<1> QED
  BY <1>2, <1>3, <1>4, SeqEqual DEF a, v

ReleasedThen(g, e, k, t) == ((g \o SubSeq(e, 1, k)) \o <<t>>) \o Rest(e, k)

ThenReleased(g, e, k, t) == ((g \o <<t>>) \o SubSeq(e, 1, k)) \o Rest(e, k)

LEMMA RearrangedAround ==
  ASSUME NEW S, NEW g \in Seq(S), NEW e \in Seq(S), NEW t \in S, NEW k \in 0..Len(e)
  PROVE  /\ ReleasedThen(g, e, k, t) = With(g \o e, Len(g) + k + 1, t)
         /\ ThenReleased(g, e, k, t) = With(g \o e, Len(g) + 1, t)
<1>A. Len(g) \in Nat /\ Len(e) \in Nat /\ <<t>> \in Seq(S) /\ Len(<<t>>) = 1
  BY LenProperties
<1>C. \A f, b \in Seq(S) : Append(f, t) \o b = With(f \o b, Len(f) + 1, t)
  BY Between
<1>1. PICK a, b : a = SubSeq(e, 1, k) /\ b = Rest(e, k)
  OBVIOUS
<1>2. /\ a \in Seq(S) /\ b \in Seq(S) /\ Len(a) = k /\ a \o b = e
      /\ g \o a \in Seq(S) /\ <<t>> \in Seq(S) /\ g \o <<t>> \in Seq(S)
  BY SubSeqOf, <1>A, <1>1, RestOf, ConcatProperties
<1>3. (g \o a) \o b = g \o e
  <2>1. (g \o a) \o b = g \o (a \o b)
    <3>1. g \in Seq(S) /\ a \in Seq(S) /\ b \in Seq(S)
      BY <1>2
    <3> QED
      BY <3>1
  <2> QED
    BY <1>2, <2>1
<1>4. ((g \o a) \o <<t>>) \o b = With(g \o e, Len(g) + k + 1, t)
  <2> DEFINE f == g \o a
  <2>1. f \in Seq(S) /\ Len(f) = Len(g) + k /\ f \o b = g \o e /\ Len(b) \in Nat
    BY <1>2, <1>3, ConcatProperties, LenProperties
  <2> HIDE DEF f
  <2>2. f \o <<t>> = Append(f, t)
    BY <2>1, AppendIsConcat
  <2>3. Append(f, t) \o b = With(f \o b, Len(f) + 1, t)
    BY <1>2, <2>1, <1>C
  <2> QED
    BY <2>1, <2>2, <2>3 DEF f
<1>5. ((g \o <<t>>) \o a) \o b = With(g \o e, Len(g) + 1, t)
  <2>1. ((g \o <<t>>) \o a) \o b = (g \o <<t>>) \o e
    <3>1. ((g \o <<t>>) \o a) \o b = (g \o <<t>>) \o (a \o b)
      <4>1. PICK f : f = g \o <<t>>
        OBVIOUS
      <4>2. f \in Seq(S) /\ a \in Seq(S) /\ b \in Seq(S)
        BY <1>2, <4>1
      <4>3. (f \o a) \o b = f \o (a \o b)
        BY <4>2, SMTT(30)
      <4> QED
        BY <4>1, <4>3
    <3> QED
      BY <1>2, <3>1
  <2>2. g \o <<t>> = Append(g, t)
    BY AppendIsConcat
  <2> QED
    BY <1>C, <2>1, <2>2
<1> QED
  BY <1>1, <1>4, <1>5 DEF ReleasedThen, ThenReleased

LEMMA ReleasedOnly ==
  ASSUME NEW S, NEW g \in Seq(S), NEW e \in Seq(S), NEW k \in 0..Len(e)
  PROVE  (g \o SubSeq(e, 1, k)) \o Rest(e, k) = g \o e
<1>1. PICK a, b : a = SubSeq(e, 1, k) /\ b = Rest(e, k)
  OBVIOUS
<1>2. a \in Seq(S) /\ b \in Seq(S) /\ a \o b = e
  BY <1>1, SubSeqOf, RestOf
<1>3. g \in Seq(S) /\ a \in Seq(S) /\ b \in Seq(S)
  BY <1>2
<1>4. (g \o a) \o b = g \o (a \o b)
  BY <1>3, SMTT(30)
<1> QED
  BY <1>1, <1>2, <1>4

-----------------------------------------------------------------------------
(* What releasing and adding nodes does to the list.                       *)

LEMMA LinkedRest ==
  ASSUME NEW w, NEW first, NEW last, NEW cells, NEW used, Linked(w, first, last, cells, used),
         NEW k \in 0..Len(w)
  PROVE  Linked(Rest(w, k), IF k < Len(w) THEN w[k + 1] ELSE NULL,
                IF k < Len(w) THEN last ELSE NULL, cells, used \ {w[i] : i \in 1..k})
<1> DEFINE v == Rest(w, k)
           n == Len(w) - k
<1>1. w \in Seq(Addresses) /\ Len(w) \in Nat /\ k \in Nat /\ n \in Nat
  BY LenProperties DEF Linked
<1>2. /\ v \in Seq(Addresses) /\ Len(v) = n
      /\ \A i \in 1..n : i + k \in 1..Len(w) /\ v[i] = w[i + k]
  BY <1>1, RestOf
<1>3. k < Len(w) <=> n # 0
  BY <1>1
<1> HIDE DEF v
<1>4. \A i, j \in 1..Len(v) : v[i] = v[j] => i = j
  <2> SUFFICES ASSUME NEW i \in 1..Len(v), NEW j \in 1..Len(v), v[i] = v[j] PROVE i = j
    OBVIOUS
  <2>1. w[i + k] = w[j + k] /\ i + k \in 1..Len(w) /\ j + k \in 1..Len(w)
    BY <1>2
  <2>2. i + k = j + k
    BY <2>1 DEF Linked
  <2> QED
    BY <1>1, <1>2, <2>2
<1>5. \A i \in 1..Len(v) : v[i] \in used \ {w[j] : j \in 1..k}
  <2> SUFFICES ASSUME NEW i \in 1..Len(v) PROVE v[i] \in used \ {w[j] : j \in 1..k}
    OBVIOUS
  <2>1. v[i] = w[i + k] /\ i + k \in 1..Len(w)
    BY <1>2
  <2>2. \A j \in 1..k : j \in 1..Len(w) /\ j # i + k
    BY <1>1, <1>2
  <2>3. \A j \in 1..k : w[j] # w[i + k]
    BY <2>1, <2>2 DEF Linked
  <2> QED
    BY <2>1, <2>3 DEF Linked
<1>6. (IF k < Len(w) THEN w[k + 1] ELSE NULL) = IF Len(v) = 0 THEN NULL ELSE v[1]
  <2>1. CASE n = 0
    BY <1>2, <1>3, <2>1
  <2>2. CASE n # 0
    <3>1. 1 \in 1..n /\ 1 + k = k + 1
      BY <1>1, <2>2
    <3>2. v[1] = w[k + 1]
      BY <1>2, <3>1
    <3> QED
      BY <1>2, <1>3, <2>2, <3>2
  <2> QED
    BY <2>1, <2>2
<1>7. (IF k < Len(w) THEN last ELSE NULL) = IF Len(v) = 0 THEN NULL ELSE v[Len(v)]
  <2>1. CASE n = 0
    BY <1>2, <1>3, <2>1
  <2>2. CASE n # 0
    <3>1. n \in 1..n /\ n + k = Len(w) /\ Len(w) # 0
      BY <1>1, <2>2
    <3>2. v[Len(v)] = w[Len(w)]
      BY <1>2, <3>1
    <3>3. last = w[Len(w)]
      BY <3>1 DEF Linked
    <3> QED
      BY <1>2, <1>3, <2>2, <3>2, <3>3
  <2> QED
    BY <2>1, <2>2
<1>8. \A i \in 1..Len(v) : cells[v[i]].next = IF i < Len(v) THEN v[i + 1] ELSE NULL
  <2> SUFFICES ASSUME NEW i \in 1..Len(v)
               PROVE  cells[v[i]].next = IF i < Len(v) THEN v[i + 1] ELSE NULL
    OBVIOUS
  <2>1. i \in 1..n /\ v[i] = w[i + k] /\ i + k \in 1..Len(w)
    BY <1>2
  <2>2. cells[v[i]].next = IF i + k < Len(w) THEN w[(i + k) + 1] ELSE NULL
    BY <2>1 DEF Linked
  <2>3. CASE i < n
    <3>1. i + 1 \in 1..n /\ (i + 1) + k = (i + k) + 1 /\ i + k < Len(w)
      BY <1>1, <2>1, <2>3
    <3>2. v[i + 1] = w[(i + k) + 1]
      BY <1>2, <3>1
    <3> QED
      BY <1>2, <2>2, <2>3, <3>1, <3>2
  <2>4. CASE ~(i < n)
    <3>1. ~(i + k < Len(w))
      BY <1>1, <2>1, <2>4
    <3> QED
      BY <1>2, <2>2, <2>4, <3>1
  <2> QED
    BY <2>3, <2>4
<1>9. \A i \in 2..Len(v) : cells[v[i]].prev = v[i - 1]
  <2> SUFFICES ASSUME NEW i \in 2..Len(v) PROVE cells[v[i]].prev = v[i - 1]
    OBVIOUS
  <2>1. /\ i \in 1..n /\ i - 1 \in 1..n /\ i + k \in 2..Len(w) /\ (i - 1) + k = (i + k) - 1
    BY <1>1, <1>2
  <2>2. v[i] = w[i + k] /\ v[i - 1] = w[(i + k) - 1]
    BY <1>2, <2>1
  <2> QED
    BY <2>1, <2>2 DEF Linked
<1> QED
  BY <1>2, <1>4, <1>5, <1>6, <1>7, <1>8, <1>9 DEF Linked, v

LEMMA LinkedWith ==
  ASSUME NEW w, NEW first, NEW last, NEW cells, NEW used, Linked(w, first, last, cells, used),
         NEW k \in 1..(Len(w) + 1), NEW c \in Addresses, c \notin used, NEW more,
         more[c].next = IF k <= Len(w) THEN w[k] ELSE NULL,
         k > 1 => more[c].prev = w[k - 1] /\ more[w[k - 1]].next = c,
         k <= Len(w) => more[w[k]].prev = c,
         \A i \in 1..Len(w) : i # k - 1 => more[w[i]].next = cells[w[i]].next,
         \A i \in 2..Len(w) : i # k => more[w[i]].prev = cells[w[i]].prev
  PROVE  Linked(With(w, k, c), IF k = 1 THEN c ELSE first,
                IF k = Len(w) + 1 THEN c ELSE last, more, used \cup {c})
<1> DEFINE v == With(w, k, c)
           n == Len(w) + 1
<1>1. w \in Seq(Addresses) /\ Len(w) \in Nat /\ k \in Nat /\ n \in Nat /\ n # 0 /\ k \in 1..n
  BY LenProperties DEF Linked
<1>2. /\ v \in Seq(Addresses) /\ Len(v) = n /\ v[k] = c
      /\ \A i \in 1..(k - 1) : v[i] = w[i]
      /\ \A i \in (k + 1)..n : v[i] = w[i - 1]
  BY <1>1, WithOf
<1>3. \A i, j \in 1..Len(v) : v[i] = v[j] => i = j
  <2>1. Once(w) /\ c \notin Elements(w)
    BY DEF Linked, Once, Elements
  <2>2. Once(v)
    BY <1>1, <2>1, WithOnce
  <2> HIDE DEF v
  <2> QED
    BY <2>2 DEF Once
<1>4. \A i \in 1..Len(v) : v[i] \in used \cup {c}
  <2>1. Elements(v) = Elements(w) \cup {c}
    BY <1>1, WithElements
  <2> HIDE DEF v
  <2>2. Elements(w) \subseteq used
    BY DEF Linked, Elements
  <2>3. \A i \in 1..Len(v) : v[i] \in Elements(v)
    BY DEF Elements
  <2> QED
    BY <2>1, <2>2, <2>3
<1> HIDE DEF v
<1>5. (IF k = 1 THEN c ELSE first) = IF Len(v) = 0 THEN NULL ELSE v[1]
  <2>1. CASE k = 1
    BY <1>1, <1>2, <2>1
  <2>2. CASE k # 1
    <3>1. 1 \in 1..(k - 1) /\ Len(w) # 0
      BY <1>1, <2>2
    <3>2. v[1] = w[1] /\ first = w[1]
      BY <1>2, <3>1 DEF Linked
    <3> QED
      BY <1>1, <1>2, <2>2, <3>2
  <2> QED
    BY <2>1, <2>2
<1>6. (IF k = Len(w) + 1 THEN c ELSE last) = IF Len(v) = 0 THEN NULL ELSE v[Len(v)]
  <2>1. CASE k = n
    BY <1>1, <1>2, <2>1
  <2>2. CASE k # n
    <3>1. n \in (k + 1)..n /\ n - 1 = Len(w) /\ Len(w) # 0
      BY <1>1, <2>2
    <3>2. v[n] = w[Len(w)] /\ last = w[Len(w)]
      BY <1>2, <3>1 DEF Linked
    <3> QED
      BY <1>1, <1>2, <2>2, <3>2
  <2> QED
    BY <2>1, <2>2
<1>7. \A i \in 1..Len(v) : more[v[i]].next = IF i < Len(v) THEN v[i + 1] ELSE NULL
  <2> SUFFICES ASSUME NEW i \in 1..Len(v)
               PROVE  more[v[i]].next = IF i < Len(v) THEN v[i + 1] ELSE NULL
    OBVIOUS
  <2>1. i \in 1..n
    BY <1>2
  <2>2. CASE i = k
    <3>1. CASE k <= Len(w)
      <4>1. k + 1 \in (k + 1)..n /\ (k + 1) - 1 = k /\ k < n
        BY <1>1, <3>1
      <4>2. v[k + 1] = w[k]
        BY <1>2, <4>1
      <4> QED
        BY <1>2, <2>2, <3>1, <4>1, <4>2
    <3>2. CASE ~(k <= Len(w))
      <4>1. ~(k < n)
        BY <1>1, <3>2
      <4> QED
        BY <1>2, <2>2, <3>2, <4>1
    <3> QED
      BY <3>1, <3>2
  <2>3. CASE i = k - 1
    <3>1. i \in 1..(k - 1) /\ k > 1 /\ i < n /\ i + 1 = k
      BY <1>1, <2>1, <2>3
    <3>2. v[i] = w[k - 1] /\ v[i + 1] = c
      BY <1>2, <2>3, <3>1
    <3> QED
      BY <1>2, <3>1, <3>2
  <2>4. CASE i < k - 1
    <3>1. i \in 1..(k - 1) /\ i + 1 \in 1..(k - 1) /\ i < n /\ i \in 1..Len(w) /\ i # k - 1 /\ i < Len(w)
      BY <1>1, <2>1, <2>4
    <3>2. v[i] = w[i] /\ v[i + 1] = w[i + 1]
      BY <1>2, <3>1
    <3>3. more[w[i]].next = cells[w[i]].next /\ cells[w[i]].next = w[i + 1]
      BY <3>1 DEF Linked
    <3> QED
      BY <1>2, <3>1, <3>2, <3>3
  <2>5. CASE i > k
    <3>1. i \in (k + 1)..n /\ i - 1 \in 1..Len(w) /\ i - 1 # k - 1 /\ (i - 1) + 1 = i
      BY <1>1, <2>1, <2>5
    <3>2. v[i] = w[i - 1]
      BY <1>2, <3>1
    <3>3. more[v[i]].next = IF i - 1 < Len(w) THEN w[i] ELSE NULL
      BY <3>1, <3>2 DEF Linked
    <3>4. CASE i < n
      <4>1. i + 1 \in (k + 1)..n /\ (i + 1) - 1 = i /\ i - 1 < Len(w)
        BY <1>1, <3>1, <3>4
      <4>2. v[i + 1] = w[i]
        BY <1>2, <4>1
      <4> QED
        BY <1>2, <3>3, <3>4, <4>1, <4>2
    <3>5. CASE ~(i < n)
      <4>1. ~(i - 1 < Len(w))
        BY <1>1, <3>1, <3>5
      <4> QED
        BY <1>2, <3>3, <3>5, <4>1
    <3> QED
      BY <3>4, <3>5
  <2> QED
    BY <1>1, <2>1, <2>2, <2>3, <2>4, <2>5
<1>8. \A i \in 2..Len(v) : more[v[i]].prev = v[i - 1]
  <2> SUFFICES ASSUME NEW i \in 2..Len(v) PROVE more[v[i]].prev = v[i - 1]
    OBVIOUS
  <2>1. i \in 2..n
    BY <1>2
  <2>2. CASE i < k
    <3>1. i \in 1..(k - 1) /\ i - 1 \in 1..(k - 1) /\ i \in 2..Len(w) /\ i # k
      BY <1>1, <2>1, <2>2
    <3>2. v[i] = w[i] /\ v[i - 1] = w[i - 1]
      BY <1>2, <3>1
    <3>3. more[w[i]].prev = cells[w[i]].prev /\ cells[w[i]].prev = w[i - 1]
      BY <3>1 DEF Linked
    <3> QED
      BY <3>2, <3>3
  <2>3. CASE i = k
    <3>1. i - 1 \in 1..(k - 1) /\ k > 1
      BY <1>1, <2>1, <2>3
    <3>2. v[i - 1] = w[k - 1]
      BY <1>2, <2>3, <3>1
    <3> QED
      BY <1>2, <2>3, <3>1, <3>2
  <2>4. CASE i = k + 1
    <3>1. i \in (k + 1)..n /\ i - 1 = k /\ k <= Len(w)
      BY <1>1, <2>1, <2>4
    <3>2. v[i] = w[k]
      BY <1>2, <3>1
    <3> QED
      BY <1>2, <3>1, <3>2
  <2>5. CASE i > k + 1
    <3>1. /\ i \in (k + 1)..n /\ i - 1 \in (k + 1)..n /\ i - 1 \in 2..Len(w) /\ i - 1 # k
      BY <1>1, <2>1, <2>5
    <3>2. v[i] = w[i - 1] /\ v[i - 1] = w[(i - 1) - 1]
      BY <1>2, <3>1
    <3>3. more[w[i - 1]].prev = cells[w[i - 1]].prev /\ cells[w[i - 1]].prev = w[(i - 1) - 1]
      BY <3>1 DEF Linked
    <3> QED
      BY <3>2, <3>3
  <2> QED
    BY <1>1, <2>1, <2>2, <2>3, <2>4, <2>5
<1> QED
  BY <1>2, <1>3, <1>4, <1>5, <1>6, <1>7, <1>8 DEF Linked, v

-----------------------------------------------------------------------------
(* The invariant.                                                          *)

Entries(w, cells) == [i \in 1..Len(w) |-> cells[w[i]].entry]

(* Every node holds the header of a data packet that was received.         *)
Carries(w, cells, log) ==
  \A i \in 1..Len(w) :
    /\ cells[w[i]].entry \in 1..Len(log)
    /\ IsData(log[cells[w[i]].entry])
    /\ cells[w[i]].seq = log[cells[w[i]].entry].seq
    /\ cells[w[i]].end = log[cells[w[i]].entry].end

Within(w, cells, origin) ==
  \A i \in 1..Len(w) : Fits(origin, cells[w[i]].seq, cells[w[i]].end)

Sorts(w, cells, origin) ==
  \A i, j \in 1..Len(w) :
    i < j => Offset(origin, cells[w[i]].end) <= Offset(origin, cells[w[j]].seq)

Behind(w, cells, s) == \A i \in 1..Len(w) : NotAfter(s, cells[w[i]].seq)

(* The packets that are accounted for: those reinjected, then those held.  *)
Seen == given \o Entries(Queue, node)

RInv(origin) ==
  /\ TypeOK
  /\ Linked(Queue, head, tail, node, allocated)
  /\ Carries(Queue, node, rx)
  /\ Within(Queue, node, origin)
  /\ Sorts(Queue, node, origin)
  /\ Behind(Queue, node, seq_next)
  /\ Once(Seen)
  /\ Len(Queue) <= count /\ count <= MAX_REORDER_COUNT + 1

NodeType(n) ==
  [entry : 0..n, seq : SeqNumbers, end : SeqNumbers,
   prev : Addresses \cup {NULL}, next : Addresses \cup {NULL}]

LEMMA Facts ==
  ASSUME NEW origin \in SeqNumbers, RInv(origin)
  PROVE  /\ rx \in Seq(Packets) /\ Len(rx) \in Nat
         /\ Queue \in Seq(Addresses) /\ Len(Queue) \in Nat
         /\ node \in [Addresses -> NodeType(Len(rx))]
         /\ \A i \in 1..Len(Queue) :
              /\ Queue[i] \in Addresses /\ Queue[i] \in allocated
              /\ node[Queue[i]].entry \in 1..Len(rx)
              /\ node[Queue[i]].seq \in Window(origin) /\ node[Queue[i]].end \in Window(origin)
              /\ Offset(origin, node[Queue[i]].seq) \in Nat /\ Offset(origin, node[Queue[i]].end) \in Nat
              /\ Offset(origin, node[Queue[i]].seq) < Offset(origin, node[Queue[i]].end)
         /\ given \in Seq(1..Len(rx)) /\ Len(given) \in Nat
         /\ Entries(Queue, node) \in Seq(1..Len(rx)) /\ Len(Entries(Queue, node)) = Len(Queue)
         /\ Seen \in Seq(1..Len(rx)) /\ Len(Seen) = Len(given) + Len(Queue)
<1>1. /\ rx \in Seq(Packets) /\ Len(rx) \in Nat
      /\ given \in Seq(1..Len(rx)) /\ Len(given) \in Nat
      /\ node \in [Addresses -> NodeType(Len(rx))]
  BY LenProperties DEF RInv, TypeOK, NodeType, SeqNumbers
<1>2. Queue \in Seq(Addresses) /\ Len(Queue) \in Nat
  BY LenProperties DEF RInv, Linked
<1>3. ASSUME NEW i \in 1..Len(Queue)
      PROVE  /\ Queue[i] \in Addresses /\ Queue[i] \in allocated
             /\ node[Queue[i]].entry \in 1..Len(rx)
             /\ node[Queue[i]].seq \in Window(origin) /\ node[Queue[i]].end \in Window(origin)
             /\ Offset(origin, node[Queue[i]].seq) \in Nat /\ Offset(origin, node[Queue[i]].end) \in Nat
             /\ Offset(origin, node[Queue[i]].seq) < Offset(origin, node[Queue[i]].end)
  <2>1. Queue[i] \in Addresses /\ Queue[i] \in allocated
    BY <1>2, ElementOfSeq DEF RInv, Linked
  <2>2. node[Queue[i]].entry \in 1..Len(rx)
    BY DEF RInv, Carries
  <2>5. /\ node[Queue[i]].seq \in Window(origin) /\ node[Queue[i]].end \in Window(origin)
        /\ Offset(origin, node[Queue[i]].seq) < Offset(origin, node[Queue[i]].end)
    BY DEF RInv, Within, Fits
  <2> QED
    BY <2>1, <2>2, <2>5, WindowOrder
<1>4. Entries(Queue, node) \in Seq(1..Len(rx)) /\ Len(Entries(Queue, node)) = Len(Queue)
  BY <1>2, <1>3 DEF Entries
<1>5. Seen \in Seq(1..Len(rx)) /\ Len(Seen) = Len(given) + Len(Queue)
  <2>1. PICK e : e = Entries(Queue, node)
    OBVIOUS
  <2>2. e \in Seq(1..Len(rx)) /\ Len(e) = Len(Queue) /\ Seen = given \o e
    BY <1>4, <2>1 DEF Seen
  <2>3. given \o e \in Seq(1..Len(rx)) /\ Len(given \o e) = Len(given) + Len(e)
    BY <1>1, <2>2, ConcatProperties
  <2> QED
    BY <2>2, <2>3
<1> QED
  BY <1>1, <1>2, <1>3, <1>4, <1>5

(* Sorted also means that the starts follow one another.                   *)
LEMMA StartsAscend ==
  ASSUME NEW origin \in SeqNumbers, RInv(origin),
         NEW i \in 1..Len(Queue), NEW j \in i..Len(Queue)
  PROVE  Offset(origin, node[Queue[i]].seq) <= Offset(origin, node[Queue[j]].seq)
<1>1. Len(Queue) \in Nat /\ j \in 1..Len(Queue)
  BY Facts
<1>2. /\ Offset(origin, node[Queue[i]].seq) \in Nat /\ Offset(origin, node[Queue[i]].end) \in Nat
      /\ Offset(origin, node[Queue[j]].seq) \in Nat
      /\ Offset(origin, node[Queue[i]].seq) < Offset(origin, node[Queue[i]].end)
  BY <1>1, Facts
<1>3. CASE i = j
  BY <1>2, <1>3
<1>4. CASE i < j
  <2>1. Offset(origin, node[Queue[i]].end) <= Offset(origin, node[Queue[j]].seq)
    BY <1>1, <1>4 DEF RInv, Sorts
  <2> QED
    BY <1>2, <2>1
<1> QED
  BY <1>1, <1>3, <1>4

(* What a step leaves as the list is what the next state holds.            *)
LEMMA Becomes ==
  ASSUME NEW origin, NEW w, Linked(w, head', tail', node', allocated'),
         Carries(w, node', rx'), Within(w, node', origin), Sorts(w, node', origin), Behind(w, node', seq_next'),
         Len(w) <= count', count' <= MAX_REORDER_COUNT + 1,
         rx' \in Seq(Packets), given' \in Seq(1..Len(rx')),
         node' \in [Addresses -> NodeType(Len(rx'))], allocated' \subseteq Addresses,
         count' \in Nat, seq_next' \in SeqNumbers, armed' \in BOOLEAN,
         Once(given' \o Entries(w, node'))
  PROVE  RInv(origin)' /\ Queue' = w /\ Seen' = given' \o Entries(w, node')
<1>1. CellsFrom(head', node') = w
  BY CellsOfList
<1>2. Queue' = w
  BY <1>1 DEF Queue
<1>3. Seen' = given' \o Entries(w, node')
  BY <1>2 DEF Seen
<1>4. head' \in Addresses \cup {NULL} /\ tail' \in Addresses \cup {NULL}
  <2>1. w \in Seq(Addresses) /\ Len(w) \in Nat
    BY LenProperties DEF Linked
  <2>2. Len(w) # 0 => 1 \in 1..Len(w) /\ Len(w) \in 1..Len(w)
    BY <2>1
  <2>3. Len(w) # 0 => w[1] \in Addresses /\ w[Len(w)] \in Addresses
    BY <2>1, <2>2, ElementOfSeq
  <2> QED
    BY <2>3 DEF Linked
<1>5. TypeOK'
  BY <1>4 DEF TypeOK, NodeType, SeqNumbers
<1>6. /\ Linked(Queue, head, tail, node, allocated)'
      /\ Carries(Queue, node, rx)' /\ Within(Queue, node, origin)' /\ Sorts(Queue, node, origin)' /\ Behind(Queue, node, seq_next)'
  BY <1>2
<1>7. Once(Seen)'
  BY <1>3
<1>8. (Len(Queue) <= count)' /\ (count <= MAX_REORDER_COUNT + 1)'
  BY <1>2
<1> QED
  BY <1>2, <1>3, <1>5, <1>6, <1>7, <1>8 DEF RInv

(* The log of packets received only grows.                                 *)
LEMMA LogGrows ==
  ASSUME NEW p \in Packets, rx \in Seq(Packets), rx' = Append(rx, p)
  PROVE  /\ rx' \in Seq(Packets) /\ Len(rx') \in Nat /\ Len(rx) \in Nat /\ Len(rx) <= Len(rx')
         /\ Len(rx') = Len(rx) + 1 /\ rx'[Len(rx) + 1] = p
         /\ \A i \in 1..Len(rx) : i \in 1..Len(rx') /\ rx'[i] = rx[i]
<1>1. /\ Len(rx) \in Nat /\ rx' \in Seq(Packets) /\ Len(rx') = Len(rx) + 1
      /\ rx'[Len(rx) + 1] = p /\ \A i \in 1..Len(rx) : rx'[i] = rx[i]
  BY AppendProperties, LenProperties
<1> QED
  BY <1>1

(* What Pop leaves of the list.                                            *)
LEMMA PopLeaves ==
  ASSUME NEW origin \in SeqNumbers, RInv(origin),
         NEW k \in 0..Len(Queue), Pop(k),
         rx' = rx \/ \E p \in Packets : rx' = Append(rx, p)
  PROVE  /\ Linked(Rest(Queue, k), head', tail', node', allocated')
         /\ Carries(Rest(Queue, k), node', rx')
         /\ Within(Rest(Queue, k), node', origin) /\ Sorts(Rest(Queue, k), node', origin)
         /\ Entries(Rest(Queue, k), node') = Rest(Entries(Queue, node), k)
         /\ Len(Rest(Queue, k)) <= count' /\ count' <= MAX_REORDER_COUNT + 1 /\ count' \in Nat
         /\ node' \in [Addresses -> NodeType(Len(rx'))] /\ allocated' \subseteq Addresses
<1> DEFINE w == Queue
           v == Rest(w, k)
           e == Entries(w, node)
<1>1. /\ rx \in Seq(Packets) /\ w \in Seq(Addresses) /\ Len(w) \in Nat /\ k \in Nat /\ k \in 0..Len(w)
      /\ node \in [Addresses -> NodeType(Len(rx))]
      /\ e \in Seq(1..Len(rx)) /\ Len(e) = Len(w) /\ k \in 0..Len(e)
  BY Facts
<1>2. /\ rx' \in Seq(Packets) /\ Len(rx) \in Nat /\ Len(rx') \in Nat /\ Len(rx) <= Len(rx')
      /\ \A i \in 1..Len(rx) : i \in 1..Len(rx') /\ rx'[i] = rx[i]
  <2>1. CASE rx' = rx
    BY <1>1, <2>1, LenProperties
  <2>2. CASE rx' # rx
    <3>1. PICK p \in Packets : rx' = Append(rx, p)
      BY <2>2
    <3> QED
      BY <1>1, <3>1, LogGrows
  <2> QED
    BY <2>1, <2>2
<1>3. /\ v \in Seq(Addresses) /\ Len(v) = Len(w) - k
      /\ \A i \in 1..(Len(w) - k) : i + k \in 1..Len(w) /\ v[i] = w[i + k]
  BY <1>1, RestOf
<1>4. node' = node /\ count' = count - k
      /\ allocated' = allocated \ {w[i] : i \in 1..k}
      /\ head' = (IF k < Len(w) THEN w[k + 1] ELSE NULL)
      /\ tail' = (IF k < Len(w) THEN tail ELSE NULL)
  BY DEF Pop
<1>5. Linked(w, head, tail, node, allocated) /\ Carries(w, node, rx)
      /\ Within(w, node, origin) /\ Sorts(w, node, origin)
      /\ Len(w) <= count /\ count <= MAX_REORDER_COUNT + 1 /\ count \in Nat
      /\ allocated \subseteq Addresses
  BY DEF RInv, TypeOK
<1> HIDE DEF w
<1>6. Linked(v, head', tail', node', allocated')
  BY <1>1, <1>4, <1>5, LinkedRest
<1> HIDE DEF v, e
<1>7. Carries(v, node', rx')
  <2> SUFFICES ASSUME NEW i \in 1..Len(v)
               PROVE  /\ node[v[i]].entry \in 1..Len(rx')
                      /\ IsData(rx'[node[v[i]].entry])
                      /\ node[v[i]].seq = rx'[node[v[i]].entry].seq
                      /\ node[v[i]].end = rx'[node[v[i]].entry].end
    BY <1>4 DEF Carries
  <2>1. i + k \in 1..Len(w) /\ v[i] = w[i + k]
    BY <1>3
  <2>2. /\ node[v[i]].entry \in 1..Len(rx)
        /\ IsData(rx[node[v[i]].entry])
        /\ node[v[i]].seq = rx[node[v[i]].entry].seq
        /\ node[v[i]].end = rx[node[v[i]].entry].end
    BY <1>5, <2>1 DEF Carries
  <2> QED
    BY <1>2, <2>2
<1>8. Sorts(v, node', origin)
  <2> SUFFICES ASSUME NEW i \in 1..Len(v), NEW j \in 1..Len(v), i < j
               PROVE  Offset(origin, node[v[i]].end) <= Offset(origin, node[v[j]].seq)
    BY <1>4 DEF Sorts
  <2>1. /\ i + k \in 1..Len(w) /\ v[i] = w[i + k] /\ j + k \in 1..Len(w) /\ v[j] = w[j + k]
        /\ i + k < j + k
    BY <1>1, <1>3
  <2> QED
    BY <1>5, <2>1 DEF Sorts
<1>12. Within(v, node', origin)
  <2> SUFFICES ASSUME NEW i \in 1..Len(v) PROVE Fits(origin, node[v[i]].seq, node[v[i]].end)
    BY <1>4 DEF Within
  <2>1. i + k \in 1..Len(w) /\ v[i] = w[i + k]
    BY <1>3
  <2> QED
    BY <1>5, <2>1 DEF Within
<1>9. Entries(v, node') = Rest(e, k)
  <2>1. /\ Rest(e, k) \in Seq(1..Len(rx)) /\ Len(Rest(e, k)) = Len(w) - k
        /\ \A i \in 1..(Len(w) - k) : i + k \in 1..Len(w) /\ Rest(e, k)[i] = e[i + k]
    <3>1. /\ Rest(e, k) \in Seq(1..Len(rx)) /\ Len(Rest(e, k)) = Len(e) - k
          /\ \A i \in 1..(Len(e) - k) : i + k \in 1..Len(e) /\ Rest(e, k)[i] = e[i + k]
      BY <1>1, RestOf
    <3> QED
      BY <1>1, <3>1
  <2>2. Rest(e, k) = [i \in 1..(Len(w) - k) |-> Rest(e, k)[i]]
    BY <2>1
  <2>3. \A i \in 1..(Len(w) - k) : Rest(e, k)[i] = node[v[i]].entry
    BY <1>3, <2>1 DEF e, Entries
  <2>4. Entries(v, node') = [i \in 1..(Len(w) - k) |-> node[v[i]].entry]
    BY <1>3, <1>4 DEF Entries
  <2> QED
    BY <2>2, <2>3, <2>4
<1>10. Len(v) <= count' /\ count' <= MAX_REORDER_COUNT + 1 /\ count' \in Nat
  BY <1>1, <1>3, <1>4, <1>5, LimitAssumption
<1>11. node' \in [Addresses -> NodeType(Len(rx'))] /\ allocated' \subseteq Addresses
  <2>1. NodeType(Len(rx)) \subseteq NodeType(Len(rx'))
    BY <1>2 DEF NodeType
  <2> QED
    BY <1>1, <1>4, <1>5, <2>1
<1> QED
  BY <1>6, <1>7, <1>8, <1>9, <1>10, <1>11, <1>12 DEF v, e, w

-----------------------------------------------------------------------------
(* What becomes of the packet.                                             *)

(* It joins those that are accounted for.                                  *)
Keeps == \E pos \in 1..(Len(Seen) + 1) : Seen' = With(Seen, pos, Len(rx) + 1)

(* It is linked behind a node that is not in the list.                     *)
Loses ==
  /\ Seen' = Seen
  /\ head # NULL /\ node[head].prev # NULL /\ node[head].prev \notin Elements(Queue)

(* A number that was not given before stands nowhere.                      *)
LEMMA SeenAdds ==
  ASSUME NEW s, NEW n \in Nat, s \in Seq(1..n), Once(s), NEW pos \in 1..(Len(s) + 1)
  PROVE  /\ With(s, pos, n + 1) \in Seq(1..(n + 1)) /\ Once(With(s, pos, n + 1))
         /\ Elements(With(s, pos, n + 1)) = Elements(s) \cup {n + 1}
<1>1. s \in Seq(1..(n + 1))
  <2>1. 1..n \subseteq 1..(n + 1)
    OBVIOUS
  <2> QED
    BY <2>1, SeqMonotonic
<1>2. n + 1 \in 1..(n + 1) /\ n + 1 \notin Elements(s)
  <2>1. \A i \in 1..Len(s) : s[i] \in 1..n
    BY ElementOfSeq
  <2> QED
    BY <2>1 DEF Elements
<1> QED
  BY <1>1, <1>2, WithOf, WithOnce, WithElements

(* Entries of a part of the list.                                          *)
LEMMA FirstEntries ==
  ASSUME NEW origin \in SeqNumbers, RInv(origin), NEW k \in 0..Len(Queue)
  PROVE  EntriesOf(SubSeq(Queue, 1, k)) = SubSeq(Entries(Queue, node), 1, k)
<1> DEFINE w == Queue
           e == Entries(w, node)
<1>1. /\ w \in Seq(Addresses) /\ Len(w) \in Nat /\ e \in Seq(1..Len(rx)) /\ Len(e) = Len(w)
      /\ \A i \in 1..Len(w) : w[i] \in Addresses /\ e[i] \in 1..Len(rx) /\ e[i] = node[w[i]].entry
  <2>1. /\ w \in Seq(Addresses) /\ Len(w) \in Nat /\ e \in Seq(1..Len(rx)) /\ Len(e) = Len(w)
        /\ \A i \in 1..Len(w) : w[i] \in Addresses /\ node[w[i]].entry \in 1..Len(rx)
    BY Facts
  <2>2. \A i \in 1..Len(w) : e[i] = node[w[i]].entry
    BY DEF Entries
  <2> QED
    BY <2>1, <2>2
<1> HIDE DEF w, e
<1>2. /\ SubSeq(w, 1, k) \in Seq(Addresses) /\ Len(SubSeq(w, 1, k)) = k
      /\ \A i \in 1..k : SubSeq(w, 1, k)[i] = w[i]
  BY <1>1 DEF w
<1>3. /\ SubSeq(e, 1, k) \in Seq(1..Len(rx)) /\ Len(SubSeq(e, 1, k)) = k
      /\ \A i \in 1..k : SubSeq(e, 1, k)[i] = e[i]
  BY <1>1 DEF w
<1>4. SubSeq(e, 1, k) = [i \in 1..k |-> SubSeq(e, 1, k)[i]]
  BY <1>3
<1>5. EntriesOf(SubSeq(w, 1, k)) = [i \in 1..k |-> node[SubSeq(w, 1, k)[i]].entry]
  BY <1>2 DEF EntriesOf
<1>6. \A i \in 1..k : node[SubSeq(w, 1, k)[i]].entry = SubSeq(e, 1, k)[i]
  <2>1. \A i \in 1..k : i \in 1..Len(w)
    BY <1>1 DEF w
  <2> QED
    BY <1>1, <1>2, <1>3, <2>1
<1>7. EntriesOf(SubSeq(w, 1, k)) = SubSeq(e, 1, k)
  BY <1>4, <1>5, <1>6
<1> QED
  BY <1>7 DEF w, e

LEMMA AllEntries ==
  ASSUME NEW origin \in SeqNumbers, RInv(origin)
  PROVE  EntriesOf(Queue) = SubSeq(Entries(Queue, node), 1, Len(Queue))
<1>1. Queue \in Seq(Addresses) /\ Len(Queue) \in Nat /\ Len(Queue) \in 0..Len(Queue)
  BY Facts
<1>2. SubSeq(Queue, 1, Len(Queue)) = Queue
  BY <1>1, SubSeqFull
<1> QED
  BY <1>1, <1>2, FirstEntries

(* The first k nodes are released, and the packet goes before or behind    *)
(* them.                                                                   *)
LEMMA ReleaseStep ==
  ASSUME NEW origin \in SeqNumbers, RInv(origin),
         NEW p \in Packets, rx' = Append(rx, p), armed' \in BOOLEAN,
         NEW k \in 0..Len(Queue), Pop(k), seq_next' \in SeqNumbers,
         Behind(Rest(Queue, k), node, seq_next'),
         \/ given' = given \o EntriesOf(SubSeq(Queue, 1, k)) \o <<Len(rx) + 1>>
         \/ given' = given \o <<Len(rx) + 1>> \o EntriesOf(SubSeq(Queue, 1, k))
  PROVE  RInv(origin)' /\ Keeps /\ Queue' = Rest(Queue, k)
<1> DEFINE w == Queue
           v == Rest(w, k)
           e == Entries(w, node)
           t == Len(rx) + 1
           S == 1..t
<1>1. /\ rx \in Seq(Packets) /\ Len(rx) \in Nat /\ w \in Seq(Addresses) /\ Len(w) \in Nat
      /\ given \in Seq(1..Len(rx)) /\ Len(given) \in Nat
      /\ e \in Seq(1..Len(rx)) /\ Len(e) = Len(w) /\ k \in 0..Len(e)
      /\ Seen \in Seq(1..Len(rx)) /\ Len(Seen) = Len(given) + Len(w) /\ Seen = given \o e
      /\ Once(Seen)
  BY Facts DEF Seen, RInv
<1>2. rx' \in Seq(Packets) /\ Len(rx') = t
  BY <1>1, LogGrows
<1>3. /\ Linked(v, head', tail', node', allocated') /\ Carries(v, node', rx')
      /\ Within(v, node', origin) /\ Sorts(v, node', origin) /\ Entries(v, node') = Rest(e, k)
      /\ Len(v) <= count' /\ count' <= MAX_REORDER_COUNT + 1 /\ count' \in Nat
      /\ node' \in [Addresses -> NodeType(Len(rx'))] /\ allocated' \subseteq Addresses
  BY PopLeaves
<1>4. EntriesOf(SubSeq(Queue, 1, k)) = SubSeq(e, 1, k)
  BY FirstEntries
<1>5. Behind(v, node', seq_next')
  BY DEF Pop
<1> HIDE DEF w, v, e
<1>6. t \in S /\ given \in Seq(S) /\ e \in Seq(S)
  <2>1. 1..Len(rx) \subseteq S /\ t \in S
    BY <1>1
  <2> QED
    BY <1>1, <2>1, SeqMonotonic
<1>7. \E pos \in 1..(Len(Seen) + 1) : given' \o Rest(e, k) = With(Seen, pos, t)
  <2>1. /\ Len(given) + 1 \in 1..(Len(Seen) + 1) /\ Len(given) + k + 1 \in 1..(Len(Seen) + 1)
    BY <1>1
  <2>2. /\ ReleasedThen(given, e, k, t) = With(given \o e, Len(given) + k + 1, t)
        /\ ThenReleased(given, e, k, t) = With(given \o e, Len(given) + 1, t)
    <3> HIDE DEF t, S
    <3> QED
      BY <1>1, <1>6, RearrangedAround
  <2>3. \/ given' \o Rest(e, k) = ReleasedThen(given, e, k, t)
        \/ given' \o Rest(e, k) = ThenReleased(given, e, k, t)
    BY <1>4 DEF ReleasedThen, ThenReleased
  <2> QED
    BY <1>1, <2>1, <2>2, <2>3
<1>8. given' \in Seq(S)
  <2>1. SubSeq(e, 1, k) \in Seq(S) /\ <<t>> \in Seq(S)
    <3>1. \A i \in 1..k : e[i] \in S
      <4>1. \A i \in 1..k : i \in 1..Len(e)
        BY <1>1
      <4> QED
        BY <1>6, <4>1, ElementOfSeq
    <3>2. 1 \in Int /\ k \in Int
      BY <1>1
    <3>3. SubSeq(e, 1, k) \in Seq(S)
      BY <3>1, <3>2, SubSeqProperties
    <3> QED
      BY <1>6, <3>3
  <2>2. PICK a : a = SubSeq(e, 1, k)
    OBVIOUS
  <2>3. a \in Seq(S) /\ (given' = (given \o a) \o <<t>> \/ given' = (given \o <<t>>) \o a)
    BY <1>4, <2>1, <2>2
  <2>4. (given \o a) \o <<t>> \in Seq(S) /\ (given \o <<t>>) \o a \in Seq(S)
    BY <1>6, <2>1, <2>3, ConcatProperties
  <2> QED
    BY <2>3, <2>4
<1>9. PICK pos \in 1..(Len(Seen) + 1) : given' \o Rest(e, k) = With(Seen, pos, t)
  BY <1>7
<1>10. Once(given' \o Entries(v, node'))
  <2>1. Once(With(Seen, pos, t))
    BY <1>1, SeenAdds
  <2> QED
    BY <1>3, <1>9, <2>1
<1>11. RInv(origin)' /\ Queue' = v /\ Seen' = given' \o Entries(v, node')
  BY <1>2, <1>3, <1>5, <1>8, <1>10, Becomes
<1> QED
  BY <1>3, <1>9, <1>11 DEF Keeps, v, w

(* The packet is reinjected and the list is left alone.                    *)
LEMMA PassStep ==
  ASSUME NEW origin \in SeqNumbers, RInv(origin),
         NEW p \in Packets, rx' = Append(rx, p), armed' \in BOOLEAN,
         UNCHANGED <<list_vars, count, seq_next>>, given' = Append(given, Len(rx) + 1)
  PROVE  RInv(origin)' /\ Keeps
<1>1. /\ rx \in Seq(Packets) /\ Len(rx) \in Nat /\ Queue \in Seq(Addresses) /\ Len(Queue) \in Nat
      /\ given \in Seq(1..Len(rx)) /\ Entries(Queue, node) \in Seq(1..Len(rx))
  BY Facts
<1>2. Pop(0)
  <2>1. /\ Linked(Queue, head, tail, node, allocated) /\ count \in Nat
    BY DEF RInv, TypeOK
  <2>2. /\ head = (IF 0 < Len(Queue) THEN Queue[0 + 1] ELSE NULL)
        /\ tail = (IF 0 < Len(Queue) THEN tail ELSE NULL)
    BY <1>1, <2>1 DEF Linked
  <2>3. allocated = allocated \ {Queue[i] : i \in 1..0} /\ count = count - 0
    BY <2>1
  <2> QED
    BY <2>2, <2>3 DEF Pop, list_vars
<1>3. Rest(Queue, 0) = Queue
  BY <1>1, SubSeqFull DEF Rest
<1>4. Behind(Rest(Queue, 0), node, seq_next')
  BY <1>3 DEF RInv
<1>5. given' = given \o EntriesOf(SubSeq(Queue, 1, 0)) \o <<Len(rx) + 1>>
  <2>1. EntriesOf(SubSeq(Queue, 1, 0)) = SubSeq(Entries(Queue, node), 1, 0)
    BY <1>1, FirstEntries
  <2>2. SubSeq(Entries(Queue, node), 1, 0) = << >>
    BY SubSeqEmpty
  <2>3. given \o << >> = given
    BY <1>1, ConcatEmptySeq
  <2>4. given \in Seq(Nat) /\ Len(rx) + 1 \in Nat
    BY <1>1, SeqMonotonic
  <2>5. given' = given \o <<Len(rx) + 1>>
    BY <2>4, AppendIsConcat
  <2> QED
    BY <2>1, <2>2, <2>3, <2>5
<1>6. seq_next' \in SeqNumbers /\ 0 \in 0..Len(Queue)
  BY <1>1 DEF RInv, TypeOK, SeqNumbers
<1> QED
  BY <1>2, <1>4, <1>5, <1>6, ReleaseStep

(* p is linked in as the k-th node.                                        *)
Inserts(k, cell, p) ==
  /\ node' \in [Addresses -> NodeType(Len(rx'))]
  /\ node'[cell].entry = Len(rx) + 1 /\ node'[cell].seq = p.seq /\ node'[cell].end = p.end
  /\ node'[cell].next = IF k <= Len(Queue) THEN Queue[k] ELSE NULL
  /\ k > 1 => node'[cell].prev = Queue[k - 1] /\ node'[Queue[k - 1]].next = cell
  /\ k <= Len(Queue) => node'[Queue[k]].prev = cell
  /\ \A i \in 1..Len(Queue) : /\ node'[Queue[i]].entry = node[Queue[i]].entry
                              /\ node'[Queue[i]].seq = node[Queue[i]].seq
                              /\ node'[Queue[i]].end = node[Queue[i]].end
                              /\ i # k - 1 => node'[Queue[i]].next = node[Queue[i]].next
  /\ \A i \in 2..Len(Queue) : i # k => node'[Queue[i]].prev = node[Queue[i]].prev
  /\ head' = IF k = 1 THEN cell ELSE head
  /\ tail' = IF k = Len(Queue) + 1 THEN cell ELSE tail

LEMMA InsertStep ==
  ASSUME NEW origin \in SeqNumbers, RInv(origin),
         NEW p \in Packets, rx' = Append(rx, p), armed' \in BOOLEAN,
         IsData(p), Fits(origin, p.seq, p.end), NotAfter(seq_next, p.seq),
         NEW k \in 1..(Len(Queue) + 1), NEW cell \in Addresses \ allocated, Inserts(k, cell, p),
         allocated' = allocated \cup {cell}, given' = given, seq_next' = seq_next,
         count' \in Nat, Len(Queue) + 1 <= count', count' <= MAX_REORDER_COUNT + 1,
         \A i \in 1..(k - 1) : Offset(origin, node[Queue[i]].end) <= Offset(origin, p.seq),
         \A i \in k..Len(Queue) : Offset(origin, p.end) <= Offset(origin, node[Queue[i]].seq)
  PROVE  RInv(origin)' /\ Keeps
<1> DEFINE w == Queue
           v == With(w, k, cell)
           e == Entries(w, node)
           t == Len(rx) + 1
           S == 1..t
<1>1. /\ rx \in Seq(Packets) /\ Len(rx) \in Nat /\ w \in Seq(Addresses) /\ Len(w) \in Nat
      /\ given \in Seq(1..Len(rx)) /\ Len(given) \in Nat
      /\ e \in Seq(1..Len(rx)) /\ Len(e) = Len(w)
      /\ Seen \in Seq(1..Len(rx)) /\ Len(Seen) = Len(given) + Len(w) /\ Seen = given \o e
      /\ Once(Seen)
      /\ k \in Nat /\ k \in 1..(Len(w) + 1) /\ cell \in Addresses /\ cell \notin allocated
  BY Facts DEF Seen, RInv
<1>2. /\ rx' \in Seq(Packets) /\ Len(rx') = t /\ rx'[t] = p
      /\ \A i \in 1..Len(rx) : i \in 1..Len(rx') /\ rx'[i] = rx[i]
  BY <1>1, LogGrows
<1>3. /\ Linked(w, head, tail, node, allocated) /\ Carries(w, node, rx)
      /\ Within(w, node, origin) /\ Sorts(w, node, origin) /\ Behind(w, node, seq_next)
      /\ allocated \subseteq Addresses /\ seq_next \in SeqNumbers
  BY DEF RInv, TypeOK, SeqNumbers
<1>4. /\ v \in Seq(Addresses) /\ Len(v) = Len(w) + 1 /\ v[k] = cell
      /\ \A i \in 1..(k - 1) : v[i] = w[i]
      /\ \A i \in (k + 1)..(Len(w) + 1) : v[i] = w[i - 1]
  <2> HIDE DEF w
  <2>1. PICK l : l = w
    OBVIOUS
  <2>2. l \in Seq(Addresses) /\ k \in 1..(Len(l) + 1) /\ cell \in Addresses
    BY <1>1, <2>1
  <2>3. /\ With(l, k, cell) \in Seq(Addresses) /\ Len(With(l, k, cell)) = Len(l) + 1
        /\ With(l, k, cell)[k] = cell
        /\ \A i \in 1..(k - 1) : With(l, k, cell)[i] = l[i]
        /\ \A i \in (k + 1)..(Len(l) + 1) : With(l, k, cell)[i] = l[i - 1]
    BY <2>2, WithOf
  <2> QED
    BY <2>1, <2>3
<1>5. Linked(v, head', tail', node', allocated')
  <2>1. /\ node'[cell].next = IF k <= Len(w) THEN w[k] ELSE NULL
        /\ k > 1 => node'[cell].prev = w[k - 1] /\ node'[w[k - 1]].next = cell
        /\ k <= Len(w) => node'[w[k]].prev = cell
        /\ \A i \in 1..Len(w) : i # k - 1 => node'[w[i]].next = node[w[i]].next
        /\ \A i \in 2..Len(w) : i # k => node'[w[i]].prev = node[w[i]].prev
        /\ head' = IF k = 1 THEN cell ELSE head
        /\ tail' = IF k = Len(w) + 1 THEN cell ELSE tail
    BY DEF Inserts
  <2> HIDE DEF w
  <2>2. PICK more, cells, l : more = node' /\ cells = node /\ l = w
    OBVIOUS
  <2>3. /\ Linked(l, head, tail, cells, allocated)
        /\ k \in 1..(Len(l) + 1) /\ cell \in Addresses /\ cell \notin allocated
        /\ more[cell].next = IF k <= Len(l) THEN l[k] ELSE NULL
        /\ k > 1 => more[cell].prev = l[k - 1] /\ more[l[k - 1]].next = cell
        /\ k <= Len(l) => more[l[k]].prev = cell
        /\ \A i \in 1..Len(l) : i # k - 1 => more[l[i]].next = cells[l[i]].next
        /\ \A i \in 2..Len(l) : i # k => more[l[i]].prev = cells[l[i]].prev
    BY <1>1, <1>3, <2>1, <2>2
  <2>4. Linked(With(l, k, cell), IF k = 1 THEN cell ELSE head, IF k = Len(l) + 1 THEN cell ELSE tail,
               more, allocated \cup {cell})
    BY <2>3, LinkedWith
  <2> QED
    BY <2>1, <2>2, <2>4
(* Where each node of the new list comes from.                             *)
<1> DEFINE old(i) == IF i < k THEN i ELSE i - 1
<1>6. ASSUME NEW i \in 1..Len(v), i # k
      PROVE  /\ old(i) \in 1..Len(w) /\ v[i] = w[old(i)]
             /\ node'[v[i]].entry = node[w[old(i)]].entry
             /\ node'[v[i]].seq = node[w[old(i)]].seq /\ node'[v[i]].end = node[w[old(i)]].end
  <2>1. old(i) \in 1..Len(w) /\ v[i] = w[old(i)]
    <3>1. CASE i < k
      <4>1. i \in 1..(k - 1) /\ i \in 1..Len(w)
        BY <1>1, <1>4, <3>1
      <4> QED
        BY <1>4, <3>1, <4>1
    <3>2. CASE ~(i < k)
      <4>1. i \in (k + 1)..(Len(w) + 1) /\ i - 1 \in 1..Len(w)
        BY <1>1, <1>4, <1>6, <3>2
      <4> QED
        BY <1>4, <3>2, <4>1
    <3> QED
      BY <3>1, <3>2
  <2>2. PICK j : j = old(i)
    OBVIOUS
  <2>3. /\ node'[w[j]].entry = node[w[j]].entry /\ node'[w[j]].seq = node[w[j]].seq
        /\ node'[w[j]].end = node[w[j]].end
    BY <2>1, <2>2 DEF Inserts
  <2> QED
    BY <2>1, <2>2, <2>3
<1>7. node'[cell].entry = t /\ node'[cell].seq = p.seq /\ node'[cell].end = p.end
  BY DEF Inserts
<1> HIDE DEF w, v, e, t
<1>8. Carries(v, node', rx')
  <2> SUFFICES ASSUME NEW i \in 1..Len(v)
               PROVE  /\ node'[v[i]].entry \in 1..Len(rx')
                      /\ IsData(rx'[node'[v[i]].entry])
                      /\ node'[v[i]].seq = rx'[node'[v[i]].entry].seq
                      /\ node'[v[i]].end = rx'[node'[v[i]].entry].end
    BY DEF Carries
  <2>1. CASE i = k
    <3>1. t \in 1..Len(rx')
      BY <1>1, <1>2 DEF t
    <3> QED
      BY <1>2, <1>4, <1>7, <2>1, <3>1
  <2>2. CASE i # k
    <3>1. PICK j : j = old(i)
      OBVIOUS
    <3>2. /\ j \in 1..Len(w)
          /\ node'[v[i]].entry = node[w[j]].entry
          /\ node'[v[i]].seq = node[w[j]].seq /\ node'[v[i]].end = node[w[j]].end
      BY <1>6, <2>2, <3>1
    <3>3. /\ node[w[j]].entry \in 1..Len(rx)
          /\ IsData(rx[node[w[j]].entry])
          /\ node[w[j]].seq = rx[node[w[j]].entry].seq
          /\ node[w[j]].end = rx[node[w[j]].entry].end
      BY <1>3, <3>2 DEF Carries
    <3> QED
      BY <1>2, <3>2, <3>3
  <2> QED
    BY <2>1, <2>2
<1>9. Within(v, node', origin)
  <2> SUFFICES ASSUME NEW i \in 1..Len(v) PROVE Fits(origin, node'[v[i]].seq, node'[v[i]].end)
    BY DEF Within
  <2>1. CASE i = k
    BY <1>4, <1>7, <2>1
  <2>2. CASE i # k
    <3>1. PICK j : j = old(i)
      OBVIOUS
    <3>2. j \in 1..Len(w) /\ node'[v[i]].seq = node[w[j]].seq /\ node'[v[i]].end = node[w[j]].end
      BY <1>6, <2>2, <3>1
    <3> QED
      BY <1>3, <3>2 DEF Within
  <2> QED
    BY <2>1, <2>2
<1>10. Sorts(v, node', origin)
  <2> SUFFICES ASSUME NEW i \in 1..Len(v), NEW j \in 1..Len(v), i < j
               PROVE  Offset(origin, node'[v[i]].end) <= Offset(origin, node'[v[j]].seq)
    BY DEF Sorts
  <2>1. CASE i # k /\ j # k
    <3>1. PICK a, b : a = old(i) /\ b = old(j)
      OBVIOUS
    <3>2. /\ a \in 1..Len(w) /\ b \in 1..Len(w)
          /\ node'[v[i]].end = node[w[a]].end /\ node'[v[j]].seq = node[w[b]].seq
      BY <1>6, <2>1, <3>1
    <3>3. a < b
      <4>1. i \in Nat /\ j \in Nat
        BY <1>1, <1>4
      <4>2. a = IF i < k THEN i ELSE i - 1
        BY <3>1
      <4>3. b = IF j < k THEN j ELSE j - 1
        BY <3>1
      <4> QED
        BY <1>1, <2>1, <4>1, <4>2, <4>3
    <3> QED
      BY <1>3, <3>2, <3>3 DEF Sorts
  <2>2. CASE i = k
    <3>1. j # k /\ ~(j < k) /\ old(j) = j - 1 /\ j - 1 \in k..Len(w)
      <4>1. j \in Nat /\ j <= Len(w) + 1
        BY <1>1, <1>4
      <4>2. k \in Nat /\ Len(w) \in Nat
        BY <1>1
      <4>3. k < j
        BY <2>2
      <4>4. j # k /\ ~(j < k) /\ j - 1 \in k..Len(w)
        <5> HIDE DEF w, v
        <5> QED
          BY <4>1, <4>2, <4>3
      <4> QED
        BY <4>4
    <3>2. node'[v[j]].seq = node[w[j - 1]].seq
      BY <1>6, <3>1
    <3>3. Offset(origin, p.end) <= Offset(origin, node[w[j - 1]].seq)
      BY <3>1 DEF w
    <3> QED
      BY <1>4, <1>7, <2>2, <3>2, <3>3
  <2>3. CASE j = k
    <3>1. i # k /\ i < k /\ old(i) = i /\ i \in 1..(k - 1)
      BY <1>1, <1>4, <2>3
    <3>2. node'[v[i]].end = node[w[i]].end
      BY <1>6, <3>1
    <3>3. Offset(origin, node[w[i]].end) <= Offset(origin, p.seq)
      BY <3>1 DEF w
    <3> QED
      BY <1>4, <1>7, <2>3, <3>2, <3>3
  <2> QED
    BY <2>1, <2>2, <2>3
<1>11. Behind(v, node', seq_next')
  <2> SUFFICES ASSUME NEW i \in 1..Len(v) PROVE NotAfter(seq_next, node'[v[i]].seq)
    BY DEF Behind
  <2>1. CASE i = k
    BY <1>4, <1>7, <2>1
  <2>2. CASE i # k
    <3>1. PICK j : j = old(i)
      OBVIOUS
    <3>2. j \in 1..Len(w) /\ node'[v[i]].seq = node[w[j]].seq
      BY <1>6, <2>2, <3>1
    <3> QED
      BY <1>3, <3>2 DEF Behind
  <2> QED
    BY <2>1, <2>2
<1>12. Entries(v, node') = With(e, k, t)
  <2>1. ASSUME NEW i \in 1..Len(v)
        PROVE  node'[v[i]].entry = IF i < k THEN e[i] ELSE IF i = k THEN t ELSE e[i - 1]
    <3>1. CASE i = k
      BY <1>4, <1>7, <3>1
    <3>2. CASE i # k
      <4>1. PICK j : j = old(i)
        OBVIOUS
      <4>2. j \in 1..Len(w) /\ node'[v[i]].entry = node[w[j]].entry
        BY <1>6, <3>2, <4>1
      <4>3. e[j] = node[w[j]].entry
        BY <4>2 DEF e, Entries
      <4> QED
        BY <3>2, <4>1, <4>2, <4>3
    <3> QED
      BY <3>1, <3>2
  <2>2. Len(v) = Len(e) + 1
    BY <1>1, <1>4 DEF w
  <2>3. Entries(v, node') = [i \in 1..(Len(e) + 1) |-> node'[v[i]].entry]
    BY <2>2 DEF Entries
  <2> QED
    BY <2>1, <2>2, <2>3 DEF With
<1>13. /\ t \in S /\ given \in Seq(S) /\ e \in Seq(S) /\ k \in 1..(Len(e) + 1)
  <2>1. 1..Len(rx) \subseteq S /\ t \in S
    BY <1>1 DEF t
  <2>2. k \in 1..(Len(e) + 1)
    BY <1>1 DEF w
  <2> QED
    BY <1>1, <2>1, <2>2, SeqMonotonic
<1> HIDE DEF S
<1>14. given \o With(e, k, t) = With(given \o e, Len(given) + k, t)
  <2>1. PICK T, g, f, x : T = S /\ g = given /\ f = e /\ x = t
    OBVIOUS
  <2>2. g \in Seq(T) /\ f \in Seq(T) /\ x \in T /\ k \in 1..(Len(f) + 1)
    BY <1>13, <2>1
  <2>3. g \o With(f, k, x) = With(g \o f, Len(g) + k, x)
    BY <2>2, RearrangedWithin
  <2> QED
    BY <2>1, <2>3
<1>15. PICK pos : pos = Len(given) + k
  OBVIOUS
<1>16. pos \in 1..(Len(Seen) + 1)
  BY <1>1, <1>15 DEF w
<1>17. given' \o Entries(v, node') = With(Seen, pos, t)
  BY <1>1, <1>12, <1>14, <1>15
<1>18. Once(given' \o Entries(v, node'))
  <2>1. Once(With(Seen, pos, t))
    BY <1>1, <1>16, SeenAdds DEF t
  <2> QED
    BY <1>17, <2>1
<1>19. Len(v) <= count' /\ given' \in Seq(1..Len(rx')) /\ allocated' \subseteq Addresses
       /\ node' \in [Addresses -> NodeType(Len(rx'))]
  <2>1. Len(v) <= count'
    BY <1>4 DEF w
  <2>2. given' \in Seq(1..Len(rx'))
    BY <1>2, <1>13 DEF S
  <2>3. node' \in [Addresses -> NodeType(Len(rx'))]
    BY DEF Inserts
  <2> QED
    BY <1>3, <2>1, <2>2, <2>3
<1>20. RInv(origin)' /\ Seen' = given' \o Entries(v, node')
  BY <1>2, <1>3, <1>5, <1>8, <1>9, <1>10, <1>11, <1>18, <1>19, Becomes
<1> QED
  BY <1>16, <1>17, <1>20 DEF Keeps, t

-----------------------------------------------------------------------------
(* Parts of the handler.                                                   *)

LEMMA MinIs ==
  ASSUME NEW T \in SUBSET Nat, T # {}
  PROVE  Min(T) \in T /\ \A y \in T : Min(T) <= y
<1>1. \E x \in T : \A y \in T : x <= y
  BY LeastNat
<1> QED
  BY <1>1 DEF Min

(* The half of the space may be taken from anywhere that holds the list.   *)
LEMMA ChangeOrigin ==
  ASSUME NEW origin \in SeqNumbers, RInv(origin), NEW o \in SeqNumbers, Within(Queue, node, o)
  PROVE  RInv(o)
<1>1. ASSUME NEW i \in 1..Len(Queue), NEW j \in 1..Len(Queue), i < j
      PROVE  Offset(o, node[Queue[i]].end) <= Offset(o, node[Queue[j]].seq)
  <2>1. PICK a, b : a = node[Queue[i]].end /\ b = node[Queue[j]].seq
    OBVIOUS
  <2>2. a \in Window(origin) /\ b \in Window(origin) /\ Offset(origin, a) <= Offset(origin, b)
    BY <1>1, <2>1 DEF RInv, Within, Fits, Sorts
  <2>3. a \in Window(o) /\ b \in Window(o)
    BY <2>1 DEF Within, Fits
  <2>4. NotAfter(a, b)
    BY <2>2, WindowOrder
  <2> QED
    BY <2>1, <2>3, <2>4, WindowOrder
<1>2. Sorts(Queue, node, o)
  BY <1>1 DEF Sorts
<1> QED
  BY <1>2 DEF RInv

(* Where the walk stops.                                                   *)
LEMMA StopIs ==
  ASSUME NEW origin \in SeqNumbers, RInv(origin), NEW h \in Packets, h.end \in Window(origin)
  PROVE  /\ Stop(h) = NULL =>
              \A i \in 1..Len(Queue) : Offset(origin, node[Queue[i]].seq) < Offset(origin, h.end)
         /\ Stop(h) # NULL =>
              \E k \in 1..Len(Queue) :
                Stop(h) = Queue[k] /\ Offset(origin, h.end) <= Offset(origin, node[Queue[k]].seq)
<1> DEFINE beyond == {k \in 1..Len(Queue) : NotAfter(h.end, node[Queue[k]].seq)}
<1>1. Stop(h) = IF beyond = {} THEN NULL ELSE Queue[Min(beyond)]
  BY DEF Stop
<1>2. Len(Queue) \in Nat /\ \A i \in 1..Len(Queue) : Queue[i] \in Addresses
  BY Facts
<1>3. ASSUME NEW i \in 1..Len(Queue)
      PROVE  /\ NotAfter(h.end, node[Queue[i]].seq)
                  <=> Offset(origin, h.end) <= Offset(origin, node[Queue[i]].seq)
             /\ Offset(origin, h.end) \in Nat /\ Offset(origin, node[Queue[i]].seq) \in Nat
  BY Facts, WindowOrder
<1>4. CASE beyond = {}
  <2>1. \A i \in 1..Len(Queue) : ~(Offset(origin, h.end) <= Offset(origin, node[Queue[i]].seq))
    BY <1>3, <1>4
  <2>2. \A i \in 1..Len(Queue) : Offset(origin, node[Queue[i]].seq) < Offset(origin, h.end)
    BY <1>3, <2>1
  <2> QED
    BY <1>1, <1>4, <2>2
<1>5. CASE beyond # {}
  <2>1. beyond \in SUBSET Nat
    BY <1>2
  <2>2. Min(beyond) \in beyond
    BY <1>5, <2>1, MinIs
  <2>3. PICK k : k = Min(beyond)
    OBVIOUS
  <2>4. k \in 1..Len(Queue) /\ NotAfter(h.end, node[Queue[k]].seq)
    BY <2>2, <2>3
  <2>5. Stop(h) = Queue[k]
    BY <1>1, <1>5, <2>3
  <2>6. Queue[k] # NULL
    BY <1>2, <2>4, AddressesAssumption
  <2> QED
    BY <1>3, <2>4, <2>5, <2>6
<1> QED
  BY <1>4, <1>5

(* seq_next runs within the half of the space.                             *)
LEMMA RunsWithin ==
  ASSUME NEW origin \in SeqNumbers, RInv(origin), NEW from \in Window(origin)
  PROVE  \A k \in 0..Len(Queue) : /\ Runs(from)[k] \in Window(origin)
                                   /\ Offset(origin, from) <= Offset(origin, Runs(from)[k])
<1> DEFINE n == Len(Queue)
           end(k) == node[Queue[k]].end
           D(f) == [k \in 0..n |-> IF k = 0 THEN from ELSE Later(f[k - 1], end(k))]
           run == CHOOSE f : f = D(f)
           g == [k \in 0..n |-> IF k = 0 THEN from ELSE Later(from, end(k))]
<1>1. n \in Nat /\ \A k \in 1..n : end(k) \in Window(origin) /\ Offset(origin, end(k)) \in Nat
  BY Facts
<1>2. \A k \in 2..n : Offset(origin, end(k - 1)) < Offset(origin, end(k))
  <2> SUFFICES ASSUME NEW k \in 2..n PROVE Offset(origin, end(k - 1)) < Offset(origin, end(k))
    OBVIOUS
  <2>1. k - 1 \in 1..n /\ k \in 1..n /\ k - 1 < k
    BY <1>1
  <2>2. Offset(origin, end(k - 1)) <= Offset(origin, node[Queue[k]].seq)
    BY <2>1 DEF RInv, Sorts
  <2>3. Offset(origin, node[Queue[k]].seq) \in Nat /\ Offset(origin, node[Queue[k]].seq) < Offset(origin, end(k))
    BY <2>1, Facts
  <2> QED
    BY <1>1, <2>1, <2>2, <2>3
<1>3. Runs(from) = run
  BY DEF Runs
<1>4. Offset(origin, from) \in Nat
  BY WindowOrder
<1> HIDE DEF end, n
<1>5. \A k \in 0..n : g[k] = D(g)[k]
  <2> SUFFICES ASSUME NEW k \in 0..n PROVE g[k] = D(g)[k]
    OBVIOUS
  <2>1. CASE k = 0
    BY <2>1
  <2>2. CASE k = 1
    <3>1. k - 1 = 0 /\ 0 \in 0..n
      BY <1>1, <2>2
    <3> QED
      BY <2>2, <3>1
  <2>3. CASE k > 1
    <3>1. k - 1 \in 0..n /\ k - 1 # 0 /\ k # 0 /\ k \in 2..n /\ k \in 1..n /\ k - 1 \in 1..n
      BY <1>1, <2>3
    <3>2. PICK a, b : a = end(k - 1) /\ b = end(k)
      OBVIOUS
    <3>3. /\ a \in Window(origin) /\ b \in Window(origin) /\ Offset(origin, a) < Offset(origin, b)
          /\ Offset(origin, a) \in Nat /\ Offset(origin, b) \in Nat
      BY <1>1, <1>2, <3>1, <3>2
    <3>4. Later(from, a) = IF Offset(origin, from) < Offset(origin, a) THEN a ELSE from
      BY <3>3, LaterInWindow
    <3>5. Later(from, b) = IF Offset(origin, from) < Offset(origin, b) THEN b ELSE from
      BY <3>3, LaterInWindow
    <3>6. Later(a, b) = b
      BY <3>3, LaterInWindow
    <3>7. Later(Later(from, a), b) = Later(from, b)
      BY <1>4, <3>3, <3>4, <3>5, <3>6
    <3>8. g[k - 1] = Later(from, a) /\ g[k] = Later(from, b)
      BY <3>1, <3>2
    <3> QED
      BY <3>1, <3>2, <3>7, <3>8
  <2> QED
    BY <1>1, <2>1, <2>2, <2>3
<1>6. g = D(g)
  BY <1>5
<1>7. run = D(run)
  BY <1>6
<1> HIDE DEF run, g
<1>8. \A k \in 0..n : run[k] = IF k = 0 THEN from ELSE Later(run[k - 1], end(k))
  BY <1>7
<1>9. \A k \in 0..n : run[k] \in Window(origin) /\ Offset(origin, from) <= Offset(origin, run[k])
  <2> DEFINE Good(k) == run[k] \in Window(origin) /\ Offset(origin, from) <= Offset(origin, run[k])
             T == {k \in 0..n : ~Good(k)}
  <2> SUFFICES ASSUME T # {} PROVE FALSE
    OBVIOUS
  <2>1. PICK k \in T : \A y \in T : k <= y
    <3>1. T \subseteq Nat
      BY <1>1
    <3> QED
      BY <3>1, LeastNat
  <2>2. k \in 0..n /\ ~Good(k)
    BY <2>1
  <2>3. k # 0
    BY <1>4, <1>8, <2>2
  <2>4. k - 1 \in 0..n /\ k - 1 \notin T /\ k \in 1..n
    BY <1>1, <2>1, <2>2, <2>3
  <2>5. run[k - 1] \in Window(origin) /\ Offset(origin, from) <= Offset(origin, run[k - 1])
    BY <2>4
  <2>6. PICK a, b : a = run[k - 1] /\ b = end(k)
    OBVIOUS
  <2>7. a \in Window(origin) /\ b \in Window(origin) /\ run[k] = Later(a, b)
    BY <1>1, <1>8, <2>2, <2>3, <2>4, <2>5, <2>6
  <2>8. /\ Later(a, b) \in Window(origin) /\ Offset(origin, a) <= Offset(origin, Later(a, b))
        /\ Offset(origin, a) \in Nat /\ Offset(origin, Later(a, b)) \in Nat
    BY <2>7, LaterInWindow, WindowOrder
  <2> QED
    BY <1>4, <2>2, <2>5, <2>6, <2>7, <2>8
<1> QED
  BY <1>3, <1>9 DEF n

-----------------------------------------------------------------------------
(* One lemma per branch of the handler.                                    *)

(* flush_reorder_queue up to the k-th node, then the packet.               *)
LEMMA FlushStep ==
  ASSUME NEW origin \in SeqNumbers, RInv(origin),
         NEW p \in Packets, rx' = Append(rx, p), armed' \in BOOLEAN,
         NEW k \in 0..Len(Queue), FlushAndAccept(k, Len(rx) + 1, p),
         \A i \in (k + 1)..Len(Queue) : NotAfter(Later(FlushedTo(k), p.end), node[Queue[i]].seq)
  PROVE  RInv(origin)' /\ Keeps
<1>1. Len(Queue) \in Nat /\ Queue \in Seq(Addresses) /\ k \in Nat
  BY Facts
<1>2. FlushedTo(k) \in SeqNumbers
  <2>1. k # 0 => k \in 1..Len(Queue)
    BY <1>1
  <2>2. k # 0 => node[Queue[k]].end \in SeqNumbers
    BY <2>1, Facts DEF Window
  <2>3. seq_next \in SeqNumbers
    BY DEF RInv, TypeOK, SeqNumbers
  <2> QED
    BY <2>2, <2>3 DEF FlushedTo
<1>3. p.end \in SeqNumbers
  BY PacketsAssumption DEF HeaderType, SeqNumbers
<1>4. Pop(k) /\ seq_next' = Later(FlushedTo(k), p.end)
      /\ given' = given \o EntriesOf(SubSeq(Queue, 1, k)) \o <<Len(rx) + 1>>
  BY DEF FlushAndAccept
<1>5. seq_next' \in SeqNumbers
  BY <1>2, <1>3, <1>4 DEF Later
<1>6. Behind(Rest(Queue, k), node, seq_next')
  <2>1. Len(Rest(Queue, k)) = Len(Queue) - k /\ \A i \in 1..(Len(Queue) - k) : Rest(Queue, k)[i] = Queue[i + k]
    BY <1>1, RestOf
  <2> SUFFICES ASSUME NEW i \in 1..Len(Rest(Queue, k))
               PROVE  NotAfter(seq_next', node[Rest(Queue, k)[i]].seq)
    BY DEF Behind
  <2>2. i + k \in (k + 1)..Len(Queue)
    BY <1>1, <2>1
  <2> QED
    BY <1>4, <2>1, <2>2
<1> QED
  BY <1>4, <1>5, <1>6, ReleaseStep

(* All of them are flushed.                                                *)
LEMMA FlushAllStep ==
  ASSUME NEW origin \in SeqNumbers, RInv(origin),
         NEW p \in Packets, rx' = Append(rx, p), armed' \in BOOLEAN,
         FlushAndAccept(Len(Queue), Len(rx) + 1, p)
  PROVE  RInv(origin)' /\ Keeps
<1>1. PICK k : k = Len(Queue)
  OBVIOUS
<1>2. k \in 0..Len(Queue) /\ \A i \in (k + 1)..Len(Queue) : FALSE
  BY <1>1, Facts
<1>3. FlushAndAccept(k, Len(rx) + 1, p)
  BY <1>1
<1> QED
  BY <1>2, <1>3, FlushStep

LEMMA SynReleases ==
  ASSUME NEW origin \in SeqNumbers, RInv(origin), NEW p \in Packets, EnqueueSyn(Len(rx) + 1, p)
  PROVE  \E k \in 0..Len(Queue) :
           /\ k = Len(Queue) /\ Pop(k) /\ seq_next' \in SeqNumbers
           /\ given' = given \o EntriesOf(SubSeq(Queue, 1, k)) \o <<Len(rx) + 1>>
           /\ Behind(Rest(Queue, k), node, seq_next')
<1>1. PICK k : k = Len(Queue)
  OBVIOUS
<1>2. k \in 0..Len(Queue) /\ Queue \in Seq(Addresses) /\ k \in Nat
  BY <1>1, Facts
<1>3. Pop(k) /\ seq_next' = (p.seq + 1) % SeqRange
      /\ given' = given \o EntriesOf(SubSeq(Queue, 1, k)) \o <<Len(rx) + 1>>
  <2>1. SubSeq(Queue, 1, Len(Queue)) = Queue
    BY <1>2, SubSeqFull
  <2> QED
    BY <1>1, <2>1 DEF EnqueueSyn
<1>4. seq_next' \in SeqNumbers
  <2>1. p.seq + 1 \in Int /\ SeqRange \in Nat /\ SeqRange > 0
    BY PacketsAssumption, SeqRangeAssumption DEF HeaderType
  <2> QED
    BY <1>3, <2>1, Division DEF SeqNumbers
<1>5. Behind(Rest(Queue, k), node, seq_next')
  <2>1. Len(Rest(Queue, k)) = 0
    BY <1>1, <1>2, RestOf
  <2> QED
    BY <2>1 DEF Behind
<1> QED
  BY <1>1, <1>2, <1>3, <1>4, <1>5

LEMMA SynStep ==
  ASSUME NEW origin \in SeqNumbers, RInv(origin),
         NEW p \in Packets, rx' = Append(rx, p), armed' \in BOOLEAN,
         EnqueueSyn(Len(rx) + 1, p)
  PROVE  RInv(origin)' /\ Keeps
BY SynReleases, ReleaseStep

(* The packet is the next one.                                             *)
LEMMA InSeqReleases ==
  ASSUME NEW origin \in SeqNumbers, RInv(origin), NEW p \in Packets,
         p.end \in Window(origin), EnqueueInSeq(Len(rx) + 1, p)
  PROVE  \E k \in 0..Len(Queue) :
           /\ Pop(k) /\ seq_next' \in SeqNumbers
           /\ given' = given \o <<Len(rx) + 1>> \o EntriesOf(SubSeq(Queue, 1, k))
           /\ Behind(Rest(Queue, k), node, seq_next')
           /\ seq_next' \in Window(origin) /\ Offset(origin, p.end) <= Offset(origin, seq_next')
<1> DEFINE n == Len(Queue)
           gaps == {k \in 1..n : ~NotAfter(node[Queue[k]].seq, Runs(p.end)[k - 1])}
           K == Min(gaps \cup {n + 1}) - 1
<1>1. n \in Nat /\ Queue \in Seq(Addresses)
  BY Facts
<1>2. /\ Min(gaps \cup {n + 1}) \in gaps \cup {n + 1}
  <2>1. gaps \cup {n + 1} \in SUBSET Nat /\ gaps \cup {n + 1} # {}
    BY <1>1
  <2> HIDE DEF gaps
  <2> QED
    BY <2>1, MinIs
<1>3. /\ Pop(K) /\ given' = given \o <<Len(rx) + 1>> \o EntriesOf(SubSeq(Queue, 1, K))
      /\ seq_next' = Runs(p.end)[K]
  BY DEF EnqueueInSeq
<1>4. PICK k : k = K
  OBVIOUS
<1>5. k \in 0..n /\ (k # n => k + 1 \in gaps)
  <2>1. PICK m : m = Min(gaps \cup {n + 1})
    OBVIOUS
  <2>2. k = m - 1 /\ (m \in gaps \/ m = n + 1)
    BY <1>2, <1>4, <2>1
  <2>3. m \in gaps => m \in 1..n
    OBVIOUS
  <2> HIDE DEF gaps, n
  <2>4. m \in 1..(n + 1) /\ k + 1 = m
    BY <1>1, <2>2, <2>3
  <2> QED
    BY <1>1, <2>2, <2>4
<1> HIDE DEF K
<1>6. Runs(p.end)[k] \in Window(origin) /\ Offset(origin, p.end) <= Offset(origin, Runs(p.end)[k])
  BY <1>5, RunsWithin
<1>7. /\ seq_next' \in Window(origin) /\ seq_next' \in SeqNumbers
      /\ Offset(origin, p.end) <= Offset(origin, seq_next')
  BY <1>3, <1>4, <1>6 DEF Window
<1>8. Behind(Rest(Queue, k), node, seq_next')
  <2>1. Len(Rest(Queue, k)) = n - k /\ \A i \in 1..(n - k) : Rest(Queue, k)[i] = Queue[i + k]
    BY <1>1, <1>5, RestOf
  <2> SUFFICES ASSUME NEW i \in 1..Len(Rest(Queue, k))
               PROVE  NotAfter(seq_next', node[Rest(Queue, k)[i]].seq)
    BY DEF Behind
  <2>2. /\ i + k \in (k + 1)..n /\ k + 1 \in 1..n /\ i + k \in 1..n /\ k + 1 \in gaps
        /\ (k + 1) - 1 = k
    BY <1>1, <1>5, <2>1
  <2>3. ~NotAfter(node[Queue[k + 1]].seq, seq_next')
    BY <1>3, <1>4, <2>2
  <2>4. PICK a, b : a = node[Queue[k + 1]].seq /\ b = node[Queue[i + k]].seq
    OBVIOUS
  <2>5. a \in Window(origin) /\ b \in Window(origin) /\ Offset(origin, a) <= Offset(origin, b)
    BY <2>2, <2>4, Facts, StartsAscend
  <2>6. Offset(origin, seq_next') < Offset(origin, a)
    BY <1>7, <2>3, <2>4, <2>5, WindowOrder
  <2>7. Offset(origin, seq_next') <= Offset(origin, b)
    BY <1>7, <2>5, <2>6, WindowOrder
  <2>8. NotAfter(seq_next', b)
    BY <1>7, <2>5, <2>7, WindowOrder
  <2> QED
    BY <2>1, <2>4, <2>8
<1>9. Pop(k) /\ given' = given \o <<Len(rx) + 1>> \o EntriesOf(SubSeq(Queue, 1, k))
  BY <1>3, <1>4
<1> QED
  BY <1>5, <1>7, <1>8, <1>9

LEMMA InSeqStep ==
  ASSUME NEW origin \in SeqNumbers, RInv(origin),
         NEW p \in Packets, rx' = Append(rx, p), armed' \in BOOLEAN,
         p.end \in Window(origin), EnqueueInSeq(Len(rx) + 1, p)
  PROVE  RInv(origin)' /\ Keeps
BY InSeqReleases, ReleaseStep

(* A packet that is ahead of seq_next, and not too many are held: where it *)
(* goes.                                                                   *)
LEMMA WalksFacts ==
  ASSUME NEW origin \in SeqNumbers, RInv(origin), NEW p \in Packets,
         Fits(origin, p.seq, p.end), Ahead(p), ~Full
  PROVE  /\ IsData(p) /\ NotAfter(seq_next, p.seq) /\ Later(seq_next, p.end) = p.end
         /\ count \in Nat /\ count + 1 <= MAX_REORDER_COUNT + 1 /\ Len(Queue) + 1 <= count + 1
         /\ p.seq \in Window(origin) /\ p.end \in Window(origin)
         /\ Offset(origin, p.seq) \in Nat /\ Offset(origin, p.end) \in Nat
         /\ Offset(origin, p.seq) < Offset(origin, p.end)
<1>1. p.seq \in SeqNumbers /\ p.end \in SeqNumbers /\ seq_next \in SeqNumbers
  BY PacketsAssumption DEF HeaderType, SeqNumbers, RInv, TypeOK
<1>2. Before(seq_next, p.seq) /\ Later(seq_next, p.end) = p.end
  BY <1>1, AheadOf DEF Ahead
<1>3. Len(Queue) <= count /\ count \in Nat /\ Len(Queue) \in Nat
  BY Facts DEF RInv, TypeOK
<1>4. count <= MAX_REORDER_COUNT
  BY <1>3, LimitAssumption DEF Full
<1>5. p.seq \in Window(origin) /\ p.end \in Window(origin) /\ Offset(origin, p.seq) < Offset(origin, p.end)
  BY DEF Fits
<1>6. Offset(origin, p.seq) \in Nat /\ Offset(origin, p.end) \in Nat
  BY <1>5, WindowOrder
<1> QED
  BY <1>2, <1>3, <1>4, <1>5, <1>6, LimitAssumption DEF Ahead, NotAfter

(* A node that is filled has the type of its fields.                       *)
LEMMA CellType ==
  ASSUME rx \in Seq(Packets), NEW p \in Packets, rx' = Append(rx, p),
         NEW prev \in Addresses \cup {NULL}, NEW next \in Addresses \cup {NULL}
  PROVE  /\ Cell(Len(rx) + 1, p, prev, next) \in NodeType(Len(rx'))
         /\ NodeType(Len(rx)) \subseteq NodeType(Len(rx'))
         /\ \A n \in NodeType(Len(rx')), a \in Addresses \cup {NULL} :
              [n EXCEPT !.next = a] \in NodeType(Len(rx')) /\ [n EXCEPT !.prev = a] \in NodeType(Len(rx'))
<1>1. Len(rx) \in Nat /\ Len(rx') = Len(rx) + 1
  BY LogGrows
<1>2. p.seq \in SeqNumbers /\ p.end \in SeqNumbers
  BY PacketsAssumption DEF HeaderType, SeqNumbers
<1> QED
  BY <1>1, <1>2 DEF Cell, NodeType

LEMMA FirstStep ==
  ASSUME NEW origin \in SeqNumbers, RInv(origin),
         NEW p \in Packets, rx' = Append(rx, p), armed' \in BOOLEAN,
         Fits(origin, p.seq, p.end), EnqueueFirst(Len(rx) + 1, p)
  PROVE  RInv(origin)' /\ Keeps
<1>1. /\ rx \in Seq(Packets) /\ Queue \in Seq(Addresses) /\ Len(Queue) \in Nat
      /\ node \in [Addresses -> NodeType(Len(rx))]
      /\ \A i \in 1..Len(Queue) : Queue[i] \in Addresses
  BY Facts
<1>2. Len(Queue) = 0
  <2>1. head = NULL /\ head = IF Len(Queue) = 0 THEN NULL ELSE Queue[1]
    BY DEF EnqueueFirst, RInv, Linked
  <2>2. Len(Queue) # 0 => 1 \in 1..Len(Queue)
    BY <1>1
  <2> QED
    BY <1>1, <2>1, <2>2, AddressesAssumption
<1>3. Ahead(p) /\ ~Full
  BY DEF EnqueueFirst
<1>4. PICK cell \in Addresses :
        /\ Keep(cell, 1)
        /\ node' = [node EXCEPT ![cell] = Cell(Len(rx) + 1, p, NULL, NULL)]
        /\ head' = cell /\ tail' = cell
  BY DEF EnqueueFirst
<1>5. PICK k : k = 1
  OBVIOUS
<1>6. Inserts(k, cell, p)
  <2>1. node' \in [Addresses -> NodeType(Len(rx'))]
    <3>1. Cell(Len(rx) + 1, p, NULL, NULL) \in NodeType(Len(rx')) /\ NodeType(Len(rx)) \subseteq NodeType(Len(rx'))
      BY <1>1, CellType
    <3> QED
      BY <1>1, <1>4, <3>1
  <2>2. node'[cell] = Cell(Len(rx) + 1, p, NULL, NULL)
    BY <1>1, <1>4
  <2>3. /\ node'[cell].entry = Len(rx) + 1 /\ node'[cell].seq = p.seq /\ node'[cell].end = p.end
        /\ node'[cell].next = NULL
    BY <2>2 DEF Cell
  <2>4. ~(k <= Len(Queue)) /\ ~(k > 1) /\ k = Len(Queue) + 1
    BY <1>2, <1>5
  <2>5. \A i \in 1..Len(Queue) : FALSE
    BY <1>2
  <2>6. \A i \in 2..Len(Queue) : FALSE
    BY <1>2
  <2> QED
    BY <1>4, <1>5, <2>1, <2>3, <2>4, <2>5, <2>6 DEF Inserts
<1>7. k \in 1..(Len(Queue) + 1) /\ (\A i \in 1..(k - 1) : FALSE) /\ (\A i \in k..Len(Queue) : FALSE)
  BY <1>2, <1>5
<1>8. /\ cell \in Addresses \ allocated /\ allocated' = allocated \cup {cell} /\ count' = 1
      /\ given' = given /\ seq_next' = seq_next
  BY <1>4 DEF Keep
<1>9. count' \in Nat /\ Len(Queue) + 1 <= count' /\ count' <= MAX_REORDER_COUNT + 1
  BY <1>2, <1>8, LimitAssumption
<1>10. IsData(p) /\ NotAfter(seq_next, p.seq)
  BY <1>3, WalksFacts
<1> QED
  BY <1>6, <1>7, <1>8, <1>9, <1>10, InsertStep

(* A cell that kmalloc hands out is none of the list.                      *)
LEMMA FreshCell ==
  ASSUME NEW origin \in SeqNumbers, RInv(origin), NEW cell \in Addresses \ allocated
  PROVE  \A i \in 1..Len(Queue) : Queue[i] # cell
BY Facts

LEMMA HeadTail ==
  ASSUME NEW origin \in SeqNumbers, RInv(origin), head # NULL
  PROVE  /\ Len(Queue) \in Nat /\ 1 \in 1..Len(Queue) /\ Len(Queue) \in 1..Len(Queue)
         /\ head = Queue[1] /\ tail = Queue[Len(Queue)]
         /\ head \in Addresses /\ tail \in Addresses /\ head \in allocated /\ tail \in allocated
<1>1. Len(Queue) \in Nat
  BY Facts
<1>2. /\ head = IF Len(Queue) = 0 THEN NULL ELSE Queue[1]
      /\ tail = IF Len(Queue) = 0 THEN NULL ELSE Queue[Len(Queue)]
  BY DEF RInv, Linked
<1>3. 1 \in 1..Len(Queue) /\ Len(Queue) \in 1..Len(Queue) /\ Len(Queue) # 0
  BY <1>1, <1>2
<1>4. head = Queue[1] /\ tail = Queue[Len(Queue)]
  BY <1>2, <1>3
<1>5. \A i \in 1..Len(Queue) : Queue[i] \in Addresses /\ Queue[i] \in allocated
  BY Facts
<1> QED
  BY <1>1, <1>3, <1>4, <1>5

(* The ends ascend as well.                                                *)
LEMMA EndsAscend ==
  ASSUME NEW origin \in SeqNumbers, RInv(origin),
         NEW i \in 1..Len(Queue), NEW j \in i..Len(Queue)
  PROVE  Offset(origin, node[Queue[i]].end) <= Offset(origin, node[Queue[j]].end)
<1>1. Len(Queue) \in Nat /\ j \in 1..Len(Queue) /\ (i = j \/ i < j)
  BY Facts
<1>2. /\ Offset(origin, node[Queue[i]].end) \in Nat /\ Offset(origin, node[Queue[j]].end) \in Nat
      /\ Offset(origin, node[Queue[j]].seq) \in Nat
      /\ Offset(origin, node[Queue[j]].seq) < Offset(origin, node[Queue[j]].end)
  BY <1>1, Facts
<1>3. CASE i < j
  <2>1. Offset(origin, node[Queue[i]].end) <= Offset(origin, node[Queue[j]].seq)
    BY <1>1, <1>3 DEF RInv, Sorts
  <2> QED
    BY <1>2, <2>1
<1> QED
  BY <1>1, <1>2, <1>3

(* The packet goes behind the tail.                                        *)
LEMMA TailStep ==
  ASSUME NEW origin \in SeqNumbers, RInv(origin),
         NEW p \in Packets, rx' = Append(rx, p), armed' \in BOOLEAN,
         Fits(origin, p.seq, p.end), EnqueueTail(Len(rx) + 1, p)
  PROVE  RInv(origin)' /\ Keeps
<1>1. /\ rx \in Seq(Packets) /\ Queue \in Seq(Addresses)
      /\ node \in [Addresses -> NodeType(Len(rx))]
  BY Facts
<1>2. Ahead(p) /\ ~Full /\ head # NULL /\ ~Before(p.seq, node[tail].end)
  BY DEF EnqueueTail, Walks
<1>3. PICK cell \in Addresses :
        /\ Keep(cell, count + 1)
        /\ node' = [node EXCEPT ![cell] = Cell(Len(rx) + 1, p, tail, NULL), ![tail].next = cell]
        /\ tail' = cell
  BY DEF EnqueueTail
<1>4. head' = head
  BY DEF EnqueueTail
<1>5. PICK n, k : n = Len(Queue) /\ k = n + 1
  OBVIOUS
<1>6. /\ n \in Nat /\ n \in 1..n /\ tail = Queue[n] /\ tail \in Addresses /\ tail \in allocated
      /\ n \in 1..Len(Queue)
  BY <1>2, <1>5, HeadTail
<1>7. /\ cell \in Addresses \ allocated /\ allocated' = allocated \cup {cell} /\ count' = count + 1
      /\ given' = given /\ seq_next' = seq_next
  BY <1>3 DEF Keep
<1>8. \A i \in 1..Len(Queue) : Queue[i] # cell /\ Queue[i] \in Addresses
  BY <1>7, FreshCell, Facts
<1>9. \A i \in 1..Len(Queue) : Queue[i] = tail <=> i = n
  BY <1>6 DEF RInv, Linked
<1>10. Inserts(k, cell, p)
  <2>1. node' \in [Addresses -> NodeType(Len(rx'))]
    <3>1. /\ Cell(Len(rx) + 1, p, tail, NULL) \in NodeType(Len(rx'))
          /\ NodeType(Len(rx)) \subseteq NodeType(Len(rx'))
          /\ [node[tail] EXCEPT !.next = cell] \in NodeType(Len(rx'))
      BY <1>1, <1>6, CellType
    <3> QED
      BY <1>1, <1>3, <1>6, <1>7, <3>1
  <2>2. /\ node'[cell] = Cell(Len(rx) + 1, p, tail, NULL)
        /\ node'[tail] = [node[tail] EXCEPT !.next = cell]
        /\ \A a \in Addresses : a # cell /\ a # tail => node'[a] = node[a]
    BY <1>1, <1>3, <1>6, <1>7
  <2>3. /\ node'[cell].entry = Len(rx) + 1 /\ node'[cell].seq = p.seq /\ node'[cell].end = p.end
        /\ node'[cell].next = NULL /\ node'[cell].prev = tail
    BY <2>2 DEF Cell
  <2>4. /\ node'[tail].entry = node[tail].entry /\ node'[tail].seq = node[tail].seq
        /\ node'[tail].end = node[tail].end /\ node'[tail].prev = node[tail].prev
        /\ node'[tail].next = cell
    BY <1>1, <1>6, <2>2 DEF NodeType
  <2>5. ~(k <= Len(Queue)) /\ k > 1 /\ k = Len(Queue) + 1 /\ k - 1 = n /\ k # 1
    BY <1>5, <1>6
  <2>6. \A i \in 1..Len(Queue) : /\ node'[Queue[i]].entry = node[Queue[i]].entry
                                 /\ node'[Queue[i]].seq = node[Queue[i]].seq
                                 /\ node'[Queue[i]].end = node[Queue[i]].end
                                 /\ node'[Queue[i]].prev = node[Queue[i]].prev
                                 /\ i # k - 1 => node'[Queue[i]].next = node[Queue[i]].next
    BY <1>8, <1>9, <2>2, <2>4, <2>5
  <2>7. \A i \in 2..Len(Queue) : i \in 1..Len(Queue)
    BY <1>5, <1>6
  <2>8. \A i \in 2..Len(Queue) : node'[Queue[i]].prev = node[Queue[i]].prev
    BY <2>6, <2>7
  <2>9. node'[cell].prev = Queue[k - 1] /\ node'[Queue[k - 1]].next = cell
    BY <1>6, <2>3, <2>4, <2>5
  <2> QED
    BY <1>3, <1>4, <2>1, <2>3, <2>5, <2>6, <2>8, <2>9 DEF Inserts
<1>11. /\ IsData(p) /\ NotAfter(seq_next, p.seq)
       /\ count \in Nat /\ count + 1 <= MAX_REORDER_COUNT + 1 /\ Len(Queue) + 1 <= count + 1
       /\ p.seq \in Window(origin) /\ p.end \in Window(origin)
       /\ Offset(origin, p.seq) \in Nat /\ Offset(origin, p.end) \in Nat
  BY <1>2, WalksFacts
<1>12. ASSUME NEW i \in 1..(k - 1)
       PROVE  Offset(origin, node[Queue[i]].end) <= Offset(origin, p.seq)
  <2>1. i \in 1..Len(Queue) /\ n \in i..Len(Queue)
    BY <1>5, <1>6
  <2>2. PICK a, b : a = node[Queue[i]].end /\ b = node[Queue[n]].end
    OBVIOUS
  <2>3. /\ a \in Window(origin) /\ b \in Window(origin)
        /\ Offset(origin, a) \in Nat /\ Offset(origin, b) \in Nat
    BY <1>6, <2>1, <2>2, Facts
  <2>4. Offset(origin, a) <= Offset(origin, b)
    BY <2>1, <2>2, EndsAscend
  <2>5. ~(Offset(origin, p.seq) < Offset(origin, b))
    BY <1>2, <1>6, <1>11, <2>2, <2>3, WindowOrder
  <2> QED
    BY <1>11, <2>2, <2>3, <2>4, <2>5
<1>13. \A i \in k..Len(Queue) : FALSE
  BY <1>5, <1>6
<1>14. k \in 1..(Len(Queue) + 1) /\ count' \in Nat /\ Len(Queue) + 1 <= count' /\ count' <= MAX_REORDER_COUNT + 1
  BY <1>5, <1>6, <1>7, <1>11
<1> QED
  BY <1>7, <1>10, <1>11, <1>12, <1>13, <1>14, InsertStep

(* The node where the walk stops has no prev: it is the head.              *)
LEMMA HeadStep ==
  ASSUME NEW origin \in SeqNumbers, RInv(origin),
         NEW p \in Packets, rx' = Append(rx, p), armed' \in BOOLEAN,
         Fits(origin, p.seq, p.end), EnqueueHead(Len(rx) + 1, p)
  PROVE  RInv(origin)' /\ Keeps
<1>1. /\ rx \in Seq(Packets) /\ Queue \in Seq(Addresses)
      /\ node \in [Addresses -> NodeType(Len(rx))]
  BY Facts
<1>2. Ahead(p) /\ ~Full /\ head # NULL /\ Stop(p) # NULL /\ node[Stop(p)].prev = NULL /\ tail' = tail
  BY DEF EnqueueHead, Walks
<1>3. PICK cell \in Addresses :
        /\ Keep(cell, count + 1)
        /\ node' = [node EXCEPT ![cell] = Cell(Len(rx) + 1, p, NULL, head), ![head].prev = cell]
        /\ head' = cell
  BY DEF EnqueueHead
<1>4. /\ IsData(p) /\ NotAfter(seq_next, p.seq)
      /\ count \in Nat /\ count + 1 <= MAX_REORDER_COUNT + 1 /\ Len(Queue) + 1 <= count + 1
      /\ p.end \in Window(origin) /\ Offset(origin, p.end) \in Nat
  BY <1>2, WalksFacts
<1>5. PICK j \in 1..Len(Queue) :
        Stop(p) = Queue[j] /\ Offset(origin, p.end) <= Offset(origin, node[Queue[j]].seq)
  BY <1>2, <1>4, StopIs
<1>6. /\ Len(Queue) \in Nat /\ 1 \in 1..Len(Queue) /\ head = Queue[1] /\ head \in Addresses
      /\ head \in allocated
  BY <1>2, HeadTail
<1>7. j = 1
  <2> SUFFICES ASSUME j # 1 PROVE FALSE
    OBVIOUS
  <2>1. j \in 2..Len(Queue) /\ j - 1 \in 1..Len(Queue)
    BY <1>6
  <2>2. node[Queue[j]].prev = Queue[j - 1]
    BY <2>1 DEF RInv, Linked
  <2>3. Queue[j - 1] \in Addresses
    BY <2>1, Facts
  <2> QED
    BY <1>2, <1>5, <2>2, <2>3, AddressesAssumption
<1>8. /\ cell \in Addresses \ allocated /\ allocated' = allocated \cup {cell} /\ count' = count + 1
      /\ given' = given /\ seq_next' = seq_next
  BY <1>3 DEF Keep
<1>9. \A i \in 1..Len(Queue) : Queue[i] # cell /\ Queue[i] \in Addresses
  BY <1>8, FreshCell, Facts
<1>10. \A i \in 1..Len(Queue) : Queue[i] = head <=> i = 1
  BY <1>6 DEF RInv, Linked
<1>11. PICK k : k = 1
  OBVIOUS
<1>12. Inserts(k, cell, p)
  <2>1. node' \in [Addresses -> NodeType(Len(rx'))]
    <3>1. /\ Cell(Len(rx) + 1, p, NULL, head) \in NodeType(Len(rx'))
          /\ NodeType(Len(rx)) \subseteq NodeType(Len(rx'))
          /\ [node[head] EXCEPT !.prev = cell] \in NodeType(Len(rx'))
      BY <1>1, <1>6, CellType
    <3> QED
      BY <1>1, <1>3, <1>6, <1>8, <3>1
  <2>2. /\ node'[cell] = Cell(Len(rx) + 1, p, NULL, head)
        /\ node'[head] = [node[head] EXCEPT !.prev = cell]
        /\ \A a \in Addresses : a # cell /\ a # head => node'[a] = node[a]
    BY <1>1, <1>3, <1>6, <1>8
  <2>3. /\ node'[cell].entry = Len(rx) + 1 /\ node'[cell].seq = p.seq /\ node'[cell].end = p.end
        /\ node'[cell].next = head
    BY <2>2 DEF Cell
  <2>4. /\ node'[head].entry = node[head].entry /\ node'[head].seq = node[head].seq
        /\ node'[head].end = node[head].end /\ node'[head].next = node[head].next
        /\ node'[head].prev = cell
    BY <1>1, <1>6, <2>2 DEF NodeType
  <2>5. k <= Len(Queue) /\ ~(k > 1) /\ k # Len(Queue) + 1 /\ Queue[k] = head
    BY <1>6, <1>11
  <2>6. \A i \in 1..Len(Queue) : /\ node'[Queue[i]].entry = node[Queue[i]].entry
                                 /\ node'[Queue[i]].seq = node[Queue[i]].seq
                                 /\ node'[Queue[i]].end = node[Queue[i]].end
                                 /\ node'[Queue[i]].next = node[Queue[i]].next
    BY <1>9, <1>10, <2>2, <2>4
  <2>7. \A i \in 2..Len(Queue) : i \in 1..Len(Queue) /\ i # 1
    BY <1>6
  <2>8. \A i \in 2..Len(Queue) : node'[Queue[i]].prev = node[Queue[i]].prev
    BY <1>9, <1>10, <2>2, <2>7
  <2> QED
    BY <1>2, <1>3, <1>11, <2>1, <2>3, <2>4, <2>5, <2>6, <2>8 DEF Inserts
<1>13. ASSUME NEW i \in k..Len(Queue)
       PROVE  Offset(origin, p.end) <= Offset(origin, node[Queue[i]].seq)
  <2>1. i \in 1..Len(Queue) /\ i \in 1..Len(Queue) /\ 1 \in 1..Len(Queue)
    BY <1>6, <1>11
  <2>2. Offset(origin, node[Queue[1]].seq) <= Offset(origin, node[Queue[i]].seq)
    BY <2>1, StartsAscend
  <2>3. Offset(origin, node[Queue[1]].seq) \in Nat /\ Offset(origin, node[Queue[i]].seq) \in Nat
    BY <2>1, Facts
  <2> QED
    BY <1>4, <1>5, <1>7, <2>2, <2>3
<1>14. \A i \in 1..(k - 1) : FALSE
  BY <1>11
<1>15. k \in 1..(Len(Queue) + 1) /\ count' \in Nat /\ Len(Queue) + 1 <= count' /\ count' <= MAX_REORDER_COUNT + 1
  BY <1>4, <1>6, <1>8, <1>11
<1> QED
  BY <1>4, <1>8, <1>12, <1>13, <1>14, <1>15, InsertStep

(* The node in front of the one where the walk stops overlaps the packet,  *)
(* or so the handler thinks.                                               *)
LEMMA OverPrevFlushes ==
  ASSUME NEW origin \in SeqNumbers, RInv(origin), NEW p \in Packets,
         Fits(origin, p.seq, p.end), EnqueueOverPrev(Len(rx) + 1, p)
  PROVE  \E k \in 0..Len(Queue) :
           /\ FlushAndAccept(k, Len(rx) + 1, p)
           /\ \A i \in (k + 1)..Len(Queue) :
                NotAfter(Later(FlushedTo(k), p.end), node[Queue[i]].seq)
<1>1. Ahead(p) /\ ~Full /\ Stop(p) # NULL
  BY DEF EnqueueOverPrev, Walks
<1>2. /\ Later(seq_next, p.end) = p.end
      /\ p.end \in Window(origin) /\ Offset(origin, p.end) \in Nat
  BY <1>1, WalksFacts
<1>3. PICK k \in 1..Len(Queue) :
        Stop(p) = Queue[k] /\ Offset(origin, p.end) <= Offset(origin, node[Queue[k]].seq)
  BY <1>1, <1>2, StopIs
<1>4. PICK j \in 1..Len(Queue) : Queue[j] = Stop(p) /\ FlushAndAccept(j - 1, Len(rx) + 1, p)
  BY DEF EnqueueOverPrev
<1>5. j = k
  BY <1>3, <1>4 DEF RInv, Linked
<1>6. PICK m : m = k - 1
  OBVIOUS
<1>7. Len(Queue) \in Nat /\ m \in 0..Len(Queue) /\ m + 1 = k /\ FlushAndAccept(m, Len(rx) + 1, p)
  BY <1>4, <1>5, <1>6, Facts
<1>8. ASSUME NEW i \in (m + 1)..Len(Queue)
      PROVE  NotAfter(Later(FlushedTo(m), p.end), node[Queue[i]].seq)
  <2>1. i \in 1..Len(Queue) /\ i \in k..Len(Queue)
    BY <1>7
  <2>2. PICK a, b : a = node[Queue[k]].seq /\ b = node[Queue[i]].seq
    OBVIOUS
  <2>3. /\ a \in Window(origin) /\ b \in Window(origin) /\ Offset(origin, a) <= Offset(origin, b)
        /\ Offset(origin, a) \in Nat /\ Offset(origin, b) \in Nat
    BY <2>1, <2>2, Facts, StartsAscend
  <2>4. NotAfter(p.end, b)
    <3>1. Offset(origin, p.end) <= Offset(origin, b)
      BY <1>2, <1>3, <2>2, <2>3
    <3> QED
      BY <1>2, <2>3, <3>1, WindowOrder
  <2>5. CASE m = 0
    BY <1>2, <2>2, <2>4, <2>5 DEF FlushedTo
  <2>6. CASE m # 0
    <3>1. m \in 1..Len(Queue) /\ m < k
      BY <1>7, <2>6
    <3>2. PICK c : c = node[Queue[m]].end
      OBVIOUS
    <3>3. c \in Window(origin) /\ Offset(origin, c) \in Nat /\ Offset(origin, c) <= Offset(origin, a)
      BY <2>2, <3>1, <3>2, Facts DEF RInv, Sorts
    <3>4. Offset(origin, c) <= Offset(origin, b)
      BY <2>3, <3>3
    <3>5. NotAfter(c, b)
      BY <2>3, <3>3, <3>4, WindowOrder
    <3>6. Later(FlushedTo(m), p.end) \in {c, p.end}
      BY <2>6, <3>2 DEF FlushedTo, Later
    <3> QED
      BY <2>2, <2>4, <3>5, <3>6
  <2> QED
    BY <2>5, <2>6
<1> QED
  BY <1>7, <1>8

LEMMA OverPrevStep ==
  ASSUME NEW origin \in SeqNumbers, RInv(origin),
         NEW p \in Packets, rx' = Append(rx, p), armed' \in BOOLEAN,
         Fits(origin, p.seq, p.end), EnqueueOverPrev(Len(rx) + 1, p)
  PROVE  RInv(origin)' /\ Keeps
BY OverPrevFlushes, FlushStep

LinksBetween(cell, front, stop, p) ==
  /\ node' \in [Addresses -> NodeType(Len(rx'))]
  /\ \A a \in Addresses : a # cell /\ a # front /\ a # stop => node'[a] = node[a]
  /\ \E a \in {front, cell} : node'[stop] = [node[stop] EXCEPT !.prev = a]
  /\ front # cell => node' = [node EXCEPT ![cell] = Cell(Len(rx) + 1, p, front, stop),
                                          ![front].next = cell, ![stop].prev = cell]

(* The four assignments of LinkBetween, when front is what the prev of the *)
(* node at stop names.                                                     *)
LEMMA BetweenCells ==
  ASSUME rx \in Seq(Packets), node \in [Addresses -> NodeType(Len(rx))],
         NEW p \in Packets, rx' = Append(rx, p),
         NEW cell \in Addresses, NEW front \in Addresses, NEW stop \in Addresses,
         Stop(p) = stop, node[stop].prev = front, cell # stop, front # stop,
         node' = LinkBetween(cell, Len(rx) + 1, p)
  PROVE  LinksBetween(cell, front, stop, p)
<1> DEFINE c == Cell(Len(rx) + 1, p, front, stop)
           filled == [node EXCEPT ![cell] = c]
           behind == [filled EXCEPT ![filled[cell].prev].next = cell]
<1>1. /\ c \in NodeType(Len(rx')) /\ NodeType(Len(rx)) \subseteq NodeType(Len(rx'))
      /\ \A n \in NodeType(Len(rx')), a \in Addresses \cup {NULL} :
           [n EXCEPT !.next = a] \in NodeType(Len(rx')) /\ [n EXCEPT !.prev = a] \in NodeType(Len(rx'))
  BY CellType
<1>2. c.prev = front /\ c.next = stop
  BY DEF Cell
<1>3. node' = [behind EXCEPT ![behind[cell].next].prev = cell]
  BY DEF LinkBetween
<1>4. node \in [Addresses -> NodeType(Len(rx'))]
  BY <1>1
<1> HIDE DEF c
<1>5. /\ filled \in [Addresses -> NodeType(Len(rx'))] /\ filled[cell] = c
      /\ \A a \in Addresses : a # cell => filled[a] = node[a]
  BY <1>1, <1>4
<1>6. behind = [filled EXCEPT ![front].next = cell]
  BY <1>2, <1>5
<1> HIDE DEF filled
<1>7. /\ behind \in [Addresses -> NodeType(Len(rx'))]
      /\ behind[front] = [filled[front] EXCEPT !.next = cell]
      /\ \A a \in Addresses : a # front => behind[a] = filled[a]
  <2>1. [filled[front] EXCEPT !.next = cell] \in NodeType(Len(rx'))
    BY <1>1, <1>5
  <2> HIDE DEF behind
  <2> QED
    BY <1>5, <1>6, <2>1
<1> HIDE DEF behind
<1>8. CASE front # cell
  <2>1. behind[cell].next = stop
    BY <1>2, <1>5, <1>7, <1>8
  <2>2. node' = [behind EXCEPT ![stop].prev = cell]
    BY <1>3, <2>1
  <2>3. behind[stop] = node[stop] /\ [node[stop] EXCEPT !.prev = cell] \in NodeType(Len(rx'))
    BY <1>1, <1>4, <1>5, <1>7
  <2>4. /\ node' \in [Addresses -> NodeType(Len(rx'))]
        /\ node'[stop] = [node[stop] EXCEPT !.prev = cell]
        /\ \A a \in Addresses : a # stop => node'[a] = behind[a]
    BY <1>7, <2>2, <2>3
  <2>5. \A a \in Addresses : a # cell /\ a # front /\ a # stop => node'[a] = node[a]
    BY <1>5, <1>7, <2>4
  <2>6. node' = [node EXCEPT ![cell] = c, ![front].next = cell, ![stop].prev = cell]
    <3>1. behind = [node EXCEPT ![cell] = c, ![front].next = cell]
      BY <1>6 DEF filled
    <3> QED
      BY <2>2, <3>1
  <2> QED
    BY <1>8, <2>4, <2>5, <2>6 DEF c, LinksBetween
<1>9. CASE front = cell
  <2>1. behind[cell] = [c EXCEPT !.next = cell]
    BY <1>5, <1>7, <1>9
  <2>2. behind[cell].next = cell
    <3>1. c \in NodeType(Len(rx'))
      BY <1>1
    <3> QED
      BY <2>1, <3>1 DEF NodeType
  <2>3. node' = [behind EXCEPT ![cell].prev = cell]
    BY <1>3, <2>2
  <2>4. [behind[cell] EXCEPT !.prev = cell] \in NodeType(Len(rx'))
    BY <1>1, <1>7
  <2>5. /\ node' \in [Addresses -> NodeType(Len(rx'))]
        /\ \A a \in Addresses : a # cell => node'[a] = behind[a]
    BY <1>7, <2>3, <2>4
  <2>6. \A a \in Addresses : a # cell /\ a # front => node'[a] = node[a]
    BY <1>5, <1>7, <2>5
  <2>7. node'[stop] = node[stop] /\ node[stop] = [node[stop] EXCEPT !.prev = front]
    <3>1. node[stop] \in NodeType(Len(rx))
      OBVIOUS
    <3>2. node[stop] = [node[stop] EXCEPT !.prev = front]
      BY <3>1 DEF NodeType
    <3> QED
      BY <1>9, <2>6, <3>2
  <2> QED
    BY <1>9, <2>5, <2>6, <2>7 DEF LinksBetween
<1> QED
  BY <1>8, <1>9

(* The list is left as it is, whatever happens to the cells around it and  *)
(* to the prev of its head.                                                *)
LEMMA AsideStep ==
  ASSUME NEW origin \in SeqNumbers, RInv(origin),
         NEW p \in Packets, rx' = Append(rx, p), armed' \in BOOLEAN,
         node' \in [Addresses -> NodeType(Len(rx'))],
         \A i \in 1..Len(Queue) : /\ node'[Queue[i]].entry = node[Queue[i]].entry
                                  /\ node'[Queue[i]].seq = node[Queue[i]].seq
                                  /\ node'[Queue[i]].end = node[Queue[i]].end
                                  /\ node'[Queue[i]].next = node[Queue[i]].next
                                  /\ i # 1 => node'[Queue[i]].prev = node[Queue[i]].prev,
         NEW cell \in Addresses, allocated' = allocated \cup {cell},
         UNCHANGED <<given, seq_next, head, tail>>,
         count' \in Nat, count <= count', count' <= MAX_REORDER_COUNT + 1
  PROVE  RInv(origin)' /\ Seen' = Seen
<1> DEFINE w == Queue
<1>1. /\ rx \in Seq(Packets) /\ Len(rx) \in Nat /\ w \in Seq(Addresses) /\ Len(w) \in Nat
      /\ given \in Seq(1..Len(rx))
      /\ Entries(w, node) \in Seq(1..Len(rx)) /\ Len(Entries(w, node)) = Len(w)
      /\ Seen = given \o Entries(w, node) /\ Once(Seen)
  BY Facts DEF Seen, RInv
<1>2. /\ rx' \in Seq(Packets) /\ Len(rx') = Len(rx) + 1
      /\ \A i \in 1..Len(rx) : i \in 1..Len(rx') /\ rx'[i] = rx[i]
  BY <1>1, LogGrows
<1>3. /\ Linked(w, head, tail, node, allocated) /\ Carries(w, node, rx)
      /\ Within(w, node, origin) /\ Sorts(w, node, origin) /\ Behind(w, node, seq_next)
      /\ allocated \subseteq Addresses /\ seq_next \in SeqNumbers
      /\ Len(w) <= count /\ count \in Nat
  BY DEF RInv, TypeOK, SeqNumbers
<1>4. \A i \in 1..Len(w) : /\ node'[w[i]].entry = node[w[i]].entry
                           /\ node'[w[i]].seq = node[w[i]].seq
                           /\ node'[w[i]].end = node[w[i]].end
                           /\ node'[w[i]].next = node[w[i]].next
                           /\ i # 1 => node'[w[i]].prev = node[w[i]].prev
  OBVIOUS
<1> HIDE DEF w
<1>5. Linked(w, head', tail', node', allocated')
  <2>1. \A i \in 2..Len(w) : i \in 1..Len(w) /\ i # 1
    BY <1>1
  <2>2. \A i \in 2..Len(w) : node'[w[i]].prev = w[i - 1]
    BY <1>3, <1>4, <2>1 DEF Linked
  <2>3. \A i \in 1..Len(w) : node'[w[i]].next = IF i < Len(w) THEN w[i + 1] ELSE NULL
    BY <1>3, <1>4 DEF Linked
  <2> QED
    BY <1>3, <2>2, <2>3 DEF Linked
<1>6. Carries(w, node', rx')
  <2> SUFFICES ASSUME NEW i \in 1..Len(w)
               PROVE  /\ node'[w[i]].entry \in 1..Len(rx')
                      /\ IsData(rx'[node'[w[i]].entry])
                      /\ node'[w[i]].seq = rx'[node'[w[i]].entry].seq
                      /\ node'[w[i]].end = rx'[node'[w[i]].entry].end
    BY DEF Carries
  <2>1. /\ node[w[i]].entry \in 1..Len(rx)
        /\ IsData(rx[node[w[i]].entry])
        /\ node[w[i]].seq = rx[node[w[i]].entry].seq
        /\ node[w[i]].end = rx[node[w[i]].entry].end
    BY <1>3 DEF Carries
  <2> QED
    BY <1>2, <1>4, <2>1
<1>7. Within(w, node', origin) /\ Sorts(w, node', origin) /\ Behind(w, node', seq_next')
  BY <1>3, <1>4 DEF Within, Sorts, Behind
<1>8. Entries(w, node') = Entries(w, node)
  BY <1>4 DEF Entries
<1>9. Once(given' \o Entries(w, node')) /\ given' \in Seq(1..Len(rx'))
  <2>1. 1..Len(rx) \subseteq 1..Len(rx')
    BY <1>1, <1>2
  <2> QED
    BY <1>1, <1>8, <2>1, SeqMonotonic
<1>10. Len(w) <= count'
  BY <1>1, <1>3
<1>11. RInv(origin)' /\ Seen' = given' \o Entries(w, node')
  BY <1>2, <1>3, <1>5, <1>6, <1>7, <1>9, <1>10, Becomes
<1> QED
  BY <1>1, <1>8, <1>11

(* The packet goes in front of a node with a prev: that is the node in     *)
(* front, or what is left of one.                                          *)
LEMMA BetweenStep ==
  ASSUME NEW origin \in SeqNumbers, RInv(origin),
         NEW p \in Packets, rx' = Append(rx, p), armed' \in BOOLEAN,
         Fits(origin, p.seq, p.end), EnqueueBetween(Len(rx) + 1, p)
  PROVE  RInv(origin)' /\ (Keeps \/ Loses)
<1>1. /\ rx \in Seq(Packets) /\ Queue \in Seq(Addresses)
      /\ node \in [Addresses -> NodeType(Len(rx))]
  BY Facts
<1>2. /\ Ahead(p) /\ ~Full /\ head # NULL /\ Stop(p) # NULL /\ node[Stop(p)].prev # NULL
      /\ FALSE \in OverlapsPrev(p) /\ head' = head /\ tail' = tail
  BY DEF EnqueueBetween, Walks
<1>3. PICK cell \in Addresses : Keep(cell, count + 1) /\ node' = LinkBetween(cell, Len(rx) + 1, p)
  BY DEF EnqueueBetween
<1>4. /\ IsData(p) /\ NotAfter(seq_next, p.seq)
      /\ count \in Nat /\ count + 1 <= MAX_REORDER_COUNT + 1 /\ Len(Queue) + 1 <= count + 1
      /\ p.seq \in Window(origin) /\ p.end \in Window(origin)
      /\ Offset(origin, p.seq) \in Nat /\ Offset(origin, p.end) \in Nat
      /\ Offset(origin, p.seq) < Offset(origin, p.end)
  BY <1>2, WalksFacts
<1>5. PICK k \in 1..Len(Queue) :
        Stop(p) = Queue[k] /\ Offset(origin, p.end) <= Offset(origin, node[Queue[k]].seq)
  BY <1>2, <1>4, StopIs
<1>6. /\ Len(Queue) \in Nat /\ head = Queue[1] /\ 1 \in 1..Len(Queue)
  BY <1>2, HeadTail
<1>7. PICK stop, front : stop = Queue[k] /\ front = node[stop].prev
  OBVIOUS
<1>8. /\ stop \in Addresses /\ stop \in allocated /\ Stop(p) = stop
      /\ front \in Addresses /\ node[stop].prev = front
  <2>1. stop \in Addresses /\ stop \in allocated
    BY <1>7, Facts
  <2>2. node[stop].prev \in Addresses \cup {NULL}
    BY <1>1, <2>1 DEF NodeType
  <2> QED
    BY <1>2, <1>5, <1>7, <2>1, <2>2
<1>9. /\ cell \in Addresses \ allocated /\ allocated' = allocated \cup {cell} /\ count' = count + 1
      /\ given' = given /\ seq_next' = seq_next
  BY <1>3 DEF Keep
<1>10. \A i \in 1..Len(Queue) : Queue[i] # cell /\ Queue[i] \in Addresses /\ Queue[i] \in allocated
  BY <1>9, FreshCell, Facts
<1>11. \A i, j \in 1..Len(Queue) : Queue[i] = Queue[j] => i = j
  BY DEF RInv, Linked
<1>12. front \in allocated => ~Before(p.seq, node[front].end)
  BY <1>2, <1>8 DEF OverlapsPrev
<1>13. cell # stop
  BY <1>8, <1>9
<1>19. ASSUME front # stop PROVE LinksBetween(cell, front, stop, p)
  <2>1. rx' = Append(rx, p) /\ node' = LinkBetween(cell, Len(rx) + 1, p) /\ front # stop
    BY <1>3, <1>19
  <2> QED
    BY <1>1, <1>8, <1>13, <2>1, BetweenCells
<1>14. ASSUME NEW i \in k..Len(Queue)
       PROVE  Offset(origin, p.end) <= Offset(origin, node[Queue[i]].seq)
  <2>1. i \in 1..Len(Queue)
    BY <1>6
  <2>2. Offset(origin, node[Queue[k]].seq) <= Offset(origin, node[Queue[i]].seq)
    BY <2>1, StartsAscend
  <2>3. Offset(origin, node[Queue[k]].seq) \in Nat /\ Offset(origin, node[Queue[i]].seq) \in Nat
    BY <2>1, Facts
  <2> QED
    BY <1>4, <1>5, <2>2, <2>3
<1>15. /\ count' \in Nat /\ Len(Queue) + 1 <= count' /\ count <= count'
       /\ count' <= MAX_REORDER_COUNT + 1
  BY <1>4, <1>9
<1>16. CASE k > 1
  <2>1. PICK m : m = k - 1
    OBVIOUS
  <2>2. m \in 1..Len(Queue) /\ k \in 2..Len(Queue) /\ m # k /\ front = Queue[m]
    <3>1. m \in 1..Len(Queue) /\ k \in 2..Len(Queue) /\ m # k
      BY <1>6, <1>16, <2>1
    <3> QED
      BY <1>7, <2>1, <3>1 DEF RInv, Linked
  <2>3. front # cell /\ front # stop /\ front \in allocated
    BY <1>7, <1>10, <1>11, <2>2
  <2>4. /\ node' \in [Addresses -> NodeType(Len(rx'))]
        /\ node' = [node EXCEPT ![cell] = Cell(Len(rx) + 1, p, front, stop),
                                ![front].next = cell, ![stop].prev = cell]
    BY <1>19, <2>3 DEF LinksBetween
  <2>5. /\ node'[cell] = Cell(Len(rx) + 1, p, front, stop)
        /\ node'[front] = [node[front] EXCEPT !.next = cell]
        /\ node'[stop] = [node[stop] EXCEPT !.prev = cell]
        /\ \A a \in Addresses : a # cell /\ a # front /\ a # stop => node'[a] = node[a]
    BY <1>1, <1>8, <1>9, <1>13, <2>3, <2>4
  <2>6. /\ node'[cell].entry = Len(rx) + 1 /\ node'[cell].seq = p.seq /\ node'[cell].end = p.end
        /\ node'[cell].next = stop /\ node'[cell].prev = front
    BY <2>5 DEF Cell
  <2>7. /\ node'[front].entry = node[front].entry /\ node'[front].seq = node[front].seq
        /\ node'[front].end = node[front].end /\ node'[front].prev = node[front].prev
        /\ node'[front].next = cell
    BY <1>1, <1>8, <2>5 DEF NodeType
  <2>8. /\ node'[stop].entry = node[stop].entry /\ node'[stop].seq = node[stop].seq
        /\ node'[stop].end = node[stop].end /\ node'[stop].next = node[stop].next
        /\ node'[stop].prev = cell
    BY <1>1, <1>8, <2>5 DEF NodeType
  <2>9. \A i \in 1..Len(Queue) : (Queue[i] = front <=> i = m) /\ (Queue[i] = stop <=> i = k)
    BY <1>7, <1>11, <2>2
  <2>10. \A i \in 1..Len(Queue) : /\ node'[Queue[i]].entry = node[Queue[i]].entry
                                  /\ node'[Queue[i]].seq = node[Queue[i]].seq
                                  /\ node'[Queue[i]].end = node[Queue[i]].end
                                  /\ i # m => node'[Queue[i]].next = node[Queue[i]].next
                                  /\ i # k => node'[Queue[i]].prev = node[Queue[i]].prev
    <3> SUFFICES ASSUME NEW i \in 1..Len(Queue)
                 PROVE  /\ node'[Queue[i]].entry = node[Queue[i]].entry
                        /\ node'[Queue[i]].seq = node[Queue[i]].seq
                        /\ node'[Queue[i]].end = node[Queue[i]].end
                        /\ i # m => node'[Queue[i]].next = node[Queue[i]].next
                        /\ i # k => node'[Queue[i]].prev = node[Queue[i]].prev
      OBVIOUS
    <3>1. CASE i = m
      BY <2>2, <2>7, <3>1
    <3>2. CASE i = k
      BY <1>7, <2>8, <3>2
    <3>3. CASE i # m /\ i # k
      <4>1. node'[Queue[i]] = node[Queue[i]]
        BY <1>10, <2>5, <2>9, <3>3
      <4> QED
        BY <4>1
    <3> QED
      BY <3>1, <3>2, <3>3
  <2>11. Inserts(k, cell, p)
    <3>1. k <= Len(Queue) /\ k > 1 /\ k # 1 /\ k # Len(Queue) + 1 /\ k - 1 = m
      BY <1>6, <2>1, <2>2
    <3>2. \A i \in 2..Len(Queue) : i \in 1..Len(Queue)
      BY <1>6
    <3>3. \A i \in 2..Len(Queue) : i # k => node'[Queue[i]].prev = node[Queue[i]].prev
      BY <2>10, <3>2
    <3>4. node'[cell].next = Queue[k] /\ node'[cell].prev = Queue[k - 1]
          /\ node'[Queue[k - 1]].next = cell /\ node'[Queue[k]].prev = cell
      BY <1>7, <2>1, <2>2, <2>6, <2>7, <2>8
    <3>5. \A i \in 1..Len(Queue) : /\ node'[Queue[i]].entry = node[Queue[i]].entry
                                   /\ node'[Queue[i]].seq = node[Queue[i]].seq
                                   /\ node'[Queue[i]].end = node[Queue[i]].end
                                   /\ i # k - 1 => node'[Queue[i]].next = node[Queue[i]].next
      BY <2>1, <2>10
    <3> QED
      BY <1>2, <2>4, <2>6, <3>1, <3>3, <3>4, <3>5 DEF Inserts
  <2>12. ASSUME NEW i \in 1..(k - 1)
         PROVE  Offset(origin, node[Queue[i]].end) <= Offset(origin, p.seq)
    <3>1. i \in 1..Len(Queue) /\ m \in i..Len(Queue)
      BY <1>6, <2>1, <2>2
    <3>2. PICK a, b : a = node[Queue[i]].end /\ b = node[Queue[m]].end
      OBVIOUS
    <3>3. /\ a \in Window(origin) /\ b \in Window(origin)
          /\ Offset(origin, a) \in Nat /\ Offset(origin, b) \in Nat
      BY <2>2, <3>1, <3>2, Facts
    <3>4. Offset(origin, a) <= Offset(origin, b)
      BY <3>1, <3>2, EndsAscend
    <3>5. ~Before(p.seq, b)
      BY <1>12, <2>2, <2>3, <3>2
    <3>6. ~(Offset(origin, p.seq) < Offset(origin, b))
      BY <1>4, <3>3, <3>5, WindowOrder
    <3> QED
      BY <1>4, <3>2, <3>3, <3>4, <3>6
  <2>13. k \in 1..(Len(Queue) + 1)
    BY <1>6
  <2>14. RInv(origin)' /\ Keeps
    BY <1>4, <1>9, <1>14, <1>15, <2>11, <2>12, <2>13, InsertStep
  <2> QED
    BY <2>14
<1>17. CASE k = 1
  <2>1. front \notin Elements(Queue)
    <3> SUFFICES ASSUME NEW i \in 1..Len(Queue), front = Queue[i] PROVE FALSE
      BY DEF Elements
    <3>1. i \in k..Len(Queue)
      BY <1>6, <1>17
    <3>2. PICK a, b : a = node[Queue[i]].seq /\ b = node[Queue[i]].end
      OBVIOUS
    <3>3. /\ b \in Window(origin) /\ Offset(origin, a) \in Nat /\ Offset(origin, b) \in Nat
          /\ Offset(origin, a) < Offset(origin, b)
      BY <3>2, Facts
    <3>4. Offset(origin, p.end) <= Offset(origin, a)
      BY <1>14, <3>1, <3>2
    <3>5. Offset(origin, p.seq) < Offset(origin, b)
      BY <1>4, <3>3, <3>4
    <3>6. Before(p.seq, b)
      BY <1>4, <3>3, <3>5, WindowOrder
    <3> QED
      BY <1>10, <1>12, <3>2, <3>6
  <2>2. front # stop
    BY <1>7, <2>1 DEF Elements
  <2>3. /\ node' \in [Addresses -> NodeType(Len(rx'))]
        /\ \A a \in Addresses : a # cell /\ a # front /\ a # stop => node'[a] = node[a]
        /\ \E a \in {front, cell} : node'[stop] = [node[stop] EXCEPT !.prev = a]
    BY <1>19, <2>2 DEF LinksBetween
  <2>4. /\ node'[stop].entry = node[stop].entry /\ node'[stop].seq = node[stop].seq
        /\ node'[stop].end = node[stop].end /\ node'[stop].next = node[stop].next
    BY <1>1, <1>8, <2>3 DEF NodeType
  <2>5. \A i \in 1..Len(Queue) : /\ node'[Queue[i]].entry = node[Queue[i]].entry
                                 /\ node'[Queue[i]].seq = node[Queue[i]].seq
                                 /\ node'[Queue[i]].end = node[Queue[i]].end
                                 /\ node'[Queue[i]].next = node[Queue[i]].next
                                 /\ i # 1 => node'[Queue[i]].prev = node[Queue[i]].prev
    <3> SUFFICES ASSUME NEW i \in 1..Len(Queue)
                 PROVE  /\ node'[Queue[i]].entry = node[Queue[i]].entry
                        /\ node'[Queue[i]].seq = node[Queue[i]].seq
                        /\ node'[Queue[i]].end = node[Queue[i]].end
                        /\ node'[Queue[i]].next = node[Queue[i]].next
                        /\ i # 1 => node'[Queue[i]].prev = node[Queue[i]].prev
      OBVIOUS
    <3>1. CASE i = 1
      BY <1>7, <1>17, <2>4, <3>1
    <3>2. CASE i # 1
      <4>1. Queue[i] # stop /\ Queue[i] # front /\ Queue[i] # cell /\ Queue[i] \in Addresses
        BY <1>6, <1>7, <1>10, <1>11, <1>17, <2>1, <3>2 DEF Elements
      <4>2. node'[Queue[i]] = node[Queue[i]]
        BY <2>3, <4>1
      <4> QED
        BY <4>2
    <3> QED
      BY <3>1, <3>2
  <2>6. RInv(origin)' /\ Seen' = Seen
    BY <1>2, <1>9, <1>15, <2>3, <2>5, AsideStep
  <2>7. Loses
    <3>1. stop = head
      BY <1>6, <1>7, <1>17
    <3> QED
      BY <1>2, <1>5, <1>7, <2>1, <2>6, <3>1 DEF Loses
  <2> QED
    BY <2>6, <2>7
<1>18. k = 1 \/ k > 1
  BY <1>6
<1> QED
  BY <1>16, <1>17, <1>18

LEMMA HandleStep ==
  ASSUME NEW origin \in SeqNumbers, RInv(origin),
         NEW p \in Packets, rx' = Append(rx, p), armed' \in BOOLEAN,
         IsData(p) => Fits(origin, p.seq, p.end), Handle(Len(rx) + 1, p)
  PROVE  RInv(origin)' /\ (Keeps \/ Loses)
<1> DEFINE id == Len(rx) + 1
<1>1. CASE EnqueueSyn(id, p)
  BY <1>1, SynStep
<1>2. CASE EnqueueEmpty(id, p)
  BY <1>2, FlushAllStep DEF EnqueueEmpty
<1>3. CASE EnqueueOld(id, p)
  BY <1>3, PassStep DEF EnqueueOld
<1>4. CASE EnqueueInSeq(id, p)
  <2>1. p.end \in Window(origin)
    BY <1>4 DEF EnqueueInSeq, Fits
  <2> QED
    BY <1>4, <2>1, InSeqStep
<1>5. CASE EnqueueLimit(id, p)
  BY <1>5, FlushAllStep DEF EnqueueLimit
<1>6. CASE EnqueueFirst(id, p)
  <2>1. Fits(origin, p.seq, p.end)
    BY <1>6 DEF EnqueueFirst, Ahead
  <2> QED
    BY <1>6, <2>1, FirstStep
<1>7. CASE EnqueueOverTail(id, p)
  BY <1>7, FlushAllStep DEF EnqueueOverTail
<1>8. CASE EnqueueTail(id, p)
  <2>1. Fits(origin, p.seq, p.end)
    BY <1>8 DEF EnqueueTail, Walks, Ahead
  <2> QED
    BY <1>8, <2>1, TailStep
<1>9. CASE EnqueueHead(id, p)
  <2>1. Fits(origin, p.seq, p.end)
    BY <1>9 DEF EnqueueHead, Walks, Ahead
  <2> QED
    BY <1>9, <2>1, HeadStep
<1>10. CASE EnqueueOverPrev(id, p)
  <2>1. Fits(origin, p.seq, p.end)
    BY <1>10 DEF EnqueueOverPrev, Walks, Ahead
  <2> QED
    BY <1>10, <2>1, OverPrevStep
<1>11. CASE EnqueueBetween(id, p)
  <2>1. Fits(origin, p.seq, p.end)
    BY <1>11 DEF EnqueueBetween, Walks, Ahead
  <2> QED
    BY <1>11, <2>1, BetweenStep
<1> QED
  BY <1>1, <1>2, <1>3, <1>4, <1>5, <1>6, <1>7, <1>8, <1>9, <1>10, <1>11 DEF Handle

(* The timer releases all that is held.                                    *)
LEMMA TimerStep ==
  ASSUME NEW origin \in SeqNumbers, RInv(origin), FlushAll, rx' = rx, armed' \in BOOLEAN
  PROVE  RInv(origin)' /\ Seen' = Seen
<1>1. PICK k : k = Len(Queue)
  OBVIOUS
<1> DEFINE v == Rest(Queue, k)
           e == Entries(Queue, node)
<1>2. /\ k \in Nat /\ k \in 0..Len(Queue) /\ Queue \in Seq(Addresses) /\ Len(Queue) \in Nat
      /\ rx \in Seq(Packets) /\ given \in Seq(1..Len(rx))
      /\ e \in Seq(1..Len(rx)) /\ Len(e) = Len(Queue) /\ k \in 0..Len(e)
      /\ Seen = given \o e /\ Once(Seen)
  BY <1>1, Facts DEF Seen, RInv
<1>3. Pop(k) /\ given' = given \o EntriesOf(Queue) /\ seq_next' = FlushedTo(k)
  BY <1>1 DEF FlushAll
<1>4. EntriesOf(Queue) = SubSeq(e, 1, k)
  BY <1>1, AllEntries
<1>5. /\ Linked(v, head', tail', node', allocated') /\ Carries(v, node', rx')
      /\ Within(v, node', origin) /\ Sorts(v, node', origin) /\ Entries(v, node') = Rest(e, k)
      /\ Len(v) <= count' /\ count' <= MAX_REORDER_COUNT + 1 /\ count' \in Nat
      /\ node' \in [Addresses -> NodeType(Len(rx'))] /\ allocated' \subseteq Addresses
  BY <1>2, <1>3, PopLeaves
<1>6. seq_next' \in SeqNumbers
  <2>1. k # 0 => k \in 1..Len(Queue)
    BY <1>1, <1>2
  <2>2. k # 0 => node[Queue[k]].end \in SeqNumbers
    BY <2>1, Facts DEF Window
  <2>3. seq_next \in SeqNumbers
    BY DEF RInv, TypeOK, SeqNumbers
  <2> QED
    BY <1>3, <2>2, <2>3 DEF FlushedTo
<1>7. Behind(v, node', seq_next')
  <2>1. Len(v) = 0
    BY <1>1, <1>2, RestOf
  <2> HIDE DEF v
  <2> QED
    BY <2>1 DEF Behind
<1> HIDE DEF v, e
<1>8. given' \o Rest(e, k) = given \o e
  <2>1. PICK S, g, f : S = 1..Len(rx) /\ g = given /\ f = e
    OBVIOUS
  <2>2. g \in Seq(S) /\ f \in Seq(S) /\ k \in 0..Len(f)
    BY <1>2, <2>1
  <2>3. (g \o SubSeq(f, 1, k)) \o Rest(f, k) = g \o f
    BY <2>2, ReleasedOnly
  <2> QED
    BY <1>3, <1>4, <2>1, <2>3
<1>9. given' \in Seq(1..Len(rx'))
  <2>1. SubSeq(e, 1, k) \in Seq(1..Len(rx))
    BY <1>2, SubSeqOf
  <2>2. PICK a : a = SubSeq(e, 1, k)
    OBVIOUS
  <2>3. given \o a \in Seq(1..Len(rx))
    BY <1>2, <2>1, <2>2, ConcatProperties
  <2> QED
    BY <1>3, <1>4, <2>2, <2>3
<1>10. given' \o Entries(v, node') = Seen
  BY <1>2, <1>5, <1>8
<1>11. RInv(origin)' /\ Seen' = given' \o Entries(v, node')
  BY <1>2, <1>5, <1>6, <1>7, <1>9, <1>10, Becomes
<1> QED
  BY <1>10, <1>11

-----------------------------------------------------------------------------
(* The invariant of the handler.                                           *)

ReorderInv == \E origin \in SeqNumbers : RInv(origin)

(* A data packet lies with those held in half of the sequence space.       *)
WithHeld(p) ==
  IsData(p) => \E o \in SeqNumbers : Fits(o, p.seq, p.end) /\ Within(Queue, node, o)

DataWithinHalf == [][\A p \in Packets : Enqueue(p) => WithHeld(p)]_vars

LEMMA InitReorderInv == Init => ReorderInv
<1> SUFFICES ASSUME Init PROVE RInv(0) /\ 0 \in SeqNumbers
  BY DEF ReorderInv
<1> DEFINE w == << >>
<1>1. w \in Seq(Addresses) /\ Len(w) = 0
  OBVIOUS
<1> HIDE DEF w
<1>2. (\A i \in 1..Len(w) : FALSE) /\ (\A i \in 2..Len(w) : FALSE)
  BY <1>1
<1>3. Linked(w, head, tail, node, allocated)
  BY <1>1, <1>2 DEF Linked, Init
<1>4. Queue = w
  BY <1>3, CellsOfList DEF Queue
<1>5. 0 \in SeqNumbers
  BY SeqRangeAssumption DEF SeqNumbers
<1>6. TypeOK
  <2>1. rx \in Seq(Packets) /\ given \in Seq(1..Len(rx)) /\ Len(rx) = 0
    BY DEF Init
  <2>2. Blank \in NodeType(0)
    BY <1>5 DEF Blank, NodeType
  <2>3. node \in [Addresses -> NodeType(Len(rx))]
    BY <2>1, <2>2 DEF Init
  <2> QED
    BY <1>5, <2>1, <2>3 DEF TypeOK, NodeType, SeqNumbers, Init
<1>7. /\ Carries(w, node, rx) /\ Within(w, node, 0) /\ Sorts(w, node, 0) /\ Behind(w, node, seq_next)
  BY <1>2 DEF Carries, Within, Sorts, Behind
<1>8. Once(Seen)
  <2>1. Entries(w, node) = << >>
    BY <1>1 DEF Entries
  <2>2. Seen = << >>
    BY <1>4, <2>1 DEF Seen, Init
  <2> QED
    BY <2>2 DEF Once
<1>9. Len(w) <= count /\ count <= MAX_REORDER_COUNT + 1
  BY <1>1, LimitAssumption DEF Init
<1> QED
  BY <1>3, <1>4, <1>5, <1>6, <1>7, <1>8, <1>9 DEF RInv

(* An arrival keeps the invariant; the packet joins the others, or it is   *)
(* lost in front of a stale head.                                          *)
LEMMA EnqueueStep ==
  ASSUME ReorderInv, NEW p \in Packets, Enqueue(p), WithHeld(p)
  PROVE  ReorderInv' /\ rx' = Append(rx, p) /\ (Keeps \/ Loses)
<1>1. PICK o \in SeqNumbers : RInv(o) /\ (IsData(p) => Fits(o, p.seq, p.end))
  <2>1. PICK origin \in SeqNumbers : RInv(origin)
    BY DEF ReorderInv
  <2>2. CASE IsData(p)
    <3>1. PICK o \in SeqNumbers : Fits(o, p.seq, p.end) /\ Within(Queue, node, o)
      BY <2>2 DEF WithHeld
    <3> QED
      BY <2>1, <3>1, ChangeOrigin
  <2> QED
    BY <2>1, <2>2
<1>2. rx' = Append(rx, p) /\ armed' \in BOOLEAN /\ Handle(Len(rx) + 1, p)
  BY DEF Enqueue, Arrives
<1>3. RInv(o)' /\ (Keeps \/ Loses)
  BY <1>1, <1>2, HandleStep
<1> QED
  BY <1>2, <1>3 DEF ReorderInv

LEMMA CallbackStep ==
  ASSUME ReorderInv, hrtimer_callback
  PROVE  ReorderInv' /\ rx' = rx /\ Seen' = Seen
<1>1. PICK origin \in SeqNumbers : RInv(origin)
  BY DEF ReorderInv
<1>2. FlushAll /\ rx' = rx /\ armed' \in BOOLEAN
  BY DEF hrtimer_callback
<1>3. RInv(origin)' /\ Seen' = Seen
  BY <1>1, <1>2, TimerStep
<1> QED
  BY <1>2, <1>3 DEF ReorderInv

LEMMA NextReorderInv ==
  ReorderInv /\ [Next]_vars /\ [\A p \in Packets : Enqueue(p) => WithHeld(p)]_vars => ReorderInv'
<1> SUFFICES ASSUME ReorderInv, [Next]_vars, [\A p \in Packets : Enqueue(p) => WithHeld(p)]_vars
             PROVE  ReorderInv'
  OBVIOUS
<1>1. CASE UNCHANGED vars
  <2>1. PICK origin \in SeqNumbers : RInv(origin)
    BY DEF ReorderInv
  <2>2. /\ rx' = rx /\ given' = given /\ node' = node /\ allocated' = allocated
        /\ head' = head /\ tail' = tail /\ count' = count /\ seq_next' = seq_next /\ armed' = armed
    BY <1>1 DEF vars, list_vars
  <2>3. Queue' = Queue
    BY <2>2 DEF Queue
  <2>4. Seen' = Seen
    BY <2>2, <2>3 DEF Seen
  <2>5. TypeOK'
    BY <2>1, <2>2 DEF RInv, TypeOK
  <2>6. RInv(origin)'
    BY <2>1, <2>2, <2>3, <2>4, <2>5 DEF RInv
  <2> QED
    BY <2>6 DEF ReorderInv
<1>2. CASE hrtimer_callback
  BY <1>2, CallbackStep
<1>3. CASE vars' # vars /\ \E p \in Packets : Enqueue(p)
  <2>1. PICK p \in Packets : Enqueue(p)
    BY <1>3
  <2>2. WithHeld(p)
    BY <1>3, <2>1
  <2> QED
    BY <2>1, <2>2, EnqueueStep
<1> QED
  BY <1>1, <1>2, <1>3 DEF Next

LEMMA ReorderInvCorrect == Spec /\ DataWithinHalf => []ReorderInv
BY InitReorderInv, NextReorderInv, PTL DEF Spec, DataWithinHalf


-----------------------------------------------------------------------------
(* What the invariant says of the properties.                              *)

LEMMA Accounted ==
  ASSUME NEW origin \in SeqNumbers, RInv(origin)
  PROVE  Elements(Seen) = Held \cup Gone /\ Elements(Seen) \subseteq 1..Len(rx)
<1> DEFINE e == Entries(Queue, node)
<1>1. /\ given \in Seq(1..Len(rx)) /\ Len(given) \in Nat /\ e \in Seq(1..Len(rx))
      /\ Len(e) = Len(Queue) /\ Len(Queue) \in Nat /\ Seen = given \o e
      /\ Seen \in Seq(1..Len(rx)) /\ Len(Seen) = Len(given) + Len(Queue)
  BY Facts DEF Seen
<1>2. \A i \in 1..Len(Queue) : e[i] = node[Queue[i]].entry
  BY DEF Entries
<1> HIDE DEF e
<1>3. \A i \in 1..Len(Seen) : Seen[i] = IF i <= Len(given) THEN given[i] ELSE e[i - Len(given)]
  BY <1>1, ConcatProperties
<1>4. Gone = {given[i] : i \in 1..Len(given)}
  BY <1>1 DEF Gone, ToSet
<1>5. ASSUME NEW i \in 1..Len(Seen) PROVE Seen[i] \in Held \cup Gone
  <2>1. CASE i <= Len(given)
    <3>1. i \in 1..Len(given)
      BY <1>1, <2>1
    <3> QED
      BY <1>3, <1>4, <2>1, <3>1
  <2>2. CASE ~(i <= Len(given))
    <3>1. i - Len(given) \in 1..Len(Queue)
      BY <1>1, <2>2
    <3> QED
      BY <1>2, <1>3, <2>2, <3>1 DEF Held
  <2> QED
    BY <2>1, <2>2
<1>6. ASSUME NEW i \in 1..Len(given) PROVE i \in 1..Len(Seen) /\ Seen[i] = given[i]
  <2>1. i \in 1..Len(Seen) /\ i <= Len(given)
    BY <1>1
  <2> QED
    BY <1>3, <2>1
<1>7. ASSUME NEW k \in 1..Len(Queue)
      PROVE  Len(given) + k \in 1..Len(Seen) /\ Seen[Len(given) + k] = node[Queue[k]].entry
  <2>1. PICK i : i = Len(given) + k
    OBVIOUS
  <2>2. i \in 1..Len(Seen) /\ ~(i <= Len(given)) /\ i - Len(given) = k
    BY <1>1, <2>1
  <2> QED
    BY <1>2, <1>3, <2>1, <2>2
<1>8. Elements(Seen) \subseteq Held \cup Gone
  BY <1>5 DEF Elements
<1>9. Gone \subseteq Elements(Seen)
  BY <1>4, <1>6 DEF Elements
<1>10. Held \subseteq Elements(Seen)
  BY <1>7 DEF Held, Elements
<1>11. Elements(Seen) \subseteq 1..Len(rx)
  BY <1>1, ElementOfSeq DEF Elements
<1> QED
  BY <1>8, <1>9, <1>10, <1>11

LEMMA InvOnce ==
  ASSUME NEW origin \in SeqNumbers, RInv(origin)
  PROVE  AtMostOnce
<1> DEFINE e == Entries(Queue, node)
<1>1. /\ given \in Seq(1..Len(rx)) /\ Len(given) \in Nat /\ e \in Seq(1..Len(rx))
      /\ Len(e) = Len(Queue) /\ Len(Queue) \in Nat /\ Seen = given \o e
      /\ Len(Seen) = Len(given) + Len(Queue)
  BY Facts DEF Seen
<1>2. \A i \in 1..Len(Queue) : e[i] = node[Queue[i]].entry
  BY DEF Entries
<1> HIDE DEF e
<1>3. \A i \in 1..Len(Seen) : Seen[i] = IF i <= Len(given) THEN given[i] ELSE e[i - Len(given)]
  BY <1>1, ConcatProperties
<1>4. \A i \in 1..Len(given) : i \in 1..Len(Seen) /\ Seen[i] = given[i]
  <2> TAKE i \in 1..Len(given)
  <2>1. i \in 1..Len(Seen) /\ i <= Len(given)
    BY <1>1
  <2> QED
    BY <1>3, <2>1
<1>5. Once(Seen)
  BY DEF RInv
<1>6. \A i, j \in 1..Len(given) : given[i] = given[j] => i = j
  BY <1>4, <1>5 DEF Once
<1>7. ASSUME NEW k \in 1..Len(Queue), NEW i \in 1..Len(given), node[Queue[k]].entry = given[i]
      PROVE  FALSE
  <2>1. PICK j : j = Len(given) + k
    OBVIOUS
  <2>2. j \in 1..Len(Seen) /\ ~(j <= Len(given)) /\ j - Len(given) = k /\ i # j
    BY <1>1, <2>1
  <2>3. Seen[j] = node[Queue[k]].entry
    BY <1>2, <1>3, <2>2
  <2> QED
    BY <1>4, <1>5, <1>7, <2>2, <2>3 DEF Once
<1>8. Held \cap Gone = {}
  <2> SUFFICES ASSUME NEW x \in Held, x \in Gone PROVE FALSE
    OBVIOUS
  <2>1. PICK k \in 1..Len(Queue) : x = node[Queue[k]].entry
    BY DEF Held
  <2>2. PICK i \in 1..Len(given) : x = given[i]
    BY <1>1 DEF Gone, ToSet
  <2> QED
    BY <1>7, <2>1, <2>2
<1> QED
  BY <1>6, <1>8 DEF AtMostOnce

LEMMA InvWellLinked ==
  ASSUME NEW origin \in SeqNumbers, RInv(origin)
  PROVE  WellLinked
<1>1. Len(Queue) \in Nat /\ \A i \in 1..Len(Queue) : Queue[i] \in Addresses /\ Queue[i] \in allocated
  BY Facts
<1>2. /\ head = IF Len(Queue) = 0 THEN NULL ELSE Queue[1]
      /\ tail = IF Len(Queue) = 0 THEN NULL ELSE Queue[Len(Queue)]
      /\ \A i \in 2..Len(Queue) : node[Queue[i]].prev = Queue[i - 1]
  BY DEF RInv, Linked
<1>3. Len(Queue) # 0 => 1 \in 1..Len(Queue) /\ Len(Queue) \in 1..Len(Queue)
  BY <1>1
<1>4. Len(Queue) # 0 => Queue[1] # NULL /\ Queue[Len(Queue)] # NULL
  BY <1>1, <1>3, AddressesAssumption
<1> QED
  BY <1>1, <1>2, <1>4 DEF WellLinked

LEMMA InvSorted ==
  ASSUME NEW origin \in SeqNumbers, RInv(origin)
  PROVE  Sorted
<1>1. ASSUME NEW k \in 2..Len(Queue)
      PROVE  NotAfter(node[Queue[k - 1]].end, node[Queue[k]].seq)
  <2>1. k \in 1..Len(Queue) /\ k - 1 \in 1..Len(Queue) /\ k - 1 < k
    BY Facts
  <2>2. PICK a, b : a = node[Queue[k - 1]].end /\ b = node[Queue[k]].seq
    OBVIOUS
  <2>3. a \in Window(origin) /\ b \in Window(origin) /\ Offset(origin, a) <= Offset(origin, b)
    BY <2>1, <2>2, Facts DEF RInv, Sorts
  <2>4. NotAfter(a, b)
    BY <2>3, WindowOrder
  <2> QED
    BY <2>2, <2>4
<1>2. \A k \in 1..Len(Queue) : NotAfter(seq_next, node[Queue[k]].seq)
  BY DEF RInv, Behind
<1> QED
  BY <1>1, <1>2 DEF Sorted

-----------------------------------------------------------------------------
(* The theorems.                                                           *)

(* Whatever arrives, the state is of its type.                             *)
THEOREM ReorderTypeCorrect == Spec /\ DataWithinHalf => []TypeOK
<1>1. ReorderInv => TypeOK
  BY DEF ReorderInv, RInv
<1> QED
  BY <1>1, ReorderInvCorrect, PTL

(* The pointers of the code lead from the head to the tail and back as far *)
(* as the head, over cells that kmalloc handed out and kfree has not taken *)
(* back, although the prev of the head may name any cell.                  *)
THEOREM LinksCorrect == Spec /\ DataWithinHalf => []WellLinked
<1>1. ReorderInv => WellLinked
  BY InvWellLinked DEF ReorderInv
<1> QED
  BY <1>1, ReorderInvCorrect, PTL

(* The limit bounds the list, one packet above its name.                   *)
THEOREM BoundCorrect == Spec /\ DataWithinHalf => []Bounded
<1>1. ReorderInv => Bounded
  BY DEF ReorderInv, RInv, Bounded
<1> QED
  BY <1>1, ReorderInvCorrect, PTL

(* No packet is reinjected twice, and none is that is still held.          *)
THEOREM OnceCorrect == Spec /\ DataWithinHalf => []AtMostOnce
<1>1. ReorderInv => AtMostOnce
  BY InvOnce DEF ReorderInv
<1> QED
  BY <1>1, ReorderInvCorrect, PTL

(* The packets held follow one another without overlap, behind seq_next.   *)
THEOREM SortedCorrect == Spec /\ DataWithinHalf => []Sorted
<1>1. ReorderInv => Sorted
  BY InvSorted DEF ReorderInv
<1> QED
  BY <1>1, ReorderInvCorrect, PTL

(* The handler loses a packet only where line 189 takes a head with a      *)
(* stale prev for a node in the middle.                                    *)
THEOREM LostCorrect == Spec /\ DataWithinHalf => LostOnlyInFrontOfStaleHead
<1> DEFINE P == Lost' # Lost =>
                  /\ Lost' = Lost \cup {Len(rx')}
                  /\ head # NULL /\ node[head].prev # NULL
                  /\ node[head].prev \notin {Queue[k] : k \in 1..Len(Queue)}
<1> DEFINE LostIs == Lost = 1..Len(rx) \ Elements(Seen)
<1>2. ReorderInv => LostIs
  BY Accounted DEF ReorderInv, Lost
<1>3. ReorderInv' => LostIs'
  BY <1>2, PTL
<1>1. ReorderInv /\ [Next]_vars /\ [\A p \in Packets : Enqueue(p) => WithHeld(p)]_vars => [P]_vars
  <2> SUFFICES ASSUME ReorderInv, Next, \A p \in Packets : Enqueue(p) => WithHeld(p)
               PROVE  P
    OBVIOUS
  <2>1. /\ Lost = 1..Len(rx) \ Elements(Seen) /\ Elements(Seen) \subseteq 1..Len(rx)
        /\ rx \in Seq(Packets) /\ Len(rx) \in Nat /\ Once(Seen) /\ Seen \in Seq(1..Len(rx))
    <3>1. PICK o \in SeqNumbers : RInv(o)
      BY DEF ReorderInv
    <3>2. rx \in Seq(Packets) /\ Len(rx) \in Nat /\ Seen \in Seq(1..Len(rx))
      BY <3>1, Facts
    <3>3. Elements(Seen) \subseteq 1..Len(rx)
      BY <3>1, Accounted
    <3> QED
      BY <1>2, <3>1, <3>2, <3>3 DEF RInv
  <2>2. ReorderInv' => Lost' = 1..Len(rx') \ Elements(Seen')
    BY <1>3 DEF Elements
  <2>3. CASE hrtimer_callback
    <3>1. ReorderInv' /\ rx' = rx /\ Seen' = Seen
      BY <2>3, CallbackStep
    <3> QED
      BY <2>1, <2>2, <3>1
  <2>4. CASE \E p \in Packets : Enqueue(p)
    <3>1. PICK p \in Packets : Enqueue(p)
      BY <2>4
    <3>2. ReorderInv' /\ rx' = Append(rx, p) /\ (Keeps \/ Loses)
      BY <3>1, EnqueueStep
    <3>3. Len(rx') = Len(rx) + 1
      BY <2>1, <3>2, LogGrows
    <3>4. CASE Keeps
      <4>1. PICK pos \in 1..(Len(Seen) + 1) : Seen' = With(Seen, pos, Len(rx) + 1)
        BY <3>4 DEF Keeps
      <4>2. Elements(Seen') = Elements(Seen) \cup {Len(rx) + 1}
        BY <2>1, <4>1, SeenAdds
      <4>3. Lost' = Lost
        BY <2>1, <2>2, <3>2, <3>3, <4>2
      <4> QED
        BY <4>3
    <3>5. CASE Loses
      <4>1. /\ Seen' = Seen /\ head # NULL /\ node[head].prev # NULL
            /\ node[head].prev \notin {Queue[k] : k \in 1..Len(Queue)}
        BY <3>5 DEF Loses, Elements
      <4>2. Lost' = Lost \cup {Len(rx')}
        BY <2>1, <2>2, <3>2, <3>3, <4>1
      <4> QED
        BY <4>1, <4>2
    <3> QED
      BY <3>2, <3>4, <3>5
  <2> QED
    BY <2>3, <2>4 DEF Next
<1> HIDE DEF LostIs
<1> QED
  BY <1>1, ReorderInvCorrect, PTL DEF Spec, DataWithinHalf, LostOnlyInFrontOfStaleHead

-----------------------------------------------------------------------------
(* The order in which packets are reinjected.  Here seq_next must lie in   *)
(* the same half of the space as the packet and those held: it belongs to  *)
(* their connection, whose SYN the handler has seen.  What a step leaves   *)
(* in order:                                                               *)
InOrder ==
  \A i \in (Len(given) + 1)..Len(given') : \A y \in Held' :
    ~Before(rx'[y].seq, rx'[given'[i]].seq)

Advances(origin) == seq_next' \in Window(origin) /\ ~Before(seq_next', seq_next)

LEMMA ReleaseInOrder ==
  ASSUME NEW origin \in SeqNumbers, RInv(origin),
         NEW p \in Packets, rx' = Append(rx, p), armed' \in BOOLEAN,
         NEW k \in 0..Len(Queue), Pop(k), seq_next' \in SeqNumbers,
         Behind(Rest(Queue, k), node, seq_next'),
         \/ given' = given \o EntriesOf(SubSeq(Queue, 1, k)) \o <<Len(rx) + 1>>
         \/ given' = given \o <<Len(rx) + 1>> \o EntriesOf(SubSeq(Queue, 1, k)),
         \A i \in (k + 1)..Len(Queue) : ~Before(node[Queue[i]].seq, p.seq)
  PROVE  InOrder
<1> DEFINE w == Queue
           e == Entries(w, node)
           t == Len(rx) + 1
           S == 1..t
<1>1. /\ rx \in Seq(Packets) /\ Len(rx) \in Nat /\ w \in Seq(Addresses) /\ Len(w) \in Nat
      /\ given \in Seq(1..Len(rx)) /\ Len(given) \in Nat
      /\ e \in Seq(1..Len(rx)) /\ Len(e) = Len(w) /\ k \in 0..Len(e) /\ k \in Nat
      /\ \A i \in 1..Len(w) : e[i] = node[w[i]].entry
  <2>1. /\ rx \in Seq(Packets) /\ Len(rx) \in Nat /\ w \in Seq(Addresses) /\ Len(w) \in Nat
        /\ given \in Seq(1..Len(rx)) /\ Len(given) \in Nat
        /\ e \in Seq(1..Len(rx)) /\ Len(e) = Len(w)
    BY Facts
  <2>2. k \in 0..Len(w) /\ k \in Nat
    BY <2>1
  <2>3. \A i \in 1..Len(w) : e[i] = node[w[i]].entry
    BY DEF Entries
  <2> QED
    BY <2>1, <2>2, <2>3
<1>2. rx'[t] = p /\ \A i \in 1..Len(rx) : rx'[i] = rx[i]
  BY <1>1, LogGrows
<1>3. Queue' = Rest(w, k) /\ node' = node
  BY ReleaseStep DEF Pop
<1>4. /\ Len(Rest(w, k)) = Len(w) - k
      /\ \A i \in 1..(Len(w) - k) : i + k \in 1..Len(w) /\ Rest(w, k)[i] = w[i + k]
  BY <1>1, RestOf
<1>5. \A i \in 1..Len(w) : rx'[node[w[i]].entry].seq = node[w[i]].seq
  <2> TAKE i \in 1..Len(w)
  <2>1. node[w[i]].entry \in 1..Len(rx) /\ node[w[i]].seq = rx[node[w[i]].entry].seq
    BY DEF RInv, Carries
  <2> QED
    BY <1>2, <2>1
<1>6. ASSUME NEW y \in Held'
      PROVE  \E j \in (k + 1)..Len(w) : j \in 1..Len(w) /\ rx'[y].seq = node[w[j]].seq
  <2>1. PICK i \in 1..Len(Rest(w, k)) : y = node[Rest(w, k)[i]].entry
    BY <1>3, <1>6 DEF Held
  <2>2. PICK j : j = i + k
    OBVIOUS
  <2>3. j \in (k + 1)..Len(w) /\ j \in 1..Len(w) /\ y = node[w[j]].entry
    BY <1>1, <1>4, <2>1, <2>2
  <2> QED
    BY <1>5, <2>3
<1>7. EntriesOf(SubSeq(Queue, 1, k)) = SubSeq(e, 1, k)
  BY FirstEntries
<1> HIDE DEF w, e
<1>8. /\ SubSeq(e, 1, k) \in Seq(1..Len(rx)) /\ Len(SubSeq(e, 1, k)) = k
      /\ \A i \in 1..k : SubSeq(e, 1, k)[i] = e[i]
  BY <1>1, SubSeqOf
<1>9. PICK a : a = SubSeq(e, 1, k)
  OBVIOUS
<1>10. /\ t \in S /\ given \in Seq(S) /\ a \in Seq(S) /\ <<t>> \in Seq(S) /\ Len(<<t>>) = 1 /\ Len(a) = k
       /\ \A i \in 1..k : a[i] = e[i]
  <2>1. 1..Len(rx) \subseteq S /\ t \in S
    BY <1>1
  <2>2. given \in Seq(S) /\ a \in Seq(S)
    BY <1>1, <1>8, <1>9, <2>1, SeqMonotonic
  <2> QED
    BY <1>8, <1>9, <2>1, <2>2
<1> HIDE DEF t, S
<1>13. PICK g : g = Len(given)
  OBVIOUS
<1>14. g \in Nat /\ k \in Nat
  BY <1>1, <1>13
<1>11. ASSUME NEW i \in (Len(given) + 1)..Len(given')
       PROVE  given'[i] = t \/ \E m \in 1..k : given'[i] = e[m]
  <2>1. CASE given' = (given \o a) \o <<t>>
    <3>1. /\ given \o a \in Seq(S) /\ Len(given \o a) = Len(given) + k
          /\ \A j \in 1..(Len(given) + k) :
               (given \o a)[j] = IF j <= Len(given) THEN given[j] ELSE a[j - Len(given)]
      BY <1>10, ConcatProperties
    <3>2. PICK f : f = given \o a
      OBVIOUS
    <3>3. /\ Len(f \o <<t>>) = Len(f) + 1
          /\ \A j \in 1..(Len(f) + 1) :
               (f \o <<t>>)[j] = IF j <= Len(f) THEN f[j] ELSE <<t>>[j - Len(f)]
      BY <1>10, <3>1, <3>2, ConcatProperties
    <3>4. Len(f) = Len(given) + k /\ given' = f \o <<t>> /\ Len(given') = Len(f) + 1
      BY <2>1, <3>1, <3>2, <3>3
    <3>5. CASE i <= Len(f)
      <4>1. i \in 1..(Len(f) + 1) /\ i \in 1..(Len(given) + k) /\ ~(i <= Len(given)) /\ i - Len(given) \in 1..k
        BY <1>11, <1>13, <1>14, <3>4, <3>5
      <4>2. given'[i] = f[i] /\ f[i] = a[i - Len(given)]
        BY <3>1, <3>2, <3>3, <3>4, <3>5, <4>1
      <4> QED
        BY <1>10, <4>1, <4>2
    <3>6. CASE ~(i <= Len(f))
      <4>1. i \in 1..(Len(f) + 1) /\ i - Len(f) = 1
        BY <1>11, <1>13, <1>14, <3>4, <3>6
      <4>2. given'[i] = <<t>>[1]
        BY <3>3, <3>4, <3>6, <4>1
      <4> QED
        BY <4>2
    <3> QED
      BY <3>5, <3>6
  <2>2. CASE given' = (given \o <<t>>) \o a
    <3>1. /\ given \o <<t>> \in Seq(S) /\ Len(given \o <<t>>) = Len(given) + 1
          /\ \A j \in 1..(Len(given) + 1) :
               (given \o <<t>>)[j] = IF j <= Len(given) THEN given[j] ELSE <<t>>[j - Len(given)]
      BY <1>10, ConcatProperties
    <3>2. PICK f : f = given \o <<t>>
      OBVIOUS
    <3>7. f \in Seq(S) /\ a \in Seq(S) /\ Len(a) = k
      BY <1>10, <3>1, <3>2
    <3>3. /\ Len(f \o a) = Len(f) + k
          /\ \A j \in 1..(Len(f) + k) :
               (f \o a)[j] = IF j <= Len(f) THEN f[j] ELSE a[j - Len(f)]
      BY <3>7, ConcatProperties
    <3>4. Len(f) = Len(given) + 1 /\ given' = f \o a /\ Len(given') = Len(f) + k
      BY <2>2, <3>1, <3>2, <3>3
    <3>5. CASE i <= Len(f)
      <4>1. i \in 1..(Len(f) + k) /\ i \in 1..(Len(given) + 1) /\ ~(i <= Len(given)) /\ i - Len(given) = 1
        BY <1>11, <1>13, <1>14, <3>4, <3>5
      <4>2. given'[i] = f[i] /\ f[i] = <<t>>[1]
        BY <3>1, <3>2, <3>3, <3>4, <3>5, <4>1
      <4> QED
        BY <4>2
    <3>6. CASE ~(i <= Len(f))
      <4>1. i \in 1..(Len(f) + k) /\ i - Len(f) \in 1..k
        BY <1>11, <1>13, <1>14, <3>4, <3>6
      <4>2. given'[i] = a[i - Len(f)]
        BY <3>3, <3>4, <3>6, <4>1
      <4> QED
        BY <1>10, <4>1, <4>2
    <3> QED
      BY <3>5, <3>6
  <2> QED
    BY <1>7, <1>9, <2>1, <2>2 DEF t
<1>12. ASSUME NEW i \in (Len(given) + 1)..Len(given'), NEW y \in Held'
       PROVE  ~Before(rx'[y].seq, rx'[given'[i]].seq)
  <2>1. PICK j \in (k + 1)..Len(w) : j \in 1..Len(w) /\ rx'[y].seq = node[w[j]].seq
    BY <1>6
  <2>2. CASE given'[i] = t
    <3>1. ~Before(node[w[j]].seq, p.seq)
      BY <2>1 DEF w
    <3> QED
      BY <1>2, <2>1, <2>2, <3>1
  <2>3. CASE \E m \in 1..k : given'[i] = e[m]
    <3>1. PICK m \in 1..k : given'[i] = e[m]
      BY <2>3
    <3>6. k \in 0..Len(w) /\ Len(w) \in Nat
      BY <1>1
    <3>7. m \in 1..Len(w) /\ j \in m..Len(w)
      BY <2>1, <3>1, <3>6
    <3>2. m \in 1..Len(w) /\ j \in m..Len(w) /\ given'[i] = node[w[m]].entry
      BY <1>1, <3>1, <3>7
    <3>3. rx'[given'[i]].seq = node[w[m]].seq
      BY <1>5, <3>2
    <3>4. PICK x, z : x = node[w[m]].seq /\ z = node[w[j]].seq
      OBVIOUS
    <3>5. /\ x \in Window(origin) /\ z \in Window(origin)
          /\ Offset(origin, x) \in Nat /\ Offset(origin, z) \in Nat
      BY <2>1, <3>2, <3>4, Facts DEF w
    <3>9. Offset(origin, x) <= Offset(origin, z)
      BY <3>2, <3>4, StartsAscend DEF w
    <3>10. ~(Offset(origin, z) < Offset(origin, x))
      BY <3>5, <3>9
    <3>8. ~Before(z, x)
      BY <3>5, <3>10, WindowOrder
    <3> QED
      BY <2>1, <3>3, <3>4, <3>8
  <2> QED
    BY <1>11, <2>2, <2>3
<1> QED
  BY <1>12 DEF InOrder


(* What is flushed in front of the packet.                                 *)
LEMMA FlushInOrder ==
  ASSUME NEW origin \in SeqNumbers, RInv(origin), seq_next \in Window(origin),
         NEW p \in Packets, rx' = Append(rx, p), armed' \in BOOLEAN, p.end \in Window(origin),
         NEW k \in 0..Len(Queue), FlushAndAccept(k, Len(rx) + 1, p),
         \A i \in (k + 1)..Len(Queue) : NotAfter(Later(FlushedTo(k), p.end), node[Queue[i]].seq),
         k = Len(Queue) \/ Fits(origin, p.seq, p.end)
  PROVE  InOrder /\ Advances(origin)
<1>1. Len(Queue) \in Nat /\ Queue \in Seq(Addresses) /\ k \in Nat
  BY Facts
<1>2. FlushedTo(k) \in Window(origin) /\ Offset(origin, seq_next) <= Offset(origin, FlushedTo(k))
  <2>1. CASE k = 0
    <3>1. FlushedTo(k) = seq_next /\ Offset(origin, seq_next) \in Nat
      BY <2>1, WindowOrder DEF FlushedTo
    <3> QED
      BY <3>1
  <2>2. CASE k # 0
    <3>1. k \in 1..Len(Queue)
      BY <1>1, <2>2
    <3>2. PICK a, b : a = node[Queue[k]].seq /\ b = node[Queue[k]].end
      OBVIOUS
    <3>3. /\ a \in Window(origin) /\ b \in Window(origin) /\ Offset(origin, a) < Offset(origin, b)
          /\ Offset(origin, a) \in Nat /\ Offset(origin, b) \in Nat
      BY <3>1, <3>2, Facts
    <3>4. NotAfter(seq_next, a)
      BY <3>1, <3>2 DEF RInv, Behind
    <3>5. Offset(origin, seq_next) <= Offset(origin, a) /\ Offset(origin, seq_next) \in Nat
      BY <3>3, <3>4, WindowOrder
    <3>6. FlushedTo(k) = b
      BY <2>2, <3>2 DEF FlushedTo
    <3> QED
      BY <3>3, <3>5, <3>6
  <2> QED
    BY <2>1, <2>2
<1>3. PICK s : s = Later(FlushedTo(k), p.end)
  OBVIOUS
<1>4. /\ s \in Window(origin) /\ Offset(origin, FlushedTo(k)) <= Offset(origin, s)
      /\ Offset(origin, p.end) <= Offset(origin, s)
  BY <1>2, <1>3, LaterInWindow
<1>5. /\ Pop(k) /\ seq_next' = s
      /\ given' = given \o EntriesOf(SubSeq(Queue, 1, k)) \o <<Len(rx) + 1>>
  BY <1>3 DEF FlushAndAccept
<1>6. /\ Offset(origin, seq_next) \in Nat /\ Offset(origin, FlushedTo(k)) \in Nat
      /\ Offset(origin, s) \in Nat /\ Offset(origin, p.end) \in Nat
  BY <1>2, <1>4, WindowOrder
<1>7. Advances(origin)
  <2>1. ~(Offset(origin, s) < Offset(origin, seq_next))
    BY <1>2, <1>4, <1>6
  <2>2. ~Before(s, seq_next)
    BY <1>4, <2>1, WindowOrder
  <2> QED
    BY <1>4, <1>5, <2>2 DEF Advances
<1>8. s \in SeqNumbers
  BY <1>4 DEF Window
<1>9. Behind(Rest(Queue, k), node, s)
  <2>1. Len(Rest(Queue, k)) = Len(Queue) - k /\ \A i \in 1..(Len(Queue) - k) : Rest(Queue, k)[i] = Queue[i + k]
    BY <1>1, RestOf
  <2> SUFFICES ASSUME NEW i \in 1..Len(Rest(Queue, k))
               PROVE  NotAfter(s, node[Rest(Queue, k)[i]].seq)
    BY DEF Behind
  <2>2. i + k \in (k + 1)..Len(Queue)
    BY <1>1, <2>1
  <2> QED
    BY <1>3, <2>1, <2>2
<1>10. ASSUME NEW i \in (k + 1)..Len(Queue)
       PROVE  ~Before(node[Queue[i]].seq, p.seq)
  <2>1. i \in 1..Len(Queue) /\ k # Len(Queue)
    BY <1>1, <1>10
  <2>2. Fits(origin, p.seq, p.end)
    BY <2>1
  <2>3. PICK b : b = node[Queue[i]].seq
    OBVIOUS
  <2>4. b \in Window(origin) /\ Offset(origin, b) \in Nat
    BY <2>1, <2>3, Facts
  <2>5. NotAfter(s, b)
    BY <1>3, <1>10, <2>3
  <2>6. Offset(origin, s) <= Offset(origin, b)
    BY <1>4, <2>4, <2>5, WindowOrder
  <2>7. p.seq \in Window(origin) /\ Offset(origin, p.seq) < Offset(origin, p.end)
    BY <2>2 DEF Fits
  <2>8. Offset(origin, p.seq) \in Nat
    BY <2>7, WindowOrder
  <2>9. ~(Offset(origin, b) < Offset(origin, p.seq))
    BY <1>4, <1>6, <2>4, <2>6, <2>7, <2>8
  <2> QED
    BY <2>3, <2>4, <2>7, <2>9, WindowOrder
<1>11. InOrder
  BY <1>5, <1>8, <1>9, <1>10, ReleaseInOrder
<1> QED
  BY <1>7, <1>11

LEMMA FlushAllInOrder ==
  ASSUME NEW origin \in SeqNumbers, RInv(origin), seq_next \in Window(origin),
         NEW p \in Packets, rx' = Append(rx, p), armed' \in BOOLEAN, p.end \in Window(origin),
         FlushAndAccept(Len(Queue), Len(rx) + 1, p)
  PROVE  InOrder /\ Advances(origin)
<1>1. PICK k : k = Len(Queue)
  OBVIOUS
<1>2. k \in 0..Len(Queue) /\ \A i \in (k + 1)..Len(Queue) : FALSE
  BY <1>1, Facts
<1>3. FlushAndAccept(k, Len(rx) + 1, p)
  BY <1>1
<1> QED
  BY <1>1, <1>2, <1>3, FlushInOrder

LEMMA SynInOrder ==
  ASSUME NEW origin \in SeqNumbers, RInv(origin),
         NEW p \in Packets, rx' = Append(rx, p), armed' \in BOOLEAN, EnqueueSyn(Len(rx) + 1, p)
  PROVE  InOrder /\ Len(Queue') = 0 /\ seq_next' \in SeqNumbers
<1>1. PICK k \in 0..Len(Queue) :
        /\ k = Len(Queue) /\ Pop(k) /\ seq_next' \in SeqNumbers
        /\ given' = given \o EntriesOf(SubSeq(Queue, 1, k)) \o <<Len(rx) + 1>>
        /\ Behind(Rest(Queue, k), node, seq_next')
  BY SynReleases
<1>2. Len(Queue) \in Nat /\ Queue \in Seq(Addresses) /\ \A i \in (k + 1)..Len(Queue) : FALSE
  BY <1>1, Facts
<1>3. InOrder
  BY <1>1, <1>2, ReleaseInOrder
<1>4. Queue' = Rest(Queue, k)
  BY <1>1, ReleaseStep
<1>5. Len(Rest(Queue, k)) = 0
  BY <1>1, <1>2, RestOf
<1> QED
  BY <1>1, <1>3, <1>4, <1>5

LEMMA InSeqInOrder ==
  ASSUME NEW origin \in SeqNumbers, RInv(origin), seq_next \in Window(origin),
         NEW p \in Packets, rx' = Append(rx, p), armed' \in BOOLEAN,
         Fits(origin, p.seq, p.end), EnqueueInSeq(Len(rx) + 1, p)
  PROVE  InOrder /\ Advances(origin)
<1>1. /\ p.seq \in Window(origin) /\ p.end \in Window(origin)
      /\ ~NotAfter(p.end, seq_next) /\ NotAfter(p.seq, seq_next)
  BY DEF EnqueueInSeq, Fits
<1>2. PICK k \in 0..Len(Queue) :
        /\ Pop(k) /\ seq_next' \in SeqNumbers
        /\ given' = given \o <<Len(rx) + 1>> \o EntriesOf(SubSeq(Queue, 1, k))
        /\ Behind(Rest(Queue, k), node, seq_next')
        /\ seq_next' \in Window(origin) /\ Offset(origin, p.end) <= Offset(origin, seq_next')
  BY <1>1, InSeqReleases
<1>3. /\ Offset(origin, p.seq) \in Nat /\ Offset(origin, p.end) \in Nat
      /\ Offset(origin, seq_next) \in Nat /\ Offset(origin, seq_next') \in Nat
      /\ Offset(origin, p.seq) <= Offset(origin, seq_next)
      /\ ~(Offset(origin, p.end) <= Offset(origin, seq_next))
  BY <1>1, <1>2, WindowOrder
<1>4. Advances(origin)
  <2>1. ~(Offset(origin, seq_next') < Offset(origin, seq_next))
    BY <1>2, <1>3
  <2>2. ~Before(seq_next', seq_next)
    BY <1>2, <2>1, WindowOrder
  <2> QED
    BY <1>2, <2>2 DEF Advances
<1>5. ASSUME NEW i \in (k + 1)..Len(Queue)
      PROVE  ~Before(node[Queue[i]].seq, p.seq)
  <2>1. Len(Queue) \in Nat /\ k \in Nat
    BY Facts
  <2>2. i \in 1..Len(Queue)
    BY <1>5, <2>1
  <2>3. PICK b : b = node[Queue[i]].seq
    OBVIOUS
  <2>4. b \in Window(origin) /\ Offset(origin, b) \in Nat
    BY <2>2, <2>3, Facts
  <2>5. NotAfter(seq_next, b)
    BY <2>2, <2>3 DEF RInv, Behind
  <2>6. Offset(origin, seq_next) <= Offset(origin, b)
    BY <2>4, <2>5, WindowOrder
  <2>7. ~(Offset(origin, b) < Offset(origin, p.seq))
    BY <1>3, <2>4, <2>6
  <2> QED
    BY <1>1, <2>3, <2>4, <2>7, WindowOrder
<1>6. InOrder
  BY <1>2, <1>5, ReleaseInOrder
<1> QED
  BY <1>4, <1>6

LEMMA PassInOrder ==
  ASSUME NEW origin \in SeqNumbers, RInv(origin), seq_next \in Window(origin),
         NEW p \in Packets, rx' = Append(rx, p),
         Fits(origin, p.seq, p.end), EnqueueOld(Len(rx) + 1, p)
  PROVE  InOrder /\ Advances(origin)
<1>1. /\ given' = Append(given, Len(rx) + 1) /\ NotAfter(p.end, seq_next)
      /\ UNCHANGED <<list_vars, count, seq_next>>
  BY DEF EnqueueOld
<1>2. Queue' = Queue /\ node' = node /\ seq_next' = seq_next
  BY <1>1 DEF Queue, list_vars
<1>3. Advances(origin)
  BY <1>2, NotBeforeItself DEF Advances, Window
<1>4. /\ given \in Seq(1..Len(rx)) /\ Len(given) \in Nat /\ Len(rx) \in Nat /\ rx \in Seq(Packets)
      /\ Len(Queue) \in Nat
  BY Facts
<1>5. rx'[Len(rx) + 1] = p /\ \A i \in 1..Len(rx) : rx'[i] = rx[i]
  BY <1>4, LogGrows
<1>6. Len(given') = Len(given) + 1 /\ given'[Len(given) + 1] = Len(rx) + 1
  <2>1. given \in Seq(Nat) /\ Len(rx) + 1 \in Nat
    BY <1>4, SeqMonotonic
  <2> QED
    BY <1>1, <2>1, AppendProperties
<1>7. ASSUME NEW y \in Held'
      PROVE  ~Before(rx'[y].seq, p.seq)
  <2>1. PICK k \in 1..Len(Queue) : y = node[Queue[k]].entry
    BY <1>2 DEF Held
  <2>2. y \in 1..Len(rx) /\ rx[y].seq = node[Queue[k]].seq
    BY <2>1 DEF RInv, Carries
  <2>3. PICK b : b = node[Queue[k]].seq
    OBVIOUS
  <2>4. b \in Window(origin) /\ Offset(origin, b) \in Nat /\ NotAfter(seq_next, b)
    BY <2>3, Facts DEF RInv, Behind
  <2>5. /\ p.seq \in Window(origin) /\ p.end \in Window(origin)
        /\ Offset(origin, p.seq) < Offset(origin, p.end)
    BY DEF Fits
  <2>6. /\ Offset(origin, p.seq) \in Nat /\ Offset(origin, p.end) \in Nat /\ Offset(origin, seq_next) \in Nat
        /\ Offset(origin, p.end) <= Offset(origin, seq_next)
        /\ Offset(origin, seq_next) <= Offset(origin, b)
    BY <1>1, <2>4, <2>5, WindowOrder
  <2>7. ~(Offset(origin, b) < Offset(origin, p.seq))
    BY <2>4, <2>5, <2>6
  <2>8. ~Before(b, p.seq)
    BY <2>4, <2>5, <2>7, WindowOrder
  <2> QED
    BY <1>5, <2>2, <2>3, <2>8
<1>8. \A i \in (Len(given) + 1)..Len(given') : i = Len(given) + 1
  BY <1>4, <1>6
<1>9. InOrder
  BY <1>5, <1>6, <1>7, <1>8 DEF InOrder
<1> QED
  BY <1>3, <1>9

(* A packet that is kept.                                                  *)
LEMMA KeepInOrder ==
  ASSUME NEW origin \in SeqNumbers, RInv(origin), seq_next \in Window(origin),
         UNCHANGED <<given, seq_next>>
  PROVE  InOrder /\ Advances(origin)
<1>1. Advances(origin)
  BY NotBeforeItself DEF Advances, Window
<1>2. Len(given) \in Nat /\ given' = given
  BY Facts
<1>3. \A i \in (Len(given) + 1)..Len(given') : FALSE
  BY <1>2
<1> QED
  BY <1>1, <1>3 DEF InOrder

LEMMA HandleInOrder ==
  ASSUME NEW origin \in SeqNumbers, RInv(origin), seq_next \in Window(origin),
         NEW p \in Packets, rx' = Append(rx, p), armed' \in BOOLEAN, p.end \in Window(origin),
         IsData(p) => Fits(origin, p.seq, p.end), ~p.syn, Handle(Len(rx) + 1, p)
  PROVE  InOrder /\ Advances(origin)
<1> DEFINE id == Len(rx) + 1
<1>1. ~EnqueueSyn(id, p)
  BY DEF EnqueueSyn
<1>2. CASE EnqueueEmpty(id, p)
  BY <1>2, FlushAllInOrder DEF EnqueueEmpty
<1>3. CASE EnqueueOld(id, p)
  <2>1. Fits(origin, p.seq, p.end)
    BY <1>3 DEF EnqueueOld
  <2> QED
    BY <1>3, <2>1, PassInOrder
<1>4. CASE EnqueueInSeq(id, p)
  <2>1. Fits(origin, p.seq, p.end)
    BY <1>4 DEF EnqueueInSeq
  <2> QED
    BY <1>4, <2>1, InSeqInOrder
<1>5. CASE EnqueueLimit(id, p)
  BY <1>5, FlushAllInOrder DEF EnqueueLimit
<1>6. CASE EnqueueFirst(id, p)
  BY <1>6, KeepInOrder DEF EnqueueFirst, Keep
<1>7. CASE EnqueueOverTail(id, p)
  BY <1>7, FlushAllInOrder DEF EnqueueOverTail
<1>8. CASE EnqueueTail(id, p)
  BY <1>8, KeepInOrder DEF EnqueueTail, Keep
<1>9. CASE EnqueueHead(id, p)
  BY <1>9, KeepInOrder DEF EnqueueHead, Keep
<1>10. CASE EnqueueOverPrev(id, p)
  <2>1. Fits(origin, p.seq, p.end)
    BY <1>10 DEF EnqueueOverPrev, Walks, Ahead
  <2>2. PICK k \in 0..Len(Queue) :
          /\ FlushAndAccept(k, Len(rx) + 1, p)
          /\ \A i \in (k + 1)..Len(Queue) :
               NotAfter(Later(FlushedTo(k), p.end), node[Queue[i]].seq)
    BY <1>10, <2>1, OverPrevFlushes
  <2> QED
    BY <2>1, <2>2, FlushInOrder
<1>11. CASE EnqueueBetween(id, p)
  BY <1>11, KeepInOrder DEF EnqueueBetween, Keep
<1> QED
  BY <1>1, <1>2, <1>3, <1>4, <1>5, <1>6, <1>7, <1>8, <1>9, <1>10, <1>11 DEF Handle

LEMMA TimerInOrder ==
  ASSUME NEW origin \in SeqNumbers, RInv(origin), seq_next \in Window(origin),
         FlushAll, rx' = rx, armed' \in BOOLEAN
  PROVE  Len(Queue') = 0 /\ Advances(origin)
<1>1. PICK k : k = Len(Queue)
  OBVIOUS
<1>2. Pop(k) /\ seq_next' = FlushedTo(k)
  BY <1>1 DEF FlushAll
<1>3. /\ k \in Nat /\ k \in 0..Len(Queue) /\ Queue \in Seq(Addresses) /\ rx \in Seq(Packets)
      /\ Len(Queue) \in Nat
  BY <1>1, Facts
<1>4. Len(Rest(Queue, k)) = 0
  <2>1. PICK s : s = Queue
    OBVIOUS
  <2>2. s \in Seq(Addresses) /\ k \in 0..Len(s) /\ Len(s) \in Nat /\ k = Len(s)
    BY <1>1, <1>3, <2>1
  <2>3. Len(Rest(s, k)) = Len(s) - k
    BY <2>2, RestOf, Zenon
  <2> QED
    BY <2>1, <2>2, <2>3
<1>5. Queue' = Rest(Queue, k)
  <2>1. Linked(Rest(Queue, k), head', tail', node', allocated')
    BY <1>2, <1>3, PopLeaves
  <2> QED
    BY <2>1, CellsOfList DEF Queue
<1>6. CASE k = 0
  <2>1. seq_next' = seq_next /\ seq_next \in SeqNumbers
    BY <1>2, <1>6 DEF FlushedTo, Window
  <2>2. ~Before(seq_next, seq_next)
    BY <2>1, NotBeforeItself
  <2> QED
    BY <1>4, <1>5, <2>1, <2>2 DEF Advances
<1>7. CASE k # 0
  <2>1. k \in 1..Len(Queue)
    BY <1>3, <1>7
  <2>2. PICK a, b : a = node[Queue[k]].seq /\ b = node[Queue[k]].end
    OBVIOUS
  <2>3. /\ a \in Window(origin) /\ b \in Window(origin) /\ Offset(origin, a) < Offset(origin, b)
        /\ Offset(origin, a) \in Nat /\ Offset(origin, b) \in Nat
    BY <2>1, <2>2, Facts
  <2>4. NotAfter(seq_next, a)
    BY <2>1, <2>2 DEF RInv, Behind
  <2>5. Offset(origin, seq_next) <= Offset(origin, a) /\ Offset(origin, seq_next) \in Nat
    BY <2>3, <2>4, WindowOrder
  <2>6. ~(Offset(origin, b) < Offset(origin, seq_next))
    BY <2>3, <2>5
  <2>7. ~Before(b, seq_next)
    BY <2>3, <2>6, WindowOrder
  <2>8. seq_next' = b
    BY <1>2, <1>7, <2>2 DEF FlushedTo
  <2> QED
    BY <1>4, <1>5, <2>3, <2>7, <2>8 DEF Advances
<1> QED
  BY <1>4, <1>5, <1>6, <1>7

-----------------------------------------------------------------------------
(* The invariant with seq_next in the same half of the space.              *)

NextInv == \E origin \in SeqNumbers : RInv(origin) /\ seq_next \in Window(origin)

(* A packet lies with seq_next and those held in half of the space, unless *)
(* it is the SYN of a new connection.                                      *)
WithNext(p) ==
  ~p.syn => \E o \in SeqNumbers :
              /\ p.end \in Window(o) /\ (IsData(p) => Fits(o, p.seq, p.end))
              /\ Within(Queue, node, o) /\ seq_next \in Window(o)

ConnectionWithinHalf == [][\A p \in Packets : Enqueue(p) => WithNext(p)]_vars

LEMMA OwnWindow ==
  ASSUME NEW s \in SeqNumbers
  PROVE  s \in Window(s)
<1>1. SeqRange \in Nat /\ SeqRange > 0 /\ SeqRange \div 2 > 0 /\ s - s = 0 /\ 0 \in 0..(SeqRange - 1)
  BY SeqRangeAssumption DEF SeqNumbers
<1>2. 0 % SeqRange = 0
  BY <1>1, SmallRemainder
<1> QED
  BY <1>1, <1>2 DEF Window, Offset

(* With nothing held, the half of the space may be taken from seq_next.    *)
LEMMA EmptyNextInv == ReorderInv /\ Len(Queue) = 0 => NextInv
<1> SUFFICES ASSUME ReorderInv, Len(Queue) = 0 PROVE NextInv
  OBVIOUS
<1>1. PICK origin \in SeqNumbers : RInv(origin)
  BY DEF ReorderInv
<1>2. seq_next \in SeqNumbers
  BY <1>1 DEF RInv, TypeOK, SeqNumbers
<1>3. Within(Queue, node, seq_next)
  BY DEF Within
<1>4. RInv(seq_next)
  BY <1>1, <1>2, <1>3, ChangeOrigin
<1> QED
  BY <1>2, <1>4, OwnWindow DEF NextInv

LEMMA InitNextInv == Init => NextInv
<1> SUFFICES ASSUME Init PROVE NextInv
  OBVIOUS
<1>1. ReorderInv
  BY InitReorderInv
<1>2. Len(Queue) = 0
  <2> DEFINE w == << >>
  <2>1. w \in Seq(Addresses) /\ Len(w) = 0
    OBVIOUS
  <2> HIDE DEF w
  <2>2. (\A i \in 1..Len(w) : FALSE) /\ (\A i \in 2..Len(w) : FALSE)
    BY <2>1
  <2>3. Linked(w, head, tail, node, allocated)
    BY <2>1, <2>2 DEF Linked, Init
  <2> QED
    BY <2>1, <2>3, CellsOfList DEF Queue
<1> QED
  BY <1>1, <1>2, EmptyNextInv

(* What the properties say of a step.                                      *)
Overtakes ==
  \E i \in (Len(given) + 1)..Len(given'), y \in Held' : Before(rx'[y].seq, rx'[given'[i]].seq)

MovesOn == ~Before(seq_next', seq_next) \/ (rx' # rx /\ rx'[Len(rx')].syn)

LEMMA NextKeepsNextInv ==
  NextInv /\ [Next]_vars /\ [\A p \in Packets : Enqueue(p) => WithNext(p)]_vars
    => NextInv' /\ [~Overtakes /\ MovesOn]_vars
<1> DEFINE Empty == Len(Queue) = 0
<1>6. ReorderInv /\ Empty => NextInv
  BY EmptyNextInv
<1> HIDE DEF Empty
<1>1. ReorderInv' /\ Empty' => NextInv'
  BY <1>6, PTL
<1> SUFFICES ASSUME NextInv, [Next]_vars,
                    [\A p \in Packets : Enqueue(p) => WithNext(p)]_vars
             PROVE  NextInv' /\ [~Overtakes /\ MovesOn]_vars
  OBVIOUS
<1>2. PICK o1 \in SeqNumbers : RInv(o1) /\ seq_next \in Window(o1)
  BY DEF NextInv
<1>3. CASE UNCHANGED vars
  <2>1. ReorderInv
    BY <1>2 DEF ReorderInv
  <2>2. /\ rx' = rx /\ given' = given /\ node' = node /\ allocated' = allocated
        /\ head' = head /\ tail' = tail /\ count' = count /\ seq_next' = seq_next /\ armed' = armed
    BY <1>3 DEF vars, list_vars
  <2>3. Queue' = Queue
    BY <2>2 DEF Queue
  <2>4. Seen' = Seen
    BY <2>2, <2>3 DEF Seen
  <2>5. TypeOK'
    BY <1>2, <2>2 DEF RInv, TypeOK
  <2>6. RInv(o1)'
    BY <1>2, <2>2, <2>3, <2>4, <2>5 DEF RInv
  <2>7. NextInv'
    BY <1>2, <2>2, <2>6 DEF NextInv
  <2> QED
    BY <1>3, <2>7
<1>4. CASE hrtimer_callback
  <2>1. FlushAll /\ rx' = rx /\ armed' \in BOOLEAN
    BY <1>4 DEF hrtimer_callback
  <2>2. RInv(o1)' /\ Len(Queue') = 0 /\ Advances(o1)
    BY <1>2, <2>1, TimerStep, TimerInOrder
  <2>3. Held' = {}
    <3>1. 1..Len(Queue') = {}
      BY <2>2
    <3> QED
      BY <3>1 DEF Held
  <2>4. ~Overtakes
    BY <2>3 DEF Overtakes
  <2>5. MovesOn
    BY <2>2 DEF Advances, MovesOn
  <2>6. NextInv'
    BY <1>2, <2>2 DEF NextInv, Advances
  <2> QED
    BY <2>4, <2>5, <2>6
<1>5. CASE vars' # vars /\ \E p \in Packets : Enqueue(p)
  <2>1. PICK p \in Packets : Enqueue(p)
    BY <1>5
  <2>2. rx' = Append(rx, p) /\ armed' \in BOOLEAN /\ Handle(Len(rx) + 1, p)
    BY <2>1 DEF Enqueue, Arrives
  <2>3. CASE ~p.syn
    <3>1. WithNext(p)
      BY <1>5, <2>1
    <3>2. PICK o \in SeqNumbers :
            /\ p.end \in Window(o) /\ (IsData(p) => Fits(o, p.seq, p.end))
            /\ Within(Queue, node, o) /\ seq_next \in Window(o)
      BY <2>3, <3>1 DEF WithNext
    <3>3. RInv(o)
      BY <1>2, <3>2, ChangeOrigin
    <3>4. RInv(o)'
      BY <2>2, <3>2, <3>3, HandleStep
    <3>5. InOrder /\ Advances(o)
      BY <2>2, <2>3, <3>2, <3>3, HandleInOrder
    <3>6. NextInv'
      BY <3>2, <3>4, <3>5 DEF NextInv, Advances
    <3>7. ~Overtakes
      BY <3>5 DEF InOrder, Overtakes
    <3>8. MovesOn
      BY <3>5 DEF Advances, MovesOn
    <3> QED
      BY <3>6, <3>7, <3>8
  <2>4. CASE p.syn
    <3>1. EnqueueSyn(Len(rx) + 1, p)
      BY <2>2, <2>4 DEF Handle, EnqueueEmpty, EnqueueOld, EnqueueInSeq, EnqueueLimit, EnqueueFirst,
           EnqueueOverTail, EnqueueTail, EnqueueHead, EnqueueOverPrev, EnqueueBetween,
           Walks, Ahead, IsData
    <3>2. RInv(o1)'
      BY <1>2, <2>2, <3>1, SynStep
    <3>3. InOrder /\ Len(Queue') = 0
      BY <1>2, <2>2, <3>1, SynInOrder
    <3>4. NextInv'
      BY <1>1, <1>2, <3>2, <3>3 DEF ReorderInv, Empty
    <3>5. rx' # rx /\ rx'[Len(rx')] = p
      <4>1. rx \in Seq(Packets)
        BY <1>2, Facts
      <4>2. Len(rx') = Len(rx) + 1 /\ rx'[Len(rx) + 1] = p /\ Len(rx) \in Nat
        BY <2>2, <4>1, LogGrows
      <4> QED
        BY <4>2
    <3>6. MovesOn
      BY <2>4, <3>5 DEF MovesOn
    <3>7. ~Overtakes
      BY <3>3 DEF InOrder, Overtakes
    <3> QED
      BY <3>4, <3>6, <3>7
  <2> QED
    BY <2>3, <2>4
<1> QED
  BY <1>3, <1>4, <1>5 DEF Next

(* A packet is never reinjected while one that precedes it is held back:   *)
(* not when the list is flushed up to an overlap, not when a gap is filled *)
(* and not when an old packet is waved through.                            *)
THEOREM OvertakingCorrect == Spec /\ ConnectionWithinHalf => NoOvertaking
<1>1. ~Overtakes => \A i \in (Len(given) + 1)..Len(given') : \A y \in Held' :
                      ~Before(rx'[y].seq, rx'[given'[i]].seq)
  BY DEF Overtakes
<1>2. NextInv /\ [Next]_vars /\ [\A p \in Packets : Enqueue(p) => WithNext(p)]_vars
        => NextInv' /\ [\A i \in (Len(given) + 1)..Len(given') : \A y \in Held' :
                          ~Before(rx'[y].seq, rx'[given'[i]].seq)]_vars
  BY <1>1, NextKeepsNextInv
<1> QED
  BY <1>2, InitNextInv, PTL DEF Spec, ConnectionWithinHalf, NoOvertaking

(* Without a new connection seq_next never moves back, although            *)
(* flush_reorder_queue assigns it whatever the node at the tail ends with. *)
THEOREM MonotoneCorrect == Spec /\ ConnectionWithinHalf => SeqNextMonotone
<1>1. NextInv /\ [Next]_vars /\ [\A p \in Packets : Enqueue(p) => WithNext(p)]_vars
        => NextInv' /\ [~Before(seq_next', seq_next) \/ (rx' # rx /\ rx'[Len(rx')].syn)]_vars
  BY NextKeepsNextInv DEF MovesOn
<1> QED
  BY <1>1, InitNextInv, PTL DEF Spec, ConnectionWithinHalf, SeqNextMonotone

-----------------------------------------------------------------------------
(* The lock and the timer interrupt.                                       *)

IrqInv == irq \in [CPUs -> BOOLEAN] /\ NoSelfDeadlock

LEMMA InitIrqInv == SmpInit => IrqInv
BY DEF SmpInit, IrqInv, NoSelfDeadlock

LEMMA NextKeepsIrqInv ==
  ASSUME IrqSave, IrqInv, [SmpNext]_smp_vars
  PROVE  IrqInv'
<1>1. irq \in [CPUs -> BOOLEAN] /\ \A c \in CPUs : ~(irq[c] /\ lock = c)
  BY DEF IrqInv, NoSelfDeadlock
<1>2. CASE UNCHANGED smp_vars
  BY <1>1, <1>2 DEF smp_vars, IrqInv, NoSelfDeadlock
<1>3. ASSUME NEW c \in CPUs, ParseSeq(c) \/ ParseLength(c) \/ StartTimer(c)
      PROVE  IrqInv'
  <2>1. irq' = irq /\ lock' = lock
    BY <1>3 DEF ParseSeq, ParseLength, StartTimer
  <2> QED
    BY <1>1, <2>1 DEF IrqInv, NoSelfDeadlock
<1>4. ASSUME NEW c \in CPUs, Enter(c)
      PROVE  IrqInv'
  (* The packet path goes on only when its CPU is not interrupted.         *)
  <2>1. irq' = irq /\ lock' = c /\ ~irq[c]
    BY <1>4 DEF Enter, StepsFrom
  <2> QED
    BY <1>1, <2>1 DEF IrqInv, NoSelfDeadlock
<1>5. ASSUME NEW c \in CPUs, Leave(c)
      PROVE  IrqInv'
  <2>1. irq' = irq /\ lock' = NULL
    BY <1>5 DEF Leave
  <2> QED
    BY <1>1, <2>1, CPUsAssumption DEF IrqInv, NoSelfDeadlock
<1>6. ASSUME NEW c \in CPUs, Expires(c)
      PROVE  IrqInv'
  <2>1. irq' = [irq EXCEPT ![c] = TRUE] /\ lock' = lock /\ lock # c
    BY <1>6 DEF Expires
  <2>2. \A d \in CPUs : irq'[d] = IF d = c THEN TRUE ELSE irq[d]
    BY <1>1, <2>1
  <2>3. irq' \in [CPUs -> BOOLEAN]
    BY <1>1, <2>1
  <2> QED
    BY <1>1, <2>1, <2>2, <2>3 DEF IrqInv, NoSelfDeadlock
<1>7. ASSUME NEW c \in CPUs, Callback(c)
      PROVE  IrqInv'
  <2>1. irq' = [irq EXCEPT ![c] = FALSE] /\ lock' = lock
    BY <1>7 DEF Callback
  <2>2. \A d \in CPUs : irq'[d] = IF d = c THEN FALSE ELSE irq[d]
    BY <1>1, <2>1
  <2>3. irq' \in [CPUs -> BOOLEAN]
    BY <1>1, <2>1
  <2> QED
    BY <1>1, <2>1, <2>2, <2>3 DEF IrqInv, NoSelfDeadlock
<1> QED
  BY <1>2, <1>3, <1>4, <1>5, <1>6, <1>7 DEF SmpNext, PacketPath

(* With spin_lock_irqsave the callback of the timer never spins on a lock  *)
(* that the code it has interrupted holds, on any number of CPUs.  With    *)
(* the plain spin_lock of reorder_advanced it may.                         *)
THEOREM SelfDeadlockCorrect ==
  ASSUME IrqSave
  PROVE  SmpSpec => []NoSelfDeadlock
<1>1. IrqInv /\ [SmpNext]_smp_vars => IrqInv'
  BY NextKeepsIrqInv
<1>2. IrqInv => NoSelfDeadlock
  BY DEF IrqInv
<1> QED
  BY <1>1, <1>2, InitIrqInv, PTL DEF SmpSpec
=============================================================================
