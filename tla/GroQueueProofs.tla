--------------------------- MODULE GroQueueProofs ---------------------------
(* Facts about the operators of GroQueue, for queues of any length.        *)
EXTENDS GroQueue, SerialNumbers, SequenceTheorems

(* A nonempty set of naturals has a least element, which Min returns.      *)
LEMMA MinNat ==
  ASSUME NEW T, T \subseteq Nat, T # {}
  PROVE  Min(T) \in T /\ \A y \in T : Min(T) <= y
BY LeastNat DEF Min

(* A nonempty set of naturals below a bound has a largest element.         *)
LEMMA MaxNat ==
  ASSUME NEW n \in Nat, NEW T, T \subseteq 0..n, T # {}
  PROVE  Max(T) \in T /\ \A y \in T : y <= Max(T)
<1> DEFINE U == {i \in 0..n : n - i \in T}
<1>1. U \subseteq Nat /\ U # {}
  <2>1. PICK t \in T : TRUE
    OBVIOUS
  <2>2. n - t \in U
    BY <2>1
  <2> QED
    BY <2>2
<1>2. Min(U) \in U /\ \A y \in U : Min(U) <= y
  BY <1>1, MinNat
<1> DEFINE x == n - Min(U)
<1>3. x \in T /\ \A y \in T : y <= x
  <2>1. x \in T
    BY <1>2
  <2>2. ASSUME NEW y \in T PROVE y <= x
    <3>1. n - y \in U
      OBVIOUS
    <3> QED
      BY <3>1, <1>2
  <2> QED
    BY <2>1, <2>2
<1> QED
  BY <1>3 DEF Max

(* Serial-number arithmetic stays in the space of sequence numbers.        *)
LEMMA SeqEndType ==
  ASSUME NEW skb \in SkbType
  PROVE  SeqEnd(skb) \in 0..(SeqRange - 1)
<1>1. skb.seq + skb.len \in Int
  BY SeqRangeAssumption DEF SkbType
<1> QED
  BY <1>1, SeqRangeAssumption DEF SeqEnd

LEMMA MaxSeqType ==
  ASSUME NEW a \in 0..(SeqRange - 1), NEW b \in 0..(SeqRange - 1)
  PROVE  max_seq(a, b) \in 0..(SeqRange - 1)
BY DEF max_seq

(* Removing and inserting an element.                                      *)
LEMMA RemoveAtProperties ==
  ASSUME NEW S, NEW s \in Seq(S), NEW i \in 1..Len(s)
  PROVE  /\ RemoveAt(s, i) \in Seq(S)
         /\ Len(RemoveAt(s, i)) = Len(s) - 1
         /\ \A j \in 1..(Len(s) - 1) :
              RemoveAt(s, i)[j] = IF j < i THEN s[j] ELSE s[j + 1]
<1> DEFINE a == SubSeq(s, 1, i - 1)
           b == SubSeq(s, i + 1, Len(s))
<1>1. /\ a \in Seq(S) /\ Len(a) = i - 1
      /\ \A j \in 1..(i - 1) : a[j] = s[j]
  BY SubSeqProperties, ElementOfSeq
<1>2. /\ b \in Seq(S) /\ Len(b) = Len(s) - i
      /\ \A j \in 1..(Len(s) - i) : b[j] = s[i + j]
  BY SubSeqProperties, ElementOfSeq
<1> HIDE DEF a, b
<1>3. /\ a \o b \in Seq(S)
      /\ Len(a \o b) = Len(a) + Len(b)
      /\ \A j \in 1..(Len(a) + Len(b)) :
           (a \o b)[j] = IF j <= Len(a) THEN a[j] ELSE b[j - Len(a)]
  BY <1>1, <1>2, ConcatProperties
<1>4. RemoveAt(s, i) = a \o b
  BY DEF RemoveAt, a, b
<1>5. Len(s) \in Nat
  BY LenProperties
<1>6. ASSUME NEW j \in 1..(Len(s) - 1)
      PROVE  (a \o b)[j] = IF j < i THEN s[j] ELSE s[j + 1]
  <2>1. CASE j < i
    <3>1. (a \o b)[j] = a[j]
      BY <1>1, <1>2, <1>3, <1>5, <2>1
    <3> QED
      BY <1>1, <1>5, <2>1, <3>1
  <2>2. CASE ~(j < i)
    <3>1. (a \o b)[j] = b[j - Len(a)] /\ j - Len(a) \in 1..(Len(s) - i)
      BY <1>1, <1>2, <1>3, <1>5, <2>2
    <3>2. b[j - Len(a)] = s[i + (j - Len(a))]
      BY <1>2, <3>1
    <3>3. i + (j - Len(a)) = j + 1
      BY <1>1, <1>5
    <3> QED
      BY <2>2, <3>1, <3>2, <3>3
  <2> QED
    BY <2>1, <2>2
<1>7. a \o b \in Seq(S) /\ Len(a \o b) = Len(s) - 1
  BY <1>1, <1>2, <1>3, <1>5
<1> QED
  BY <1>4, <1>6, <1>7, Zenon

LEMMA InsertAtProperties ==
  ASSUME NEW S, NEW s \in Seq(S), NEW i \in 1..(Len(s) + 1), NEW e \in S
  PROVE  /\ InsertAt(s, i, e) \in Seq(S)
         /\ Len(InsertAt(s, i, e)) = Len(s) + 1
         /\ InsertAt(s, i, e)[1] = IF i = 1 THEN e ELSE s[1]
<1> DEFINE a == SubSeq(s, 1, i - 1)
           b == SubSeq(s, i, Len(s))
<1>0. Len(s) \in Nat
  BY LenProperties
<1>1. /\ a \in Seq(S) /\ Len(a) = i - 1
      /\ \A j \in 1..(i - 1) : a[j] = s[j]
  BY <1>0, SubSeqProperties, ElementOfSeq
<1>2. b \in Seq(S) /\ Len(b) = Len(s) - i + 1
  BY <1>0, SubSeqProperties, ElementOfSeq
<1>3. <<e>> \in Seq(S) /\ Len(<<e>>) = 1 /\ <<e>>[1] = e
  OBVIOUS
<1>4. InsertAt(s, i, e) = (a \o <<e>>) \o b
  BY DEF InsertAt
<1> HIDE DEF a, b
<1> DEFINE c == a \o <<e>>
<1>5. /\ c \in Seq(S) /\ Len(c) = i
      /\ \A j \in 1..i : c[j] = IF j <= i - 1 THEN a[j] ELSE <<e>>[j - (i - 1)]
  BY <1>0, <1>1, <1>3, ConcatProperties
<1> HIDE DEF c
<1>6. /\ c \o b \in Seq(S) /\ Len(c \o b) = Len(s) + 1
      /\ (c \o b)[1] = c[1]
  <2>1. /\ c \o b \in Seq(S) /\ Len(c \o b) = Len(c) + Len(b)
        /\ \A j \in 1..(Len(c) + Len(b)) :
             (c \o b)[j] = IF j <= Len(c) THEN c[j] ELSE b[j - Len(c)]
    BY <1>2, <1>5, ConcatProperties
  <2>2. 1 \in 1..(Len(c) + Len(b)) /\ 1 <= Len(c) /\ Len(c) + Len(b) = Len(s) + 1
    BY <1>0, <1>2, <1>5
  <2> QED
    BY <2>1, <2>2
<1>7. c[1] = IF i = 1 THEN e ELSE s[1]
  BY <1>0, <1>1, <1>3, <1>5
<1> QED
  BY <1>4, <1>6, <1>7 DEF c

-----------------------------------------------------------------------------
(* What every step of tcp_gro_receive keeps: the queue is well formed, not *)
(* empty, belongs to the same port pair, and its first skb is the one that *)
(* stands for the flow in gro_list.                                        *)
OutcomeType ==
  [queue : QueueType, out : Seq(SkbType), head : Nat, kept : BOOLEAN]

GoodOutcome(r, h) ==
  /\ r \in OutcomeType
  /\ r.queue.items # <<>>
  /\ r.head = r.queue.items[1].id
  /\ r.queue.hash = h

(* A sequence of positive length is not empty.                             *)
LEMMA NonEmpty ==
  ASSUME NEW S, NEW s \in Seq(S), Len(s) > 0
  PROVE  s # <<>>
OBVIOUS

LEMMA MergedType ==
  ASSUME NEW p \in SkbType, NEW s \in SkbType
  PROVE  Merged(p, s) \in SkbType /\ Merged(p, s).id = p.id
<1> DEFINE a == s.psh
           b == s.gso_end \/ p.gso > s.gso
           l == p.len + s.len
           k == p.pkts \o s.pkts
<1>1. p.pkts \in Seq(Nat) /\ s.pkts \in Seq(Nat)
  BY DEF SkbType
<1>2. k \in Seq(Nat)
  BY <1>1, ConcatProperties
<1>3. a \in BOOLEAN /\ b \in BOOLEAN /\ l \in Nat
  BY DEF SkbType
<1>4. Merged(p, s) = [p EXCEPT !.psh = a, !.gso_end = b, !.len = l, !.pkts = k]
  BY DEF Merged
<1> HIDE DEF a, b, l, k
<1> QED
  BY <1>2, <1>3, <1>4 DEF SkbType

(* The parts of a good outcome.                                            *)
LEMMA GoodParts ==
  ASSUME NEW h, NEW r, GoodOutcome(r, h)
  PROVE  /\ r \in OutcomeType /\ r.queue \in QueueType
         /\ r.queue.items \in Seq(SkbType)
         /\ Len(r.queue.items) \in Nat /\ Len(r.queue.items) > 0
         /\ r.queue.skb_num \in Int /\ r.out \in Seq(SkbType)
         /\ r.head = r.queue.items[1].id /\ r.queue.hash = h
         /\ r.head \in Nat
<1>1. r \in OutcomeType /\ r.queue.items # <<>> /\ r.queue.hash = h
      /\ r.head = r.queue.items[1].id
  BY DEF GoodOutcome
<1>2. r.queue \in QueueType /\ r.out \in Seq(SkbType) /\ r.head \in Nat
  BY <1>1 DEF OutcomeType
<1>3. r.queue.items \in Seq(SkbType) /\ r.queue.skb_num \in Int
  BY <1>2 DEF QueueType
<1>4. Len(r.queue.items) \in Nat /\ Len(r.queue.items) > 0
  BY <1>1, <1>3, LenProperties, EmptySeq
<1> QED
  BY <1>1, <1>2, <1>3, <1>4

LEMMA DeliverGood ==
  ASSUME NEW h, NEW r, GoodOutcome(r, h)
  PROVE  GoodOutcome(Deliver(r), h) /\ Deliver(r).queue = r.queue
BY DEF Deliver, GoodOutcome, OutcomeType

LEMMA FlushToGood ==
  ASSUME NEW h, NEW r, GoodOutcome(r, h), NEW k \in 1..(Len(r.queue.items) - 1)
  PROVE  /\ GoodOutcome(FlushTo(r, k), h)
         /\ Len(FlushTo(r, k).queue.items) = Len(r.queue.items) - k
<1> DEFINE queue == r.queue
           items == queue.items
           rest  == SubSeq(items, k + 1, Len(items))
           front == SubSeq(items, 1, k)
           s     == SeqEnd(items[k])
           n     == queue.skb_num - k
           x     == items[k + 1].id
           pass  == r.out \o front
           q     == [queue EXCEPT !.items = rest, !.seq_next = s, !.age = 0,
                                  !.flushed = TRUE, !.skb_num = n]
           t     == FlushTo(r, k)
<1>1. /\ r \in OutcomeType /\ queue \in QueueType /\ items \in Seq(SkbType)
      /\ Len(items) \in Nat /\ queue.hash = h /\ r.out \in Seq(SkbType)
      /\ n \in Int /\ k \in 1..(Len(items) - 1)
  BY GoodParts
<1>2. t = [r EXCEPT !.queue = q, !.out = pass, !.head = x]
  BY DEF FlushTo
<1> HIDE DEF t, n, queue
<1>3. items[k] \in SkbType /\ items[k + 1] \in SkbType
  <2> HIDE DEF items
  <2>1. k \in 1..Len(items) /\ k + 1 \in 1..Len(items)
    BY <1>1
  <2> QED
    BY <1>1, <2>1, ElementOfSeq
<1>4. s \in 0..(SeqRange - 1)
  <2> HIDE DEF items
  <2> QED
    BY <1>3, SeqEndType
<1>5. x \in Nat
  BY <1>3 DEF SkbType
<1> HIDE DEF items, s, q
<1>6. rest \in Seq(SkbType) /\ Len(rest) = Len(items) - k /\ rest[1] = items[k + 1]
  <2>1. rest \in Seq(SkbType) /\ Len(rest) = Len(items) - k
    BY <1>1, SubSeqProperties, ElementOfSeq
  <2>2. rest[1] = items[k + 1]
    BY <1>1
  <2> QED
    BY <2>1, <2>2
<1>7. front \in Seq(SkbType)
  BY <1>1, SubSeqProperties, ElementOfSeq
<1> HIDE DEF rest, front
<1>8. pass \in Seq(SkbType)
  BY <1>1, <1>7, ConcatProperties
<1>9. rest # <<>>
  BY <1>1, <1>6, NonEmpty
<1>10. q \in QueueType /\ q.items = rest /\ q.hash = h
  BY <1>1, <1>4, <1>6 DEF q, QueueType
<1>11. x = rest[1].id
  BY <1>6
<1> HIDE DEF x, pass
<1>12. t \in OutcomeType /\ t.queue = q /\ t.head = x
  BY <1>1, <1>2, <1>5, <1>8, <1>10 DEF OutcomeType
<1>13. GoodOutcome(t, h)
  BY <1>9, <1>10, <1>11, <1>12 DEF GoodOutcome
<1>14. Len(t.queue.items) = Len(items) - k
  BY <1>6, <1>10, <1>12
<1> QED
  BY <1>13, <1>14 DEF t, items, queue

LEMMA InsertGood ==
  ASSUME NEW h, NEW r, GoodOutcome(r, h), NEW skb \in SkbType,
         NEW k \in 1..(Len(r.queue.items) + 1)
  PROVE  /\ GoodOutcome(Insert(r, k, skb), h)
         /\ Len(Insert(r, k, skb).queue.items) = Len(r.queue.items) + 1
<1> DEFINE queue == r.queue
           items == queue.items
           new   == InsertAt(items, k, skb)
           n     == queue.skb_num + 1
           x     == IF k = 1 THEN skb.id ELSE r.head
           q     == [queue EXCEPT !.items = new, !.skb_num = n]
           t     == Insert(r, k, skb)
<1>1. /\ r \in OutcomeType /\ queue \in QueueType /\ items \in Seq(SkbType)
      /\ Len(items) \in Nat /\ queue.hash = h /\ r.head = items[1].id
      /\ n \in Int /\ k \in 1..(Len(items) + 1) /\ r.head \in Nat
  BY GoodParts
<1>2. t = [r EXCEPT !.queue = q, !.head = x, !.kept = TRUE]
  BY DEF Insert
<1>3. skb.id \in Nat
  BY DEF SkbType
<1> HIDE DEF t, n, q, items, queue
<1>4. /\ new \in Seq(SkbType) /\ Len(new) = Len(items) + 1
      /\ new[1] = IF k = 1 THEN skb ELSE items[1]
  BY <1>1, InsertAtProperties
<1> HIDE DEF new
<1>5. new # <<>>
  BY <1>1, <1>4, NonEmpty
<1>6. q \in QueueType /\ q.items = new /\ q.hash = h
  BY <1>1, <1>4 DEF q, QueueType
<1>7. x = new[1].id /\ x \in Nat
  BY <1>1, <1>3, <1>4
<1> HIDE DEF x
<1>8. t \in OutcomeType /\ t.queue = q /\ t.head = x
  BY <1>1, <1>2, <1>6, <1>7 DEF OutcomeType
<1>9. GoodOutcome(t, h)
  BY <1>5, <1>6, <1>7, <1>8 DEF GoodOutcome
<1> QED
  BY <1>4, <1>6, <1>8, <1>9 DEF t, items, queue

LEMMA ReplaceGood ==
  ASSUME NEW h, NEW r, GoodOutcome(r, h), NEW skb \in SkbType,
         NEW k \in 1..Len(r.queue.items)
  PROVE  /\ GoodOutcome(Replace(r, k, skb), h)
         /\ Len(Replace(r, k, skb).queue.items) = Len(r.queue.items)
<1> DEFINE queue == r.queue
           items == queue.items
           new   == [items EXCEPT ![k] = skb]
           x     == IF k = 1 THEN skb.id ELSE r.head
           q     == [queue EXCEPT !.items = new]
           t     == Replace(r, k, skb)
<1>1. /\ r \in OutcomeType /\ queue \in QueueType /\ items \in Seq(SkbType)
      /\ Len(items) \in Nat /\ queue.hash = h /\ r.head = items[1].id
      /\ k \in 1..Len(items) /\ r.head \in Nat
  BY GoodParts
<1>2. t = [r EXCEPT !.queue = q, !.head = x, !.kept = TRUE]
  BY DEF Replace
<1>3. skb.id \in Nat
  BY DEF SkbType
<1> HIDE DEF t, q, items, queue
<1>4. /\ new \in Seq(SkbType) /\ Len(new) = Len(items)
      /\ new[1] = IF k = 1 THEN skb ELSE items[1]
  BY <1>1, ExceptSeq
<1> HIDE DEF new
<1>5. new # <<>>
  BY <1>1, <1>4, NonEmpty
<1>6. q \in QueueType /\ q.items = new /\ q.hash = h
  BY <1>1, <1>4 DEF q, QueueType
<1>7. x = new[1].id /\ x \in Nat
  BY <1>1, <1>3, <1>4
<1> HIDE DEF x
<1>8. t \in OutcomeType /\ t.queue = q /\ t.head = x
  BY <1>1, <1>2, <1>6, <1>7 DEF OutcomeType
<1>9. GoodOutcome(t, h)
  BY <1>5, <1>6, <1>7, <1>8 DEF GoodOutcome
<1> QED
  BY <1>4, <1>6, <1>8, <1>9 DEF t, items, queue

LEMMA UnlinkGood ==
  ASSUME NEW h, NEW r, GoodOutcome(r, h), NEW k \in 2..Len(r.queue.items)
  PROVE  /\ GoodOutcome(Unlink(r, k), h)
         /\ Len(Unlink(r, k).queue.items) = Len(r.queue.items) - 1
<1> DEFINE queue == r.queue
           items == queue.items
           new   == RemoveAt(items, k)
           n     == queue.skb_num - 1
           q     == [queue EXCEPT !.items = new, !.skb_num = n]
           t     == Unlink(r, k)
<1>1. /\ r \in OutcomeType /\ queue \in QueueType /\ items \in Seq(SkbType)
      /\ Len(items) \in Nat /\ queue.hash = h /\ r.head = items[1].id
      /\ n \in Int /\ k \in 2..Len(items) /\ k \in 1..Len(items) /\ r.head \in Nat
  BY GoodParts
<1>2. t = [r EXCEPT !.queue = q]
  BY DEF Unlink
<1> HIDE DEF t, n, q, items, queue
<1>3. /\ new \in Seq(SkbType) /\ Len(new) = Len(items) - 1
      /\ \A j \in 1..(Len(items) - 1) : new[j] = IF j < k THEN items[j] ELSE items[j + 1]
  BY <1>1, RemoveAtProperties
<1> HIDE DEF new
<1>4. new[1] = items[1] /\ Len(new) > 0
  BY <1>1, <1>3
<1>5. new # <<>>
  BY <1>3, <1>4, NonEmpty
<1>6. q \in QueueType /\ q.items = new /\ q.hash = h
  BY <1>1, <1>3 DEF q, QueueType
<1>7. t \in OutcomeType /\ t.queue = q /\ t.head = r.head
  BY <1>1, <1>2, <1>6 DEF OutcomeType
<1>8. GoodOutcome(t, h)
  BY <1>1, <1>4, <1>5, <1>6, <1>7 DEF GoodOutcome
<1> QED
  BY <1>3, <1>6, <1>7, <1>8 DEF t, items, queue

-----------------------------------------------------------------------------
(* The branches of the walk, and the walk itself.                          *)
LEMMA FlushBeforeGood ==
  ASSUME NEW h, NEW r, GoodOutcome(r, h), NEW k \in 1..Len(r.queue.items)
  PROVE  GoodOutcome(Deliver(IF k > 1 THEN FlushTo(r, k - 1) ELSE r), h)
<1>1. CASE k > 1
  <2>1. k - 1 \in 1..(Len(r.queue.items) - 1)
    BY <1>1, GoodParts
  <2>2. GoodOutcome(FlushTo(r, k - 1), h)
    BY <2>1, FlushToGood
  <2> QED
    BY <1>1, <2>2, DeliverGood
<1>2. CASE ~(k > 1)
  BY <1>2, DeliverGood
<1> QED
  BY <1>1, <1>2

LEMMA StopsBeforeGood ==
  ASSUME NEW h, NEW r, GoodOutcome(r, h), NEW k \in 1..Len(r.queue.items),
         NEW skb \in SkbType, NEW inseq
  PROVE  GoodOutcome(StopsBefore(r, k, skb, inseq), h)
<1>1. k \in 1..(Len(r.queue.items) + 1)
  BY GoodParts
<1>2. GoodOutcome(Insert(r, k, skb), h)
  BY <1>1, InsertGood
<1>3. GoodOutcome(Deliver(IF k > 1 THEN FlushTo(r, k - 1) ELSE r), h)
  BY FlushBeforeGood
<1> QED
  BY <1>2, <1>3, Zenon DEF StopsBefore

LEMMA JoinsNextGood ==
  ASSUME NEW h, NEW r, GoodOutcome(r, h), NEW k \in 1..Len(r.queue.items),
         NEW skb \in SkbType, NEW inseq
  PROVE  GoodOutcome(JoinsNext(r, k, skb, inseq), h)
<1> DEFINE p2 == r.queue.items[k]
           n  == Len(r.queue.items)
<1>1. p2 \in SkbType /\ n \in Nat /\ k \in 1..(n + 1)
  BY GoodParts, ElementOfSeq
<1>2. GoodOutcome(Replace(r, k, Merged(skb, p2)), h)
  <2>1. Merged(skb, p2) \in SkbType
    BY <1>1, MergedType
  <2> QED
    BY <2>1, ReplaceGood
<1>3. GoodOutcome(Insert(r, k, skb), h)
  BY <1>1, InsertGood
<1>4. GoodOutcome(Deliver(IF k > 1 THEN FlushTo(r, k - 1) ELSE r), h)
  BY FlushBeforeGood
<1>5. GoodOutcome(Deliver(IF k < n THEN FlushTo(r, k) ELSE r), h)
  <2>1. CASE k < n
    <3>1. k \in 1..(n - 1)
      BY <1>1, <2>1
    <3>2. GoodOutcome(FlushTo(r, k), h)
      BY <3>1, FlushToGood
    <3> QED
      BY <2>1, <3>2, DeliverGood
  <2>2. CASE ~(k < n)
    BY <2>2, DeliverGood
  <2> QED
    BY <2>1, <2>2
<1> HIDE DEF p2, n
<1>6. JoinsNext(r, k, skb, inseq) \in
        {Replace(r, k, Merged(skb, p2)), Insert(r, k, skb),
         Deliver(IF k < n THEN FlushTo(r, k) ELSE r),
         Deliver(IF k > 1 THEN FlushTo(r, k - 1) ELSE r)}
  BY Zenon DEF JoinsNext, p2, n
<1> QED
  BY <1>2, <1>3, <1>4, <1>5, <1>6, Zenon

LEMMA CannotJoinLastGood ==
  ASSUME NEW h, NEW r, GoodOutcome(r, h), NEW k \in 1..Len(r.queue.items),
         NEW skb \in SkbType, NEW inseq
  PROVE  GoodOutcome(CannotJoinLast(r, k, skb, inseq), h)
<1> DEFINE t == Insert(r, k + 1, skb)
<1>1. k + 1 \in 1..(Len(r.queue.items) + 1)
  BY GoodParts
<1>2. GoodOutcome(t, h) /\ Len(t.queue.items) = Len(r.queue.items) + 1
  BY <1>1, InsertGood
<1>3. GoodOutcome(FlushTo(t, k), h)
  <2> HIDE DEF t
  <2>1. k \in 1..(Len(t.queue.items) - 1)
    BY <1>2, GoodParts
  <2> QED
    BY <1>2, <2>1, FlushToGood
<1>4. GoodOutcome(Deliver(r), h)
  BY DeliverGood
<1>5. CannotJoinLast(r, k, skb, inseq) \in {Deliver(r), FlushTo(t, k), t}
  BY Zenon DEF CannotJoinLast
<1> QED
  BY <1>2, <1>3, <1>4, <1>5, Zenon

LEMMA JoinsPrevGood ==
  ASSUME NEW h, NEW r, GoodOutcome(r, h), NEW k \in 1..Len(r.queue.items),
         NEW skb \in SkbType, NEW inseq
  PROVE  GoodOutcome(JoinsPrev(r, k, skb, inseq), h)
<1> DEFINE p2     == r.queue.items[k]
           p3     == r.queue.items[k + 1]
           n      == Len(r.queue.items)
           m      == Merged(p2, skb)
           joined == Replace(r, k, m)
           m3     == Replace(r, k, Merged(m, p3))
           filled == Unlink(m3, k + 1)
<1>1. p2 \in SkbType /\ n \in Nat
  BY GoodParts, ElementOfSeq
<1>2. m \in SkbType
  BY <1>1, MergedType
<1>3. GoodOutcome(joined, h) /\ Len(joined.queue.items) = n
  BY <1>2, ReplaceGood
<1>4. ASSUME k < n PROVE GoodOutcome(FlushTo(joined, k), h)
  <2> HIDE DEF joined, n
  <2>1. k \in 1..(Len(joined.queue.items) - 1)
    BY <1>1, <1>3, <1>4
  <2> QED
    BY <1>3, <2>1, FlushToGood
<1>5. ASSUME k < n PROVE GoodOutcome(filled, h) /\ Len(filled.queue.items) = n - 1
  <2>1. r.queue.items \in Seq(SkbType) /\ k + 1 \in 1..Len(r.queue.items)
    BY <1>1, <1>5, GoodParts
  <2>2. p3 \in SkbType
    BY <2>1, ElementOfSeq
  <2>3. Merged(m, p3) \in SkbType
    BY <1>2, <2>2, MergedType
  <2>4. GoodOutcome(m3, h) /\ Len(m3.queue.items) = n
    BY <2>3, ReplaceGood
  <2> HIDE DEF m3, n
  <2>5. k + 1 \in 2..Len(m3.queue.items)
    BY <1>1, <1>5, <2>4
  <2> QED
    BY <2>4, <2>5, UnlinkGood
<1>6. ASSUME k + 1 < n PROVE GoodOutcome(FlushTo(filled, k), h)
  <2>1. k < n
    BY <1>1, <1>6
  <2> HIDE DEF filled, n
  <2>2. k \in 1..(Len(filled.queue.items) - 1)
    BY <1>1, <1>5, <1>6, <2>1
  <2> QED
    BY <1>5, <2>1, <2>2, FlushToGood
<1> HIDE DEF n
<1>7. \/ JoinsPrev(r, k, skb, inseq) = joined
      \/ k < n /\ JoinsPrev(r, k, skb, inseq) = FlushTo(joined, k)
      \/ k < n /\ JoinsPrev(r, k, skb, inseq) = filled
      \/ k + 1 < n /\ JoinsPrev(r, k, skb, inseq) = FlushTo(filled, k)
  BY Zenon DEF JoinsPrev, n
<1> HIDE DEF joined, filled
<1> QED
  BY <1>3, <1>4, <1>5, <1>6, <1>7, Zenon

(* The walk always stops at an skb of the queue, and what it flushed on    *)
(* the way lies in front of that skb.                                      *)
LEMMA StopIndexRange ==
  ASSUME NEW items \in Seq(SkbType), Len(items) > 0, NEW skb
  PROVE  StopIndex(items, skb) \in 1..Len(items)
<1> DEFINE T == {i \in 1..Len(items) : ~Passes(items, i, skb)}
<1>1. Len(items) \in Nat
  BY LenProperties
<1>2. Len(items) \in T
  BY <1>1 DEF Passes
<1>3. T \subseteq Nat /\ T # {} /\ T \subseteq 1..Len(items)
  BY <1>1, <1>2
<1>4. StopIndex(items, skb) = Min(T)
  BY DEF StopIndex
<1> HIDE DEF T
<1> QED
  BY <1>3, <1>4, MinNat

LEMMA WalkGood ==
  ASSUME NEW queue \in QueueType, queue.items # <<>>, NEW head,
         head = queue.items[1].id, NEW skb \in SkbType
  PROVE  GoodOutcome(Walk(queue, head, skb), queue.hash)
<1> DEFINE items == queue.items
           h     == queue.hash
           stop  == StopIndex(items, skb)
           way   == FlushedOnTheWay(queue, skb)
           f     == IF way = {} THEN 0 ELSE Max(way)
           start == Outcome(queue, <<>>, head, FALSE)
           r     == IF f = 0 THEN start ELSE FlushTo(start, f)
           k     == stop - f
           p2    == items[stop]
           inseq == InSeq(queue)[stop]
<1>1. items \in Seq(SkbType) /\ Len(items) \in Nat /\ Len(items) > 0
  <2>1. items \in Seq(SkbType)
    BY DEF QueueType
  <2> QED
    BY <2>1, LenProperties, EmptySeq
<1>2. stop \in 1..Len(items)
  <2> HIDE DEF items
  <2> QED
    BY <1>1, StopIndexRange
<1>3. f \in 0..(stop - 1)
  <2>1. way \subseteq 1..(stop - 1)
    BY DEF FlushedOnTheWay
  <2> HIDE DEF way, stop, items
  <2>2. way \subseteq 0..(stop - 1) /\ stop - 1 \in Nat
    BY <1>1, <1>2, <2>1
  <2>3. CASE way = {}
    BY <1>1, <1>2, <2>3
  <2>4. CASE way # {}
    <3>1. Max(way) \in way
      BY <2>2, <2>4, MaxNat
    <3> QED
      BY <2>2, <2>4, <3>1
  <2> QED
    BY <2>3, <2>4
<1>4. GoodOutcome(start, h) /\ start.queue.items = items
  <2>1. items[1] \in SkbType
    BY <1>1, ElementOfSeq
  <2>2. head \in Nat
    BY <2>1 DEF SkbType
  <2> QED
    BY <2>2 DEF GoodOutcome, OutcomeType, Outcome
<1> HIDE DEF f, start, stop
<1>5. GoodOutcome(r, h) /\ Len(r.queue.items) = Len(items) - f
  <2>1. CASE f = 0
    BY <1>1, <1>4, <2>1
  <2>2. CASE f # 0
    <3> HIDE DEF items, h
    <3>1. f \in 1..(Len(start.queue.items) - 1)
      BY <1>1, <1>2, <1>3, <1>4, <2>2
    <3> QED
      BY <1>4, <2>2, <3>1, FlushToGood
  <2> QED
    BY <2>1, <2>2
<1> HIDE DEF r, items, h
<1>6. k \in 1..Len(r.queue.items) /\ k + 1 \in 1..(Len(r.queue.items) + 1)
  BY <1>1, <1>2, <1>3, <1>5
<1> HIDE DEF k
<1>7. GoodOutcome(StopsBefore(r, k, skb, inseq), h)
  BY <1>5, <1>6, StopsBeforeGood
<1>8. GoodOutcome(JoinsNext(r, k, skb, inseq), h)
  BY <1>5, <1>6, JoinsNextGood
<1>9. GoodOutcome(JoinsPrev(r, k, skb, inseq), h)
  BY <1>5, <1>6, JoinsPrevGood
<1>10. GoodOutcome(CannotJoinLast(r, k, skb, inseq), h)
  BY <1>5, <1>6, CannotJoinLastGood
<1>11. GoodOutcome(Insert(r, k + 1, skb), h)
  BY <1>5, <1>6, InsertGood
<1>12. GoodOutcome(Deliver(r), h)
  BY <1>5, DeliverGood
<1>13. Walk(queue, head, skb) \in
         {StopsBefore(r, k, skb, inseq), JoinsNext(r, k, skb, inseq),
          JoinsPrev(r, k, skb, inseq), CannotJoinLast(r, k, skb, inseq),
          Insert(r, k + 1, skb), Deliver(r)}
  BY Zenon DEF Walk, r, k, f, start, stop, items
<1> HIDE DEF inseq
<1>14. GoodOutcome(Walk(queue, head, skb), h)
  BY <1>7, <1>8, <1>9, <1>10, <1>11, <1>12, <1>13, Zenon
<1> QED
  BY <1>14 DEF h

(* tcp_gro_receive leaves the queue of a flow well formed, not empty, and  *)
(* headed by the skb that it puts into gro_list, whatever the queue and    *)
(* the segment are.                                                        *)
THEOREM ReceiveKeepsHead ==
  ASSUME NEW queue \in QueueType, queue.items # <<>>, NEW head,
         head = queue.items[1].id, NEW skb \in SkbType, NEW ctl \in BOOLEAN
  PROVE  GoodOutcome(tcp_gro_receive(queue, head, skb, ctl), queue.hash)
<1> DEFINE back == [queue EXCEPT !.seq_next = skb.seq]
           stay == Outcome(queue, <<>>, head, FALSE)
<1>1. /\ back \in QueueType /\ back.items = queue.items /\ back.hash = queue.hash
  <2>1. skb.seq \in 0..(SeqRange - 1)
    BY DEF SkbType
  <2> QED
    BY <2>1 DEF QueueType
<1>2. GoodOutcome(stay, queue.hash)
  <2>1. queue.items \in Seq(SkbType)
    BY DEF QueueType
  <2>2. Len(queue.items) \in Nat /\ Len(queue.items) > 0
    BY <2>1, LenProperties, EmptySeq
  <2>3. queue.items[1] \in SkbType
    BY <2>1, <2>2, ElementOfSeq
  <2>4. head \in Nat
    BY <2>3 DEF SkbType
  <2> QED
    BY <2>4 DEF GoodOutcome, OutcomeType, Outcome
<1>3. GoodOutcome(Walk(queue, head, skb), queue.hash)
  BY WalkGood
<1>4. GoodOutcome(Walk(back, head, skb), queue.hash)
  <2> HIDE DEF back
  <2> QED
    BY <1>1, WalkGood
<1>5. tcp_gro_receive(queue, head, skb, ctl) \in
        {stay, Walk(queue, head, skb), Walk(back, head, skb)}
  BY Zenon DEF tcp_gro_receive
<1> HIDE DEF back, stay
<1> QED
  BY <1>2, <1>3, <1>4, <1>5, Zenon

-----------------------------------------------------------------------------
(* before compares every two sequence numbers, and is an order on a part   *)
(* of the space that is smaller than half of it.                           *)
SeqNumbers == 0..(SeqRange - 1)

Linear(W) ==
  /\ W \subseteq SeqNumbers
  /\ \A a, b, c \in W : before(a, b) /\ before(b, c) => before(a, c)

Window(base) == {x \in SeqNumbers : (x - base) % SeqRange < SeqRange \div 2}

LEMMA BeforeIrreflexive ==
  ASSUME NEW a \in SeqNumbers
  PROVE  ~before(a, a)
<1>1. PICK d : d = a - a
  OBVIOUS
<1>2. d = 0 /\ SeqRange \in Nat /\ SeqRange \div 2 > 0 /\ d \in 0..(SeqRange - 1)
  BY <1>1, SeqRangeAssumption DEF SeqNumbers
<1>3. d % SeqRange = d
  BY <1>2, SmallRemainder
<1>4. ~(d % SeqRange >= SeqRange \div 2)
  BY <1>2, <1>3
<1> QED
  BY <1>1, <1>4 DEF before

LEMMA WindowOrder ==
  ASSUME NEW base \in SeqNumbers, NEW a \in Window(base), NEW b \in Window(base)
  PROVE  before(a, b) <=> (a - base) % SeqRange < (b - base) % SeqRange
<1>1. SeqRange \in Nat /\ SeqRange > 0 /\ SeqRange % 2 = 0
  BY SeqRangeAssumption
<1>2. ((a - b) % SeqRange >= SeqRange \div 2) <=> (a - base) % SeqRange < (b - base) % SeqRange
  BY <1>1, OffsetOrder DEF Window, SeqNumbers
<1> QED
  BY <1>2 DEF before

LEMMA WindowLinear ==
  ASSUME NEW base \in SeqNumbers
  PROVE  Linear(Window(base))
<1>1. Window(base) \subseteq SeqNumbers
  BY DEF Window
<1>2. \A a \in Window(base) : (a - base) % SeqRange \in Int
  BY SeqRangeAssumption, Division DEF Window, SeqNumbers
<1>3. ASSUME NEW a \in Window(base), NEW b \in Window(base), NEW c \in Window(base),
             before(a, b), before(b, c)
      PROVE  before(a, c)
  <2>1. PICK x, y, z : /\ x = (a - base) % SeqRange /\ y = (b - base) % SeqRange
                       /\ z = (c - base) % SeqRange
    OBVIOUS
  <2>2. x < y /\ y < z /\ x \in Int /\ y \in Int /\ z \in Int
    BY <1>2, <1>3, <2>1, WindowOrder
  <2>3. x < z
    BY <2>2
  <2> QED
    BY <2>1, <2>3, WindowOrder
<1> QED
  BY <1>1, <1>3 DEF Linear

-----------------------------------------------------------------------------
(* What the steps of tcp_gro_receive keep of the skbs of a queue: they     *)
(* stay in a set G that legal merges do not leave, skb_num counts them,    *)
(* and, when their sequence numbers lie in a part W of the space on which  *)
(* before is an order, they stay in order.                                 *)
Chains(p, s) == Mergeable(p, s) /\ SeqEnd(p) = s.seq

Closed(G) == G \subseteq SkbType /\ \A p, s \in G : Chains(p, s) => Merged(p, s) \in G

InOrderedSpace(G, W) ==
  /\ Linear(W)
  /\ \A s \in G : s.seq \in W /\ SeqEnd(s) \in W /\ before(s.seq, SeqEnd(s))

Rising(items) ==
  \A i, j \in 1..Len(items) : i < j => before(items[i].seq, items[j].seq)

Kept(r, h, G, W) ==
  /\ GoodOutcome(r, h)
  /\ r.queue.items \in Seq(G) /\ r.out \in Seq(G)
  /\ r.queue.skb_num = Len(r.queue.items)
  /\ W # {} => Rising(r.queue.items)

LEMMA InsertAtElements ==
  ASSUME NEW S, NEW s \in Seq(S), NEW i \in 1..(Len(s) + 1), NEW e \in S
  PROVE  \A j \in 1..(Len(s) + 1) :
           InsertAt(s, i, e)[j] = IF j < i THEN s[j] ELSE IF j = i THEN e ELSE s[j - 1]
<1> DEFINE a == SubSeq(s, 1, i - 1)
           b == SubSeq(s, i, Len(s))
<1>0. Len(s) \in Nat
  BY LenProperties
<1>1. /\ a \in Seq(S) /\ Len(a) = i - 1
      /\ \A j \in 1..(i - 1) : a[j] = s[j]
  BY <1>0, SubSeqProperties, ElementOfSeq
<1>2. /\ b \in Seq(S) /\ Len(b) = Len(s) - i + 1
      /\ \A j \in 1..(Len(s) - i + 1) : b[j] = s[i + j - 1]
  BY <1>0, SubSeqProperties, ElementOfSeq
<1>3. <<e>> \in Seq(S) /\ Len(<<e>>) = 1 /\ <<e>>[1] = e
  OBVIOUS
<1>4. InsertAt(s, i, e) = (a \o <<e>>) \o b
  BY DEF InsertAt
<1> HIDE DEF a, b
<1> DEFINE c == a \o <<e>>
<1>5. /\ c \in Seq(S) /\ Len(c) = i
      /\ \A j \in 1..i : c[j] = IF j <= i - 1 THEN a[j] ELSE <<e>>[j - (i - 1)]
  BY <1>0, <1>1, <1>3, ConcatProperties
<1>6. \A j \in 1..i : c[j] = IF j < i THEN s[j] ELSE e
  BY <1>0, <1>1, <1>3, <1>5
<1> HIDE DEF c
<1>7. \A j \in 1..(Len(c) + Len(b)) : (c \o b)[j] = IF j <= Len(c) THEN c[j] ELSE b[j - Len(c)]
  BY <1>2, <1>5, ConcatProperties
<1>8. ASSUME NEW j \in 1..(Len(s) + 1)
      PROVE  (c \o b)[j] = IF j < i THEN s[j] ELSE IF j = i THEN e ELSE s[j - 1]
  <2>1. j \in 1..(Len(c) + Len(b)) /\ Len(c) = i
    BY <1>0, <1>2, <1>5
  <2>2. CASE j <= i
    <3>1. (c \o b)[j] = c[j] /\ j \in 1..i
      BY <1>7, <2>1, <2>2
    <3> QED
      BY <1>6, <2>2, <3>1
  <2>3. CASE ~(j <= i)
    <3>1. (c \o b)[j] = b[j - i] /\ j - i \in 1..(Len(s) - i + 1)
      BY <1>0, <1>7, <2>1, <2>3
    <3>2. b[j - i] = s[i + (j - i) - 1] /\ i + (j - i) - 1 = j - 1
      BY <1>0, <1>2, <3>1
    <3> QED
      BY <2>3, <3>1, <3>2
  <2> QED
    BY <2>2, <2>3
<1> QED
  BY <1>4, <1>8 DEF c

(* A part of a rising sequence rises.                                      *)
LEMMA PartProperties ==
  ASSUME NEW S, NEW s \in Seq(S), NEW m \in 1..(Len(s) + 1), NEW n \in (m - 1)..Len(s)
  PROVE  /\ SubSeq(s, m, n) \in Seq(S) /\ Len(SubSeq(s, m, n)) = n - m + 1
         /\ \A j \in 1..(n - m + 1) : SubSeq(s, m, n)[j] = s[m + j - 1]
         /\ Rising(s) => Rising(SubSeq(s, m, n))
<1> DEFINE t == SubSeq(s, m, n)
<1>0. Len(s) \in Nat
  BY LenProperties
<1>1. /\ t \in Seq(S) /\ Len(t) = n - m + 1
      /\ \A j \in 1..(n - m + 1) : t[j] = s[m + j - 1]
  BY <1>0, SubSeqProperties, ElementOfSeq
<1> HIDE DEF t
<1>2. ASSUME Rising(s) PROVE Rising(t)
  <2> SUFFICES ASSUME NEW i \in 1..Len(t), NEW j \in 1..Len(t), i < j
               PROVE  before(t[i].seq, t[j].seq)
    BY DEF Rising
  <2>1. PICK a, b : a = m + i - 1 /\ b = m + j - 1
    OBVIOUS
  <2>2. t[i] = s[a] /\ t[j] = s[b] /\ a \in 1..Len(s) /\ b \in 1..Len(s) /\ a < b
    BY <1>0, <1>1, <2>1
  <2> QED
    BY <1>2, <2>2 DEF Rising
<1> QED
  BY <1>1, <1>2 DEF t

LEMMA SeqIn ==
  ASSUME NEW S, NEW T, NEW s \in Seq(T), \A i \in 1..Len(s) : s[i] \in S
  PROVE  s \in Seq(S)
<1>1. Len(s) \in Nat /\ DOMAIN s = 1..Len(s) /\ s = [i \in 1..Len(s) |-> s[i]]
  BY LenProperties
<1>2. PICK n : n = Len(s)
  OBVIOUS
<1>3. s \in [1..n -> S] /\ n \in Nat
  BY <1>1, <1>2
<1> QED
  BY <1>3, SeqDef

(* What each step does to the parts that Kept speaks of.                   *)
LEMMA FlushToParts ==
  ASSUME NEW h, NEW r, GoodOutcome(r, h), NEW k
  PROVE  /\ FlushTo(r, k).queue.items = SubSeq(r.queue.items, k + 1, Len(r.queue.items))
         /\ FlushTo(r, k).queue.skb_num = r.queue.skb_num - k
         /\ FlushTo(r, k).out = r.out \o SubSeq(r.queue.items, 1, k)
<1> DEFINE queue == r.queue
           rest  == SubSeq(queue.items, k + 1, Len(queue.items))
           s     == SeqEnd(queue.items[k])
           n     == queue.skb_num - k
           x     == queue.items[k + 1].id
           pass  == r.out \o SubSeq(queue.items, 1, k)
           q     == [queue EXCEPT !.items = rest, !.seq_next = s, !.age = 0,
                                  !.flushed = TRUE, !.skb_num = n]
<1>1. r \in OutcomeType /\ queue \in QueueType
  BY GoodParts
<1>2. FlushTo(r, k) = [r EXCEPT !.queue = q, !.out = pass, !.head = x]
  BY DEF FlushTo
<1> HIDE DEF n, rest, s, x, pass, queue
<1>3. q.items = rest /\ q.skb_num = n
  BY <1>1 DEF QueueType
<1> HIDE DEF q
<1>4. FlushTo(r, k).queue = q /\ FlushTo(r, k).out = pass
  BY <1>1, <1>2 DEF OutcomeType
<1> QED
  BY <1>3, <1>4 DEF n, rest, pass, queue

LEMMA InsertParts ==
  ASSUME NEW h, NEW r, GoodOutcome(r, h), NEW k, NEW skb
  PROVE  /\ Insert(r, k, skb).queue.items = InsertAt(r.queue.items, k, skb)
         /\ Insert(r, k, skb).queue.skb_num = r.queue.skb_num + 1
         /\ Insert(r, k, skb).out = r.out
<1> DEFINE queue == r.queue
           new   == InsertAt(queue.items, k, skb)
           n     == queue.skb_num + 1
           x     == IF k = 1 THEN skb.id ELSE r.head
           q     == [queue EXCEPT !.items = new, !.skb_num = n]
<1>1. r \in OutcomeType /\ queue \in QueueType
  BY GoodParts
<1>2. Insert(r, k, skb) = [r EXCEPT !.queue = q, !.head = x, !.kept = TRUE]
  BY DEF Insert
<1> HIDE DEF n, new, x, queue
<1>3. q.items = new /\ q.skb_num = n
  BY <1>1 DEF QueueType
<1> HIDE DEF q
<1>4. Insert(r, k, skb).queue = q /\ Insert(r, k, skb).out = r.out
  BY <1>1, <1>2 DEF OutcomeType
<1> QED
  BY <1>3, <1>4 DEF n, new, queue

LEMMA ReplaceParts ==
  ASSUME NEW h, NEW r, GoodOutcome(r, h), NEW k, NEW skb
  PROVE  /\ Replace(r, k, skb).queue.items = [r.queue.items EXCEPT ![k] = skb]
         /\ Replace(r, k, skb).queue.skb_num = r.queue.skb_num
         /\ Replace(r, k, skb).out = r.out
<1> DEFINE queue == r.queue
           new   == [queue.items EXCEPT ![k] = skb]
           x     == IF k = 1 THEN skb.id ELSE r.head
           q     == [queue EXCEPT !.items = new]
<1>1. r \in OutcomeType /\ queue \in QueueType
  BY GoodParts
<1>2. Replace(r, k, skb) = [r EXCEPT !.queue = q, !.head = x, !.kept = TRUE]
  BY DEF Replace
<1> HIDE DEF new, x, queue
<1>3. q.items = new /\ q.skb_num = queue.skb_num
  BY <1>1 DEF QueueType
<1> HIDE DEF q
<1>4. Replace(r, k, skb).queue = q /\ Replace(r, k, skb).out = r.out
  BY <1>1, <1>2 DEF OutcomeType
<1> QED
  BY <1>3, <1>4 DEF new, queue

LEMMA UnlinkParts ==
  ASSUME NEW h, NEW r, GoodOutcome(r, h), NEW k
  PROVE  /\ Unlink(r, k).queue.items = RemoveAt(r.queue.items, k)
         /\ Unlink(r, k).queue.skb_num = r.queue.skb_num - 1
         /\ Unlink(r, k).out = r.out
<1> DEFINE queue == r.queue
           new   == RemoveAt(queue.items, k)
           n     == queue.skb_num - 1
           q     == [queue EXCEPT !.items = new, !.skb_num = n]
<1>1. r \in OutcomeType /\ queue \in QueueType
  BY GoodParts
<1>2. Unlink(r, k) = [r EXCEPT !.queue = q]
  BY DEF Unlink
<1> HIDE DEF n, new, queue
<1>3. q.items = new /\ q.skb_num = n
  BY <1>1 DEF QueueType
<1> HIDE DEF q
<1>4. Unlink(r, k).queue = q /\ Unlink(r, k).out = r.out
  BY <1>1, <1>2 DEF OutcomeType
<1> QED
  BY <1>3, <1>4 DEF n, new, queue

LEMMA KeptParts ==
  ASSUME NEW h, NEW r, NEW G, NEW W, Kept(r, h, G, W)
  PROVE  /\ GoodOutcome(r, h) /\ r.queue.items \in Seq(G) /\ r.out \in Seq(G)
         /\ Len(r.queue.items) \in Nat /\ Len(r.queue.items) > 0
         /\ r.queue.skb_num = Len(r.queue.items)
         /\ W # {} => Rising(r.queue.items)
BY GoodParts DEF Kept

LEMMA DeliverKeeps ==
  ASSUME NEW h, NEW r, NEW G, NEW W, Kept(r, h, G, W)
  PROVE  Kept(Deliver(r), h, G, W)
<1>1. Deliver(r).queue = r.queue /\ Deliver(r).out = r.out /\ GoodOutcome(Deliver(r), h)
  BY KeptParts, DeliverGood, GoodParts DEF Deliver, OutcomeType
<1> QED
  BY <1>1 DEF Kept

LEMMA FlushToKeeps ==
  ASSUME NEW h, NEW r, NEW G, NEW W, Kept(r, h, G, W),
         NEW k \in 1..(Len(r.queue.items) - 1)
  PROVE  /\ Kept(FlushTo(r, k), h, G, W)
         /\ Len(FlushTo(r, k).queue.items) = Len(r.queue.items) - k
         /\ \A j \in 1..(Len(r.queue.items) - k) :
              FlushTo(r, k).queue.items[j] = r.queue.items[k + j]
<1> DEFINE items == r.queue.items
           rest  == SubSeq(items, k + 1, Len(items))
           front == SubSeq(items, 1, k)
           t     == FlushTo(r, k)
<1>1. /\ GoodOutcome(r, h) /\ items \in Seq(G) /\ r.out \in Seq(G) /\ Len(items) \in Nat
      /\ r.queue.skb_num = Len(items) /\ (W # {} => Rising(items))
  BY KeptParts
<1>2. GoodOutcome(t, h)
  BY <1>1, FlushToGood
<1>3. t.queue.items = rest /\ t.queue.skb_num = Len(items) - k /\ t.out = r.out \o front
  BY <1>1, FlushToParts
<1> HIDE DEF items, t
<1>4. k \in 1..(Len(items) - 1)
  BY DEF items
<1>5. /\ rest \in Seq(G) /\ Len(rest) = Len(items) - (k + 1) + 1
      /\ \A j \in 1..(Len(items) - (k + 1) + 1) : rest[j] = items[(k + 1) + j - 1]
      /\ Rising(items) => Rising(rest)
  <2>1. k + 1 \in 1..(Len(items) + 1) /\ Len(items) \in ((k + 1) - 1)..Len(items)
    BY <1>1, <1>4
  <2> QED
    BY <1>1, <2>1, PartProperties
<1>6. front \in Seq(G)
  <2>1. 1 \in 1..(Len(items) + 1) /\ k \in (1 - 1)..Len(items)
    BY <1>1, <1>4
  <2> QED
    BY <1>1, <2>1, PartProperties
<1> HIDE DEF rest, front
<1>7. /\ Len(rest) = Len(items) - k
      /\ \A j \in 1..(Len(items) - k) : rest[j] = items[k + j]
  BY <1>1, <1>4, <1>5
<1>8. r.out \o front \in Seq(G)
  BY <1>1, <1>6, ConcatProperties
<1> QED
  BY <1>1, <1>2, <1>3, <1>5, <1>7, <1>8 DEF Kept, items, t

LEMMA InsertKeeps ==
  ASSUME NEW h, NEW r, NEW G, NEW W, Kept(r, h, G, W), G \subseteq SkbType,
         NEW skb \in G, NEW k \in 1..(Len(r.queue.items) + 1),
         W # {} => /\ \A j \in 1..(k - 1) : before(r.queue.items[j].seq, skb.seq)
                   /\ \A j \in k..Len(r.queue.items) : before(skb.seq, r.queue.items[j].seq)
  PROVE  Kept(Insert(r, k, skb), h, G, W)
<1> DEFINE items == r.queue.items
           new   == InsertAt(items, k, skb)
           t     == Insert(r, k, skb)
<1>1. /\ GoodOutcome(r, h) /\ items \in Seq(G) /\ r.out \in Seq(G) /\ Len(items) \in Nat
      /\ r.queue.skb_num = Len(items) /\ (W # {} => Rising(items))
  BY KeptParts
<1>2. GoodOutcome(t, h)
  BY <1>1, InsertGood
<1>3. t.queue.items = new /\ t.queue.skb_num = Len(items) + 1 /\ t.out = r.out
  BY <1>1, InsertParts
<1>4. /\ k \in 1..(Len(items) + 1)
      /\ W # {} => /\ \A j \in 1..(k - 1) : before(items[j].seq, skb.seq)
                   /\ \A j \in k..Len(items) : before(skb.seq, items[j].seq)
  OBVIOUS
<1> HIDE DEF items, t
<1>5. new \in Seq(G) /\ Len(new) = Len(items) + 1
  BY <1>1, <1>4, InsertAtProperties
<1>6. \A j \in 1..(Len(items) + 1) :
        new[j] = IF j < k THEN items[j] ELSE IF j = k THEN skb ELSE items[j - 1]
  BY <1>1, <1>4, InsertAtElements
<1> HIDE DEF new
<1>7. ASSUME W # {}, NEW i \in 1..Len(new), NEW j \in 1..Len(new), i < j
      PROVE  before(new[i].seq, new[j].seq)
  <2>0. /\ i \in 1..(Len(items) + 1) /\ j \in 1..(Len(items) + 1) /\ k \in Nat
        /\ i \in Nat /\ j \in Nat /\ Rising(items)
    BY <1>1, <1>4, <1>5, <1>7
  <2>1. CASE j < k
    <3>1. new[i] = items[i] /\ new[j] = items[j] /\ i \in 1..Len(items) /\ j \in 1..Len(items)
      BY <1>1, <1>4, <1>6, <1>7, <2>0, <2>1
    <3> QED
      BY <1>7, <2>0, <3>1 DEF Rising
  <2>2. CASE j = k
    <3>1. new[i] = items[i] /\ new[j] = skb /\ i \in 1..(k - 1)
      BY <1>1, <1>4, <1>6, <1>7, <2>0, <2>2
    <3> QED
      BY <1>4, <1>7, <3>1
  <2>3. CASE j > k
    <3>1. new[j] = items[j - 1] /\ j - 1 \in 1..Len(items) /\ j - 1 \in k..Len(items)
      BY <1>1, <1>4, <1>6, <1>7, <2>0, <2>3
    <3>2. CASE i < k
      <4>1. new[i] = items[i] /\ i \in 1..Len(items) /\ i < j - 1
        BY <1>1, <1>4, <1>6, <2>0, <2>3, <3>2
      <4> QED
        BY <2>0, <3>1, <4>1 DEF Rising
    <3>3. CASE i = k
      <4>1. new[i] = skb
        BY <1>6, <2>0, <3>3
      <4> QED
        BY <1>4, <1>7, <3>1, <4>1
    <3>4. CASE i > k
      <4>1. new[i] = items[i - 1] /\ i - 1 \in 1..Len(items) /\ i - 1 < j - 1
        BY <1>1, <1>4, <1>6, <1>7, <2>0, <3>4
      <4> QED
        BY <2>0, <3>1, <4>1 DEF Rising
    <3> QED
      BY <2>0, <3>2, <3>3, <3>4
  <2> QED
    BY <2>0, <2>1, <2>2, <2>3
<1>8. W # {} => Rising(new)
  BY <1>7 DEF Rising
<1> QED
  BY <1>1, <1>2, <1>3, <1>5, <1>8 DEF Kept, t

LEMMA ReplaceKeeps ==
  ASSUME NEW h, NEW r, NEW G, NEW W, Kept(r, h, G, W), G \subseteq SkbType,
         NEW skb \in G, NEW k \in 1..Len(r.queue.items),
         W # {} => /\ \A j \in 1..(k - 1) : before(r.queue.items[j].seq, skb.seq)
                   /\ \A j \in (k + 1)..Len(r.queue.items) : before(skb.seq, r.queue.items[j].seq)
  PROVE  Kept(Replace(r, k, skb), h, G, W)
<1> DEFINE items == r.queue.items
           new   == [items EXCEPT ![k] = skb]
           t     == Replace(r, k, skb)
<1>1. /\ GoodOutcome(r, h) /\ items \in Seq(G) /\ r.out \in Seq(G) /\ Len(items) \in Nat
      /\ r.queue.skb_num = Len(items) /\ (W # {} => Rising(items))
  BY KeptParts
<1>2. GoodOutcome(t, h)
  BY <1>1, ReplaceGood
<1>3. t.queue.items = new /\ t.queue.skb_num = Len(items) /\ t.out = r.out
  BY <1>1, ReplaceParts
<1>4. /\ k \in 1..Len(items)
      /\ W # {} => /\ \A j \in 1..(k - 1) : before(items[j].seq, skb.seq)
                   /\ \A j \in (k + 1)..Len(items) : before(skb.seq, items[j].seq)
  OBVIOUS
<1> HIDE DEF items, t
<1>5. new \in Seq(G) /\ Len(new) = Len(items)
  BY <1>1, <1>4, ExceptSeq
<1>6. \A j \in 1..Len(items) : new[j] = IF j = k THEN skb ELSE items[j]
  BY <1>1, <1>4, ExceptSeq
<1> HIDE DEF new
<1>7. ASSUME W # {}, NEW i \in 1..Len(new), NEW j \in 1..Len(new), i < j
      PROVE  before(new[i].seq, new[j].seq)
  <2>0. /\ i \in 1..Len(items) /\ j \in 1..Len(items) /\ k \in Nat
        /\ i \in Nat /\ j \in Nat /\ Rising(items)
    BY <1>1, <1>4, <1>5, <1>7
  <2>1. CASE j = k
    <3>1. new[i] = items[i] /\ new[j] = skb /\ i \in 1..(k - 1)
      BY <1>6, <1>7, <2>0, <2>1
    <3> QED
      BY <1>4, <1>7, <3>1
  <2>2. CASE i = k
    <3>1. new[i] = skb /\ new[j] = items[j] /\ j \in (k + 1)..Len(items)
      BY <1>1, <1>6, <1>7, <2>0, <2>2
    <3> QED
      BY <1>4, <1>7, <3>1
  <2>3. CASE i # k /\ j # k
    <3>1. new[i] = items[i] /\ new[j] = items[j]
      BY <1>6, <2>0, <2>3
    <3> QED
      BY <1>7, <2>0, <3>1 DEF Rising
  <2> QED
    BY <2>1, <2>2, <2>3
<1>8. W # {} => Rising(new)
  BY <1>7 DEF Rising
<1> QED
  BY <1>1, <1>2, <1>3, <1>5, <1>8 DEF Kept, t, items

LEMMA UnlinkKeeps ==
  ASSUME NEW h, NEW r, NEW G, NEW W, Kept(r, h, G, W),
         NEW k \in 2..Len(r.queue.items)
  PROVE  /\ Kept(Unlink(r, k), h, G, W)
         /\ Len(Unlink(r, k).queue.items) = Len(r.queue.items) - 1
<1> DEFINE items == r.queue.items
           new   == RemoveAt(items, k)
           t     == Unlink(r, k)
<1>1. /\ GoodOutcome(r, h) /\ items \in Seq(G) /\ r.out \in Seq(G) /\ Len(items) \in Nat
      /\ r.queue.skb_num = Len(items) /\ (W # {} => Rising(items))
  BY KeptParts
<1>2. GoodOutcome(t, h) /\ Len(t.queue.items) = Len(items) - 1
  BY <1>1, UnlinkGood
<1>3. t.queue.items = new /\ t.queue.skb_num = Len(items) - 1 /\ t.out = r.out
  BY <1>1, UnlinkParts
<1>4. k \in 1..Len(items)
  OBVIOUS
<1> HIDE DEF items, t
<1>5. /\ new \in Seq(G) /\ Len(new) = Len(items) - 1
      /\ \A j \in 1..(Len(items) - 1) : new[j] = IF j < k THEN items[j] ELSE items[j + 1]
  BY <1>1, <1>4, RemoveAtProperties
<1> HIDE DEF new
<1>7. ASSUME Rising(items), NEW i \in 1..Len(new), NEW j \in 1..Len(new), i < j
      PROVE  before(new[i].seq, new[j].seq)
  <2>1. PICK a, b : /\ a = (IF i < k THEN i ELSE i + 1)
                    /\ b = (IF j < k THEN j ELSE j + 1)
    OBVIOUS
  <2>2. new[i] = items[a] /\ new[j] = items[b]
    BY <1>5, <2>1
  <2>3. a \in 1..Len(items) /\ b \in 1..Len(items) /\ a < b
    BY <1>1, <1>4, <1>5, <1>7, <2>1
  <2> QED
    BY <1>7, <2>2, <2>3 DEF Rising
<1>8. W # {} => Rising(new)
  BY <1>1, <1>7 DEF Rising
<1> QED
  BY <1>1, <1>2, <1>3, <1>5, <1>8 DEF Kept, t, items

(* A merge that chains two skbs starts and ends where they do.             *)
LEMMA MergedEnds ==
  ASSUME NEW p \in SkbType, NEW s \in SkbType, SeqEnd(p) = s.seq
  PROVE  /\ Merged(p, s).seq = p.seq /\ Merged(p, s).len = p.len + s.len
         /\ Merged(p, s).hdr = p.hdr /\ Merged(p, s).gso = p.gso
         /\ Merged(p, s).psh = s.psh /\ Merged(p, s).gso_end = (s.gso_end \/ p.gso > s.gso)
         /\ Merged(p, s).pkts = p.pkts \o s.pkts
         /\ SeqEnd(Merged(p, s)) = SeqEnd(s)
<1> DEFINE a == s.psh
           b == s.gso_end \/ p.gso > s.gso
           l == p.len + s.len
           k == p.pkts \o s.pkts
           m == [p EXCEPT !.psh = a, !.gso_end = b, !.len = l, !.pkts = k]
<1>1. Merged(p, s) = m
  BY DEF Merged
<1> HIDE DEF a, b, l, k
<1>2. /\ m.seq = p.seq /\ m.len = l /\ m.hdr = p.hdr /\ m.gso = p.gso
      /\ m.psh = a /\ m.gso_end = b /\ m.pkts = k
  BY DEF SkbType
<1> HIDE DEF m
<1>3. (m.seq + m.len) % SeqRange = (s.seq + s.len) % SeqRange
  <2>1. /\ p.seq \in Int /\ p.len \in Int /\ s.seq \in Int /\ s.len \in Int
        /\ SeqRange \in Nat /\ SeqRange > 0
    BY SeqRangeAssumption DEF SkbType
  <2>2. PICK x, y : x = p.seq + p.len /\ y = s.len
    OBVIOUS
  <2>3. x \in Int /\ y \in Int /\ m.seq + m.len = x + y
    BY <1>2, <2>1, <2>2 DEF l
  <2>4. x % SeqRange = s.seq
    BY <2>2 DEF SeqEnd
  <2>5. ((x % SeqRange) + y) % SeqRange = (x + y) % SeqRange
    BY <2>1, <2>3, ReduceTerm
  <2> QED
    BY <2>2, <2>3, <2>4, <2>5
<1> QED
  BY <1>1, <1>2, <1>3 DEF a, b, l, k, SeqEnd

(* An skb is in front of, or behind, all that its neighbour is.            *)
LEMMA BeforeAll ==
  ASSUME NEW W, Linear(W), NEW S, NEW items \in Seq(S), \A s \in S : s.seq \in W,
         Rising(items), NEW k \in 1..Len(items), NEW x \in W
  PROVE  /\ before(items[k].seq, x) => \A j \in 1..k : before(items[j].seq, x)
         /\ before(x, items[k].seq) => \A j \in k..Len(items) : before(x, items[j].seq)
<1>0. Len(items) \in Nat
  BY LenProperties
<1>1. ASSUME before(items[k].seq, x), NEW j \in 1..k PROVE before(items[j].seq, x)
  <2>1. CASE j = k
    BY <1>1, <2>1
  <2>2. CASE j # k
    <3>1. j \in 1..Len(items) /\ j < k
      BY <1>0, <2>2
    <3>2. before(items[j].seq, items[k].seq)
      BY <3>1 DEF Rising
    <3>3. items[j].seq \in W /\ items[k].seq \in W
      BY <3>1, ElementOfSeq
    <3> QED
      BY <1>1, <3>2, <3>3 DEF Linear
  <2> QED
    BY <2>1, <2>2
<1>2. ASSUME before(x, items[k].seq), NEW j \in k..Len(items) PROVE before(x, items[j].seq)
  <2>1. CASE j = k
    BY <1>2, <2>1
  <2>2. CASE j # k
    <3>1. j \in 1..Len(items) /\ k < j
      BY <1>0, <2>2
    <3>2. before(items[k].seq, items[j].seq)
      BY <3>1 DEF Rising
    <3>3. items[j].seq \in W /\ items[k].seq \in W
      BY <3>1, ElementOfSeq
    <3> QED
      BY <1>2, <3>2, <3>3 DEF Linear
  <2> QED
    BY <2>1, <2>2
<1> QED
  BY <1>1, <1>2

(* The skbs of G have room to be ordered in: what one branch of the walk   *)
(* needs of the position at which it stops.                                *)
Space(G, W) == Closed(G) /\ (W # {} => InOrderedSpace(G, W))

Ahead(r, k, skb) == \A j \in 1..(k - 1) : before(r.queue.items[j].seq, skb.seq)

LEMMA SpaceParts ==
  ASSUME NEW h, NEW r, NEW G, NEW W, Space(G, W), Kept(r, h, G, W),
         NEW k \in 1..Len(r.queue.items), NEW skb \in G
  PROVE  /\ G \subseteq SkbType /\ skb \in SkbType
         /\ r.queue.items[k] \in G /\ r.queue.items[k] \in SkbType
<1>1. r.queue.items \in Seq(G)
  BY KeptParts
<1>2. r.queue.items[k] \in G
  BY <1>1, ElementOfSeq
<1> QED
  BY <1>2 DEF Space, Closed

LEMMA OrderParts ==
  ASSUME NEW h, NEW r, NEW G, NEW W, Space(G, W), Kept(r, h, G, W),
         NEW k \in 1..Len(r.queue.items), NEW skb \in G, W # {}
  PROVE  /\ Linear(W)
         /\ skb.seq \in W /\ SeqEnd(skb) \in W /\ before(skb.seq, SeqEnd(skb))
         /\ r.queue.items[k].seq \in W /\ SeqEnd(r.queue.items[k]) \in W
         /\ before(r.queue.items[k].seq, SeqEnd(r.queue.items[k]))
         /\ before(r.queue.items[k].seq, skb.seq)
              => \A j \in 1..k : before(r.queue.items[j].seq, skb.seq)
         /\ before(skb.seq, r.queue.items[k].seq)
              => \A j \in k..Len(r.queue.items) : before(skb.seq, r.queue.items[j].seq)
<1> DEFINE items == r.queue.items
<1>1. items \in Seq(G) /\ Rising(items)
  BY KeptParts
<1> HIDE DEF items
<1>0. k \in 1..Len(items)
  BY DEF items
<1>2. items[k] \in G
  BY <1>0, <1>1, ElementOfSeq
<1>3. /\ Linear(W)
      /\ \A s \in G : s.seq \in W /\ SeqEnd(s) \in W /\ before(s.seq, SeqEnd(s))
  BY DEF Space, InOrderedSpace
<1>4. /\ before(items[k].seq, skb.seq) => \A j \in 1..k : before(items[j].seq, skb.seq)
      /\ before(skb.seq, items[k].seq) => \A j \in k..Len(items) : before(skb.seq, items[j].seq)
  BY <1>0, <1>1, <1>3, BeforeAll
<1> QED
  BY <1>2, <1>3, <1>4 DEF items

LEMMA FlushBeforeKeeps ==
  ASSUME NEW h, NEW r, NEW G, NEW W, Kept(r, h, G, W),
         NEW k \in 1..Len(r.queue.items)
  PROVE  Kept(Deliver(IF k > 1 THEN FlushTo(r, k - 1) ELSE r), h, G, W)
<1>1. CASE k > 1
  <2>1. k - 1 \in 1..(Len(r.queue.items) - 1)
    BY <1>1, KeptParts
  <2>2. Kept(FlushTo(r, k - 1), h, G, W)
    BY <2>1, FlushToKeeps
  <2> QED
    BY <1>1, <2>2, DeliverKeeps
<1>2. CASE ~(k > 1)
  BY <1>2, DeliverKeeps
<1> QED
  BY <1>1, <1>2

(* skb goes in front of items[k].                                          *)
LEMMA InsertBeforeKeeps ==
  ASSUME NEW h, NEW r, NEW G, NEW W, Space(G, W), Kept(r, h, G, W),
         NEW k \in 1..Len(r.queue.items), NEW skb \in G, W # {} => Ahead(r, k, skb),
         W # {} => before(skb.seq, r.queue.items[k].seq)
  PROVE  Kept(Insert(r, k, skb), h, G, W)
<1>1. k \in 1..(Len(r.queue.items) + 1)
  BY KeptParts
<1>2. W # {} => \A j \in k..Len(r.queue.items) : before(skb.seq, r.queue.items[j].seq)
  BY OrderParts
<1> QED
  BY <1>1, <1>2, SpaceParts, InsertKeeps DEF Ahead

LEMMA StopsBeforeKeeps ==
  ASSUME NEW h, NEW r, NEW G, NEW W, Space(G, W), Kept(r, h, G, W),
         NEW k \in 1..Len(r.queue.items), NEW skb \in G, W # {} => Ahead(r, k, skb),
         before(SeqEnd(skb), r.queue.items[k].seq), NEW inseq
  PROVE  Kept(StopsBefore(r, k, skb, inseq), h, G, W)
<1>1. W # {} => before(skb.seq, r.queue.items[k].seq)
  <2>1. PICK a, b, c : a = skb.seq /\ b = SeqEnd(skb) /\ c = r.queue.items[k].seq
    OBVIOUS
  <2>2. W # {} => Linear(W) /\ a \in W /\ b \in W /\ c \in W /\ before(a, b)
    BY <2>1, OrderParts
  <2> QED
    BY <2>1, <2>2 DEF Linear
<1>2. Kept(Insert(r, k, skb), h, G, W)
  BY <1>1, InsertBeforeKeeps
<1>3. Kept(Deliver(IF k > 1 THEN FlushTo(r, k - 1) ELSE r), h, G, W)
  BY FlushBeforeKeeps
<1> QED
  BY <1>2, <1>3, Zenon DEF StopsBefore

LEMMA JoinsNextKeeps ==
  ASSUME NEW h, NEW r, NEW G, NEW W, Space(G, W), Kept(r, h, G, W),
         NEW k \in 1..Len(r.queue.items), NEW skb \in G, W # {} => Ahead(r, k, skb),
         SeqEnd(skb) = r.queue.items[k].seq, NEW inseq
  PROVE  Kept(JoinsNext(r, k, skb, inseq), h, G, W)
<1> DEFINE p2 == r.queue.items[k]
           n  == Len(r.queue.items)
<1>1. p2 \in G /\ p2 \in SkbType /\ n \in Nat /\ skb \in SkbType /\ G \subseteq SkbType
  BY SpaceParts, KeptParts
<1>2. W # {} => before(skb.seq, p2.seq)
  BY OrderParts
<1>3. Kept(Insert(r, k, skb), h, G, W)
  BY <1>2, InsertBeforeKeeps
<1>4. Kept(Deliver(IF k > 1 THEN FlushTo(r, k - 1) ELSE r), h, G, W)
  BY FlushBeforeKeeps
<1>5. Kept(Deliver(IF k < n THEN FlushTo(r, k) ELSE r), h, G, W)
  <2>1. CASE k < n
    <3>1. k \in 1..(n - 1)
      BY <1>1, <2>1
    <3>2. Kept(FlushTo(r, k), h, G, W)
      BY <3>1, FlushToKeeps
    <3> QED
      BY <2>1, <3>2, DeliverKeeps
  <2>2. CASE ~(k < n)
    BY <2>2, DeliverKeeps
  <2> QED
    BY <2>1, <2>2
<1>6. ASSUME Mergeable(skb, p2) PROVE Kept(Replace(r, k, Merged(skb, p2)), h, G, W)
  <2>1. Merged(skb, p2) \in G
    BY <1>1, <1>6 DEF Chains, Space, Closed
  <2>2. Merged(skb, p2).seq = skb.seq
    BY <1>1, MergedEnds
  <2>3. W # {} => \A j \in (k + 1)..n : before(skb.seq, r.queue.items[j].seq)
    <3>1. W # {} => \A j \in k..n : before(skb.seq, r.queue.items[j].seq)
      BY <1>2, OrderParts
    <3> QED
      BY <1>1, <3>1
  <2> QED
    BY <1>1, <2>1, <2>2, <2>3, ReplaceKeeps DEF Ahead
<1> HIDE DEF p2, n
<1>7. \/ Mergeable(skb, p2) /\ JoinsNext(r, k, skb, inseq) = Replace(r, k, Merged(skb, p2))
      \/ JoinsNext(r, k, skb, inseq) \in
           {Insert(r, k, skb), Deliver(IF k < n THEN FlushTo(r, k) ELSE r),
            Deliver(IF k > 1 THEN FlushTo(r, k - 1) ELSE r)}
  BY Zenon DEF JoinsNext, p2, n
<1> QED
  BY <1>3, <1>4, <1>5, <1>6, <1>7, Zenon

(* skb goes behind the last one.                                           *)
LEMMA AppendKeeps ==
  ASSUME NEW h, NEW r, NEW G, NEW W, Space(G, W), Kept(r, h, G, W),
         NEW skb \in G, NEW k, k = Len(r.queue.items),
         W # {} => before(r.queue.items[k].seq, skb.seq)
  PROVE  Kept(Insert(r, k + 1, skb), h, G, W)
<1>0. Len(r.queue.items) \in Nat /\ k \in 1..Len(r.queue.items)
  BY KeptParts
<1>1. k + 1 \in 1..(Len(r.queue.items) + 1) /\ (k + 1) - 1 = k
  BY <1>0
<1>2. W # {} => \A j \in 1..((k + 1) - 1) : before(r.queue.items[j].seq, skb.seq)
  <2>1. W # {} => \A j \in 1..k : before(r.queue.items[j].seq, skb.seq)
    BY <1>0, OrderParts
  <2> QED
    BY <1>1, <2>1
<1>3. \A j \in (k + 1)..Len(r.queue.items) : FALSE
  BY <1>0
<1> QED
  BY <1>0, <1>1, <1>2, <1>3, SpaceParts, InsertKeeps

LEMMA CannotJoinLastKeeps ==
  ASSUME NEW h, NEW r, NEW G, NEW W, Space(G, W), Kept(r, h, G, W),
         NEW k, k = Len(r.queue.items), NEW skb \in G,
         skb.seq = SeqEnd(r.queue.items[k]), NEW inseq
  PROVE  Kept(CannotJoinLast(r, k, skb, inseq), h, G, W)
<1> DEFINE t == Insert(r, k + 1, skb)
<1>0. Len(r.queue.items) \in Nat /\ k \in 1..Len(r.queue.items)
  BY KeptParts
<1>1. W # {} => before(r.queue.items[k].seq, skb.seq)
  BY <1>0, OrderParts
<1>2. Kept(t, h, G, W)
  BY <1>1, AppendKeeps
<1>3. Len(t.queue.items) = k + 1
  <2>1. k + 1 \in 1..(Len(r.queue.items) + 1)
    BY <1>0
  <2> QED
    BY <1>0, <2>1, InsertGood, SpaceParts, KeptParts
<1>4. Kept(FlushTo(t, k), h, G, W)
  <2> HIDE DEF t
  <2>1. k \in 1..(Len(t.queue.items) - 1)
    BY <1>0, <1>3
  <2> QED
    BY <1>2, <2>1, FlushToKeeps
<1>5. Kept(Deliver(r), h, G, W)
  BY DeliverKeeps
<1>6. CannotJoinLast(r, k, skb, inseq) \in {Deliver(r), FlushTo(t, k), t}
  BY Zenon DEF CannotJoinLast
<1> QED
  BY <1>2, <1>4, <1>5, <1>6, Zenon

(* items[k] is replaced by an skb that starts where it did.                *)
LEMMA SameSeqKeeps ==
  ASSUME NEW h, NEW r, NEW G, NEW W, Kept(r, h, G, W), G \subseteq SkbType,
         NEW k \in 1..Len(r.queue.items), NEW x \in G, x.seq = r.queue.items[k].seq
  PROVE  /\ Kept(Replace(r, k, x), h, G, W)
         /\ Len(Replace(r, k, x).queue.items) = Len(r.queue.items)
<1>1. Len(r.queue.items) \in Nat /\ (W # {} => Rising(r.queue.items))
  BY KeptParts
<1>2. \A j \in 1..(k - 1) : j \in 1..Len(r.queue.items) /\ j < k
  BY <1>1
<1>3. \A j \in (k + 1)..Len(r.queue.items) : j \in 1..Len(r.queue.items) /\ k < j
  BY <1>1
<1>4. W # {} => /\ \A j \in 1..(k - 1) : before(r.queue.items[j].seq, x.seq)
                /\ \A j \in (k + 1)..Len(r.queue.items) : before(x.seq, r.queue.items[j].seq)
  BY <1>1, <1>2, <1>3 DEF Rising
<1>5. Kept(Replace(r, k, x), h, G, W)
  BY <1>4, ReplaceKeeps
<1>6. GoodOutcome(r, h) /\ x \in SkbType
  BY KeptParts
<1>7. Len(Replace(r, k, x).queue.items) = Len(r.queue.items)
  BY <1>6, ReplaceGood
<1> QED
  BY <1>5, <1>7

LEMMA JoinsPrevKeeps ==
  ASSUME NEW h, NEW r, NEW G, NEW W, Space(G, W), Kept(r, h, G, W),
         NEW k \in 1..Len(r.queue.items), NEW skb \in G,
         Chains(r.queue.items[k], skb), NEW inseq
  PROVE  Kept(JoinsPrev(r, k, skb, inseq), h, G, W)
<1> DEFINE p2     == r.queue.items[k]
           p3     == r.queue.items[k + 1]
           n      == Len(r.queue.items)
           m      == Merged(p2, skb)
           joined == Replace(r, k, m)
           m3     == Replace(r, k, Merged(m, p3))
           filled == Unlink(m3, k + 1)
           closes == k < n /\ SeqEnd(skb) = p3.seq /\ Mergeable(m, p3)
<1>1. p2 \in G /\ p2 \in SkbType /\ skb \in SkbType /\ G \subseteq SkbType /\ n \in Nat
  BY SpaceParts, KeptParts
<1>2. m \in G /\ m \in SkbType /\ m.seq = p2.seq /\ SeqEnd(m) = SeqEnd(skb)
  <2>1. m \in G
    BY <1>1 DEF Space, Closed
  <2>2. SeqEnd(p2) = skb.seq
    BY DEF Chains
  <2> QED
    BY <1>1, <2>1, <2>2, MergedEnds
<1>3. ASSUME NEW x \in G, x.seq = p2.seq
      PROVE  Kept(Replace(r, k, x), h, G, W) /\ Len(Replace(r, k, x).queue.items) = n
  BY <1>1, <1>3, SameSeqKeeps
<1>4. Kept(joined, h, G, W) /\ Len(joined.queue.items) = n
  BY <1>2, <1>3
<1>5. ASSUME k < n PROVE Kept(FlushTo(joined, k), h, G, W)
  <2> HIDE DEF joined, n
  <2>1. k \in 1..(Len(joined.queue.items) - 1)
    BY <1>1, <1>4, <1>5
  <2> QED
    BY <1>4, <2>1, FlushToKeeps
<1>6. ASSUME closes PROVE Kept(filled, h, G, W) /\ Len(filled.queue.items) = n - 1
  <2>1. k + 1 \in 1..n
    BY <1>1, <1>6
  <2>2. p3 \in G /\ p3 \in SkbType
    BY <2>1, SpaceParts
  <2>3. Merged(m, p3) \in G
    BY <1>2, <1>6, <2>2 DEF Space, Closed, Chains
  <2>4. Merged(m, p3).seq = p2.seq
    <3>1. SeqEnd(m) = p3.seq
      BY <1>2, <1>6
    <3> HIDE DEF m, p3
    <3> QED
      BY <1>2, <2>2, <3>1, MergedEnds
  <2>5. Kept(m3, h, G, W) /\ Len(m3.queue.items) = n
    BY <1>3, <2>3, <2>4
  <2> HIDE DEF m3, n
  <2>6. k + 1 \in 2..Len(m3.queue.items)
    BY <1>1, <2>1, <2>5
  <2> QED
    BY <2>5, <2>6, UnlinkKeeps
<1>7. ASSUME closes, k + 1 < n PROVE Kept(FlushTo(filled, k), h, G, W)
  <2> HIDE DEF filled, n
  <2>2. k \in 1..(Len(filled.queue.items) - 1)
    BY <1>1, <1>6, <1>7
  <2> QED
    BY <1>6, <1>7, <2>2, FlushToKeeps
<1> HIDE DEF n
<1>8. \/ JoinsPrev(r, k, skb, inseq) = joined
      \/ k < n /\ JoinsPrev(r, k, skb, inseq) = FlushTo(joined, k)
      \/ closes /\ JoinsPrev(r, k, skb, inseq) = filled
      \/ closes /\ k + 1 < n /\ JoinsPrev(r, k, skb, inseq) = FlushTo(filled, k)
  BY Zenon DEF JoinsPrev, n
<1> HIDE DEF joined, filled, closes
<1> QED
  BY <1>4, <1>5, <1>6, <1>7, <1>8, Zenon

(* The walk passes every skb in front of the one at which it stops.        *)
LEMMA StopIndexPasses ==
  ASSUME NEW items \in Seq(SkbType), Len(items) > 0, NEW skb
  PROVE  /\ ~Passes(items, StopIndex(items, skb), skb)
         /\ \A j \in 1..(StopIndex(items, skb) - 1) : Passes(items, j, skb)
<1> DEFINE T == {i \in 1..Len(items) : ~Passes(items, i, skb)}
           m == StopIndex(items, skb)
<1>1. Len(items) \in Nat
  BY LenProperties
<1>2. Len(items) \in T
  BY <1>1 DEF Passes
<1>3. T \subseteq Nat /\ T # {}
  BY <1>1, <1>2
<1>4. m = Min(T)
  BY DEF StopIndex
<1>5. m \in T /\ \A y \in T : m <= y
  <2> HIDE DEF T, m
  <2> QED
    BY <1>3, <1>4, MinNat
<1> HIDE DEF m
<1>6. ASSUME NEW j \in 1..(m - 1) PROVE Passes(items, j, skb)
  <2>1. j \in 1..Len(items) /\ ~(m <= j)
    BY <1>1, <1>5
  <2> QED
    BY <1>5, <2>1
<1> QED
  BY <1>5, <1>6 DEF m

LEMMA WalkKeeps ==
  ASSUME NEW queue \in QueueType, queue.items # <<>>, NEW head,
         head = queue.items[1].id, NEW G, NEW W, Space(G, W), NEW skb \in G,
         queue.items \in Seq(G), queue.skb_num = Len(queue.items),
         W # {} => Rising(queue.items)
  PROVE  Kept(Walk(queue, head, skb), queue.hash, G, W)
<1> DEFINE items == queue.items
           h     == queue.hash
           stop  == StopIndex(items, skb)
           way   == FlushedOnTheWay(queue, skb)
           f     == IF way = {} THEN 0 ELSE Max(way)
           start == Outcome(queue, <<>>, head, FALSE)
           r     == IF f = 0 THEN start ELSE FlushTo(start, f)
           k     == stop - f
           p2    == items[stop]
           inseq == InSeq(queue)[stop]
<1>1. /\ items \in Seq(G) /\ items \in Seq(SkbType) /\ Len(items) \in Nat /\ Len(items) > 0
      /\ skb \in SkbType /\ G \subseteq SkbType
  <2>1. items \in Seq(SkbType) /\ skb \in SkbType /\ G \subseteq SkbType
    BY DEF QueueType, Space, Closed
  <2> QED
    BY <2>1, LenProperties, EmptySeq
<1>2. stop \in 1..Len(items)
  <2> HIDE DEF items
  <2> QED
    BY <1>1, StopIndexRange
<1>3. f \in 0..(stop - 1)
  <2>1. way \subseteq 1..(stop - 1)
    BY DEF FlushedOnTheWay
  <2> HIDE DEF way, stop, items
  <2>2. way \subseteq 0..(stop - 1) /\ stop - 1 \in Nat
    BY <1>1, <1>2, <2>1
  <2>3. CASE way = {}
    BY <1>1, <1>2, <2>3
  <2>4. CASE way # {}
    <3>1. Max(way) \in way
      BY <2>2, <2>4, MaxNat
    <3> QED
      BY <2>2, <2>4, <3>1
  <2> QED
    BY <2>3, <2>4
<1>4. Kept(start, h, G, W) /\ start.queue.items = items
  <2>1. items[1] \in SkbType
    BY <1>1, ElementOfSeq
  <2>2. head \in Nat
    BY <2>1 DEF SkbType
  <2>3. GoodOutcome(start, h)
    BY <2>2 DEF GoodOutcome, OutcomeType, Outcome
  <2> QED
    BY <2>3 DEF Kept, Outcome
<1>5. ~Passes(items, stop, skb) /\ \A j \in 1..(stop - 1) : Passes(items, j, skb)
  <2> HIDE DEF items
  <2> QED
    BY <1>1, StopIndexPasses
<1>6. W # {} => \A j \in 1..(stop - 1) : before(items[j].seq, skb.seq)
  <2> SUFFICES ASSUME W # {}, NEW j \in 1..(stop - 1)
               PROVE  before(items[j].seq, skb.seq)
    OBVIOUS
  <2>1. PICK a, b, c : a = items[j].seq /\ b = SeqEnd(items[j]) /\ c = skb.seq
    OBVIOUS
  <2>2. c = b \/ before(b, c)
    BY <1>5, <2>1 DEF Passes, after
  <2> HIDE DEF items, stop
  <2>3. items[j] \in G
    BY <1>1, <1>2, ElementOfSeq
  <2>4. Linear(W) /\ a \in W /\ b \in W /\ c \in W /\ before(a, b)
    BY <2>1, <2>3 DEF Space, InOrderedSpace
  <2>5. before(a, c)
    BY <2>2, <2>4 DEF Linear
  <2> QED
    BY <2>1, <2>5
<1> HIDE DEF f, start, stop
<1>7. /\ Kept(r, h, G, W) /\ Len(r.queue.items) = Len(items) - f
      /\ \A j \in 1..(Len(items) - f) : r.queue.items[j] = items[f + j]
  <2>1. CASE f = 0
    <3>1. r = start
      BY <2>1
    <3> QED
      BY <1>1, <1>4, <2>1, <3>1
  <2>2. CASE f # 0
    <3>1. r = FlushTo(start, f)
      BY <2>2
    <3> HIDE DEF items, h, r
    <3>2. f \in 1..(Len(start.queue.items) - 1)
      BY <1>1, <1>2, <1>3, <1>4, <2>2
    <3> QED
      BY <1>4, <3>1, <3>2, FlushToKeeps
  <2> QED
    BY <2>1, <2>2
<1> HIDE DEF r, items, h
<1>8. k \in 1..Len(r.queue.items) /\ r.queue.items[k] = items[stop]
  <2>1. f + k = stop /\ k \in 1..(Len(items) - f)
    BY <1>1, <1>2, <1>3
  <2> HIDE DEF k
  <2> QED
    BY <1>7, <2>1
<1>9. W # {} => Ahead(r, k, skb)
  <2> SUFFICES ASSUME W # {}, NEW j \in 1..(k - 1)
               PROVE  before(r.queue.items[j].seq, skb.seq)
    BY DEF Ahead
  <2>1. j \in 1..(Len(items) - f) /\ f + j \in 1..(stop - 1)
    BY <1>1, <1>2, <1>3
  <2>2. r.queue.items[j] = items[f + j]
    BY <1>7, <2>1
  <2> QED
    BY <1>6, <2>1, <2>2
<1>10. ASSUME EndsPast(skb, p2),
              \/ skb.seq = SeqEnd(p2) /\ ~Mergeable(p2, skb)
              \/ after(skb.seq, SeqEnd(p2))
       PROVE  k = Len(r.queue.items)
  <2>1. ~(stop < Len(items))
    BY <1>5, <1>10 DEF Passes, p2
  <2> QED
    BY <1>1, <1>2, <1>3, <1>7, <2>1
<1> HIDE DEF k
<1>11. p2 = r.queue.items[k]
  BY <1>8
<1> HIDE DEF p2
<1>12. before(SeqEnd(skb), p2.seq) => Kept(StopsBefore(r, k, skb, inseq), h, G, W)
  BY <1>7, <1>8, <1>9, <1>11, StopsBeforeKeeps
<1>13. SeqEnd(skb) = p2.seq => Kept(JoinsNext(r, k, skb, inseq), h, G, W)
  BY <1>7, <1>8, <1>9, <1>11, JoinsNextKeeps
<1>14. skb.seq = SeqEnd(p2) /\ Mergeable(p2, skb) => Kept(JoinsPrev(r, k, skb, inseq), h, G, W)
  BY <1>7, <1>8, <1>11, JoinsPrevKeeps DEF Chains
<1>15. EndsPast(skb, p2) /\ skb.seq = SeqEnd(p2) /\ ~Mergeable(p2, skb)
         => Kept(CannotJoinLast(r, k, skb, inseq), h, G, W)
  BY <1>7, <1>10, <1>11, CannotJoinLastKeeps
<1>16. ASSUME EndsPast(skb, p2), after(skb.seq, SeqEnd(p2))
       PROVE  Kept(Insert(r, k + 1, skb), h, G, W)
  <2>1. W # {} => before(r.queue.items[k].seq, skb.seq)
    <3>1. PICK a, b, c : a = r.queue.items[k].seq /\ b = SeqEnd(p2) /\ c = skb.seq
      OBVIOUS
    <3>2. W # {} => Linear(W) /\ a \in W /\ b \in W /\ c \in W /\ before(a, b)
      BY <1>7, <1>8, <1>11, <3>1, OrderParts
    <3> QED
      BY <1>16, <3>1, <3>2 DEF Linear, after
  <2> QED
    BY <1>7, <1>10, <1>16, <2>1, AppendKeeps
<1>17. Kept(Deliver(r), h, G, W)
  BY <1>7, DeliverKeeps
<1> DEFINE stops == StopsBefore(r, k, skb, inseq)
           next  == JoinsNext(r, k, skb, inseq)
           prev  == JoinsPrev(r, k, skb, inseq)
           last  == CannotJoinLast(r, k, skb, inseq)
           insert == Insert(r, k + 1, skb)
           deliver == Deliver(r)
<1>18. Walk(queue, head, skb) =
         CASE before(SeqEnd(skb), p2.seq) -> stops
           [] SeqEnd(skb) = p2.seq        -> next
           [] EndsPast(skb, p2) /\ skb.seq = SeqEnd(p2) ->
                IF Mergeable(p2, skb) THEN prev ELSE last
           [] EndsPast(skb, p2) /\ after(skb.seq, SeqEnd(p2)) -> insert
           [] OTHER -> deliver
  BY Zenon DEF Walk, r, k, f, start, stop, items, p2
<1> HIDE DEF inseq, stops, next, prev, last, insert, deliver
<1>19. Kept(Walk(queue, head, skb), h, G, W)
  <2>1. /\ before(SeqEnd(skb), p2.seq) => Kept(stops, h, G, W)
        /\ SeqEnd(skb) = p2.seq => Kept(next, h, G, W)
        /\ skb.seq = SeqEnd(p2) /\ Mergeable(p2, skb) => Kept(prev, h, G, W)
        /\ EndsPast(skb, p2) /\ skb.seq = SeqEnd(p2) /\ ~Mergeable(p2, skb) => Kept(last, h, G, W)
        /\ EndsPast(skb, p2) /\ after(skb.seq, SeqEnd(p2)) => Kept(insert, h, G, W)
        /\ Kept(deliver, h, G, W)
    BY <1>12, <1>13, <1>14, <1>15, <1>16, <1>17 DEF stops, next, prev, last, insert, deliver
  <2> QED
    BY <1>18, <2>1, Zenon
<1> QED
  BY <1>19 DEF h

(* tcp_gro_receive keeps the queue of a flow in order, counted by skb_num  *)
(* and free of other skbs than the flow's own and legal merges of them.    *)
(* The order needs a W, a part of the sequence space on which before is an *)
(* order; for W = {} the rest is stated without one.                       *)
THEOREM ReceiveKeepsOrder ==
  ASSUME NEW queue \in QueueType, queue.items # <<>>, NEW head,
         head = queue.items[1].id, NEW G, NEW W, Space(G, W), NEW skb \in SkbType,
         NEW ctl \in BOOLEAN, ctl \/ skb \in G,
         queue.items \in Seq(G), queue.skb_num = Len(queue.items),
         W # {} => Rising(queue.items)
  PROVE  Kept(tcp_gro_receive(queue, head, skb, ctl), queue.hash, G, W)
<1> DEFINE back == [queue EXCEPT !.seq_next = skb.seq]
           stay == Outcome(queue, <<>>, head, FALSE)
<1>1. /\ back \in QueueType /\ back.items = queue.items /\ back.hash = queue.hash
      /\ back.skb_num = queue.skb_num
  <2>1. skb.seq \in 0..(SeqRange - 1)
    BY DEF SkbType
  <2> QED
    BY <2>1 DEF QueueType
<1>2. Kept(stay, queue.hash, G, W)
  <2>1. queue.items \in Seq(SkbType)
    BY DEF QueueType
  <2>2. Len(queue.items) \in Nat /\ Len(queue.items) > 0
    BY <2>1, LenProperties, EmptySeq
  <2>3. queue.items[1] \in SkbType
    BY <2>1, <2>2, ElementOfSeq
  <2>4. head \in Nat
    BY <2>3 DEF SkbType
  <2>5. GoodOutcome(stay, queue.hash)
    BY <2>4 DEF GoodOutcome, OutcomeType, Outcome
  <2> QED
    BY <2>5 DEF Kept, Outcome
<1>3. ~ctl => Kept(Walk(queue, head, skb), queue.hash, G, W)
  BY WalkKeeps
<1>4. ASSUME ~ctl PROVE Kept(Walk(back, head, skb), queue.hash, G, W)
  <2> HIDE DEF back
  <2>1. back.items # <<>> /\ head = back.items[1].id
    BY <1>1
  <2>2. Kept(Walk(back, head, skb), back.hash, G, W)
    BY <1>1, <1>4, <2>1, WalkKeeps
  <2> QED
    BY <1>1, <2>2
<1>5. \/ tcp_gro_receive(queue, head, skb, ctl) = stay
      \/ ~ctl /\ tcp_gro_receive(queue, head, skb, ctl) = Walk(queue, head, skb)
      \/ ~ctl /\ tcp_gro_receive(queue, head, skb, ctl) = Walk(back, head, skb)
  BY Zenon DEF tcp_gro_receive
<1> HIDE DEF back, stay
<1> QED
  BY <1>2, <1>3, <1>4, <1>5, Zenon

-----------------------------------------------------------------------------
(* The packets in a list of skbs, each given by the ids merged into it, and *)
(* that none is there twice.                                               *)
PacketsIn(pile) ==
  {id \in Nat : \E i \in 1..Len(pile) : \E k \in 1..Len(pile[i]) : pile[i][k] = id}

NoRepeats(pile) ==
  \A i, j \in 1..Len(pile) : \A k \in 1..Len(pile[i]), l \in 1..Len(pile[j]) :
    pile[i][k] = pile[j][l] => i = j /\ k = l

LEMMA PileType ==
  ASSUME NEW pile \in Seq(Seq(Nat))
  PROVE  /\ Len(pile) \in Nat
         /\ \A i \in 1..Len(pile) :
              /\ pile[i] \in Seq(Nat) /\ Len(pile[i]) \in Nat
              /\ \A k \in 1..Len(pile[i]) : pile[i][k] \in Nat /\ pile[i][k] \in PacketsIn(pile)
<1>1. Len(pile) \in Nat
  BY LenProperties
<1>2. ASSUME NEW i \in 1..Len(pile) PROVE pile[i] \in Seq(Nat) /\ Len(pile[i]) \in Nat
  BY ElementOfSeq, LenProperties
<1>3. ASSUME NEW i \in 1..Len(pile), NEW k \in 1..Len(pile[i]) PROVE pile[i][k] \in Nat
  BY <1>2, ElementOfSeq
<1> QED
  BY <1>1, <1>2, <1>3 DEF PacketsIn

LEMMA ConcatPlaces ==
  ASSUME NEW s \in Seq(Seq(Nat)), NEW t \in Seq(Seq(Nat))
  PROVE  /\ s \o t \in Seq(Seq(Nat)) /\ Len(s \o t) = Len(s) + Len(t)
         /\ Len(s) \in Nat /\ Len(t) \in Nat
         /\ \A i \in 1..Len(s) : i \in 1..Len(s \o t) /\ (s \o t)[i] = s[i]
         /\ \A i \in 1..Len(t) : Len(s) + i \in 1..Len(s \o t) /\ (s \o t)[Len(s) + i] = t[i]
         /\ \A i \in 1..Len(s \o t) : i \in 1..Len(s) \/ \E j \in 1..Len(t) : i = Len(s) + j
<1>1. Len(s) \in Nat /\ Len(t) \in Nat
  BY LenProperties
<1>2. /\ s \o t \in Seq(Seq(Nat)) /\ Len(s \o t) = Len(s) + Len(t)
      /\ \A i \in 1..(Len(s) + Len(t)) :
           (s \o t)[i] = IF i <= Len(s) THEN s[i] ELSE t[i - Len(s)]
  BY ConcatProperties
<1>3. PICK u, m, n : u = s \o t /\ m = Len(s) /\ n = Len(t)
  OBVIOUS
<1>4. /\ m \in Nat /\ n \in Nat /\ Len(u) = m + n
      /\ \A i \in 1..(m + n) : u[i] = IF i <= m THEN s[i] ELSE t[i - m]
  BY <1>1, <1>2, <1>3
<1>5. \A i \in 1..m : i \in 1..Len(u) /\ u[i] = s[i]
  BY <1>4
<1>6. ASSUME NEW i \in 1..n PROVE m + i \in 1..Len(u) /\ u[m + i] = t[i]
  <2>1. m + i \in 1..(m + n) /\ ~(m + i <= m) /\ (m + i) - m = i
    BY <1>4
  <2> QED
    BY <1>4, <2>1
<1>7. ASSUME NEW i \in 1..Len(u) PROVE i \in 1..m \/ \E j \in 1..n : i = m + j
  <2>1. CASE i <= m
    BY <1>4, <2>1
  <2>2. CASE ~(i <= m)
    <3>1. i - m \in 1..n /\ i = m + (i - m)
      BY <1>4, <2>2
    <3> QED
      BY <3>1
  <2> QED
    BY <2>1, <2>2
<1> QED
  BY <1>1, <1>2, <1>3, <1>5, <1>6, <1>7

LEMMA ConcatPackets ==
  ASSUME NEW s \in Seq(Seq(Nat)), NEW t \in Seq(Seq(Nat))
  PROVE  PacketsIn(s \o t) = PacketsIn(s) \cup PacketsIn(t)
<1>1. PICK u, m : u = s \o t /\ m = Len(s)
  OBVIOUS
<1>2. /\ \A i \in 1..Len(s) : i \in 1..Len(u) /\ u[i] = s[i]
      /\ \A i \in 1..Len(t) : m + i \in 1..Len(u) /\ u[m + i] = t[i]
      /\ \A i \in 1..Len(u) : i \in 1..Len(s) \/ \E j \in 1..Len(t) : i = m + j
  BY <1>1, ConcatPlaces
<1>3. ASSUME NEW id \in PacketsIn(s) \cup PacketsIn(t) PROVE id \in PacketsIn(u)
  <2>1. id \in Nat
    BY DEF PacketsIn
  <2>2. CASE id \in PacketsIn(s)
    <3>1. PICK i \in 1..Len(s) : \E k \in 1..Len(s[i]) : s[i][k] = id
      BY <2>2 DEF PacketsIn
    <3>2. i \in 1..Len(u) /\ u[i] = s[i]
      BY <1>2
    <3> QED
      BY <2>1, <3>1, <3>2 DEF PacketsIn
  <2>3. CASE id \in PacketsIn(t)
    <3>1. PICK i \in 1..Len(t) : \E k \in 1..Len(t[i]) : t[i][k] = id
      BY <2>3 DEF PacketsIn
    <3>2. m + i \in 1..Len(u) /\ u[m + i] = t[i]
      BY <1>2
    <3> QED
      BY <2>1, <3>1, <3>2 DEF PacketsIn
  <2> QED
    BY <2>2, <2>3
<1>4. ASSUME NEW id \in PacketsIn(u) PROVE id \in PacketsIn(s) \cup PacketsIn(t)
  <2>1. id \in Nat
    BY DEF PacketsIn
  <2>2. PICK i \in 1..Len(u) : \E k \in 1..Len(u[i]) : u[i][k] = id
    BY DEF PacketsIn
  <2>3. CASE i \in 1..Len(s)
    BY <1>2, <2>1, <2>2, <2>3 DEF PacketsIn
  <2>4. CASE \E j \in 1..Len(t) : i = m + j
    <3>1. PICK j \in 1..Len(t) : i = m + j
      BY <2>4
    <3>2. u[i] = t[j]
      BY <1>2, <3>1
    <3> QED
      BY <2>1, <2>2, <3>2 DEF PacketsIn
  <2> QED
    BY <1>2, <2>3, <2>4
<1> QED
  BY <1>1, <1>3, <1>4

LEMMA SamePlace ==
  ASSUME NEW pile, NoRepeats(pile)
  PROVE  \A i, j, k, l :
           /\ i \in 1..Len(pile) /\ j \in 1..Len(pile)
           /\ k \in 1..Len(pile[i]) /\ l \in 1..Len(pile[j])
           /\ pile[i][k] = pile[j][l]
           => i = j /\ k = l
BY Zenon DEF NoRepeats

LEMMA ConcatNoRepeats ==
  ASSUME NEW s \in Seq(Seq(Nat)), NEW t \in Seq(Seq(Nat)),
         NoRepeats(s), NoRepeats(t), PacketsIn(s) \cap PacketsIn(t) = {}
  PROVE  NoRepeats(s \o t)
<1>1. PICK u, m : u = s \o t /\ m = Len(s)
  OBVIOUS
<1>2. /\ \A i \in 1..Len(s) : i \in 1..Len(u) /\ u[i] = s[i]
      /\ \A i \in 1..Len(t) : m + i \in 1..Len(u) /\ u[m + i] = t[i]
      /\ \A i \in 1..Len(u) : i \in 1..Len(s) \/ \E j \in 1..Len(t) : i = m + j
  BY <1>1, ConcatPlaces
<1> SUFFICES NoRepeats(u)
  BY <1>1
<1> SUFFICES ASSUME NEW i \in 1..Len(u), NEW j \in 1..Len(u),
                    NEW k \in 1..Len(u[i]), NEW l \in 1..Len(u[j]), u[i][k] = u[j][l]
             PROVE  i = j /\ k = l
  BY Zenon DEF NoRepeats
<1>3. ASSUME NEW a \in 1..Len(u), NEW b \in 1..Len(u[a])
      PROVE  \/ a \in 1..Len(s) /\ u[a] = s[a] /\ u[a][b] \in PacketsIn(s)
             \/ \E c \in 1..Len(t) : a = m + c /\ u[a] = t[c] /\ u[a][b] \in PacketsIn(t)
  <2>1. CASE a \in 1..Len(s)
    <3>1. u[a] = s[a] /\ b \in 1..Len(s[a])
      BY <1>2, <2>1
    <3>2. s[a][b] \in PacketsIn(s)
      BY <2>1, <3>1, PileType
    <3> QED
      BY <2>1, <3>1, <3>2
  <2>2. CASE \E c \in 1..Len(t) : a = m + c
    <3>0. PICK c \in 1..Len(t) : a = m + c
      BY <2>2
    <3>1. u[a] = t[c] /\ b \in 1..Len(t[c])
      BY <1>2, <3>0
    <3>2. t[c][b] \in PacketsIn(t)
      BY <3>1, PileType
    <3> QED
      BY <3>0, <3>1, <3>2
  <2> QED
    BY <1>2, <2>1, <2>2
<1>5. CASE i \in 1..Len(s) /\ j \in 1..Len(s) /\ u[i] = s[i] /\ u[j] = s[j]
  <2>1. k \in 1..Len(s[i]) /\ l \in 1..Len(s[j]) /\ s[i][k] = s[j][l]
    BY <1>5
  <2> QED
    BY <1>5, <2>1, SamePlace
<1>6. CASE \E a, b \in 1..Len(t) : i = m + a /\ j = m + b /\ u[i] = t[a] /\ u[j] = t[b]
  <2>0. PICK a \in 1..Len(t), b \in 1..Len(t) : i = m + a /\ j = m + b /\ u[i] = t[a] /\ u[j] = t[b]
    BY <1>6
  <2>1. k \in 1..Len(t[a]) /\ l \in 1..Len(t[b]) /\ t[a][k] = t[b][l]
    BY <2>0
  <2>2. a = b /\ k = l
    BY <2>1, SamePlace, Zenon
  <2> QED
    BY <2>0, <2>2
<1>7. PICK x : x = u[i][k] /\ x = u[j][l]
  OBVIOUS
<1>8. ~(x \in PacketsIn(s) /\ x \in PacketsIn(t))
  OBVIOUS
<1>9. \/ i \in 1..Len(s) /\ u[i] = s[i] /\ x \in PacketsIn(s)
      \/ \E c \in 1..Len(t) : i = m + c /\ u[i] = t[c] /\ x \in PacketsIn(t)
  BY <1>3, <1>7
<1>10. \/ j \in 1..Len(s) /\ u[j] = s[j] /\ x \in PacketsIn(s)
       \/ \E c \in 1..Len(t) : j = m + c /\ u[j] = t[c] /\ x \in PacketsIn(t)
  BY <1>3, <1>7
<1> QED
  BY <1>5, <1>6, <1>8, <1>9, <1>10

LEMMA PartNoRepeats ==
  ASSUME NEW s \in Seq(Seq(Nat)), NEW t \in Seq(Seq(Nat)), NoRepeats(s \o t)
  PROVE  NoRepeats(s) /\ NoRepeats(t) /\ PacketsIn(s) \cap PacketsIn(t) = {}
<1>1. PICK u, m : u = s \o t /\ m = Len(s)
  OBVIOUS
<1>2. /\ \A i \in 1..Len(s) : i \in 1..Len(u) /\ u[i] = s[i]
      /\ \A i \in 1..Len(t) : m + i \in 1..Len(u) /\ u[m + i] = t[i]
      /\ NoRepeats(u) /\ m = Len(s) /\ m \in Nat /\ Len(t) \in Nat
  BY <1>1, ConcatPlaces
<1>6. \A i, j, k, l :
        /\ i \in 1..Len(u) /\ j \in 1..Len(u)
        /\ k \in 1..Len(u[i]) /\ l \in 1..Len(u[j]) /\ u[i][k] = u[j][l]
        => i = j /\ k = l
  <2>1. NoRepeats(u)
    BY <1>2
  <2> QED
    BY <2>1, SamePlace, Zenon
<1>3. NoRepeats(s)
  <2> SUFFICES ASSUME NEW i \in 1..Len(s), NEW j \in 1..Len(s),
                      NEW k \in 1..Len(s[i]), NEW l \in 1..Len(s[j]), s[i][k] = s[j][l]
               PROVE  i = j /\ k = l
    BY Zenon DEF NoRepeats
  <2>1. i \in 1..Len(u) /\ j \in 1..Len(u) /\ u[i] = s[i] /\ u[j] = s[j]
    BY <1>2
  <2>2. PICK a, b : a = i /\ b = j
    OBVIOUS
  <2>3. /\ a \in 1..Len(u) /\ b \in 1..Len(u) /\ k \in 1..Len(u[a]) /\ l \in 1..Len(u[b])
        /\ u[a][k] = u[b][l]
    BY <2>1, <2>2
  <2>4. a = b /\ k = l
    BY <1>6, <2>3
  <2> QED
    BY <2>2, <2>4
<1>4. NoRepeats(t)
  <2> SUFFICES ASSUME NEW i \in 1..Len(t), NEW j \in 1..Len(t),
                      NEW k \in 1..Len(t[i]), NEW l \in 1..Len(t[j]), t[i][k] = t[j][l]
               PROVE  i = j /\ k = l
    BY DEF NoRepeats
  <2>1. /\ m + i \in 1..Len(u) /\ m + j \in 1..Len(u)
        /\ u[m + i] = t[i] /\ u[m + j] = t[j]
    BY <1>2
  <2>2. PICK a, b : a = m + i /\ b = m + j
    OBVIOUS
  <2>3. /\ a \in 1..Len(u) /\ b \in 1..Len(u) /\ k \in 1..Len(u[a]) /\ l \in 1..Len(u[b])
        /\ u[a][k] = u[b][l]
    BY <2>1, <2>2
  <2>4. a = b /\ k = l
    BY <1>6, <2>3
  <2> QED
    BY <1>2, <2>2, <2>4
<1>5. ASSUME NEW id \in PacketsIn(s), id \in PacketsIn(t) PROVE FALSE
  <2>1. PICK i \in 1..Len(s) : \E k \in 1..Len(s[i]) : s[i][k] = id
    BY DEF PacketsIn
  <2>2. PICK k \in 1..Len(s[i]) : s[i][k] = id
    BY <2>1
  <2>3. PICK j \in 1..Len(t) : \E l \in 1..Len(t[j]) : t[j][l] = id
    BY <1>5 DEF PacketsIn
  <2>4. PICK l \in 1..Len(t[j]) : t[j][l] = id
    BY <2>3
  <2>5. i \in 1..Len(u) /\ m + j \in 1..Len(u) /\ u[i] = s[i] /\ u[m + j] = t[j]
    BY <1>2
  <2>6. PICK b : b = m + j
    OBVIOUS
  <2>7. b \in 1..Len(u) /\ k \in 1..Len(u[i]) /\ l \in 1..Len(u[b]) /\ u[i][k] = u[b][l]
    BY <2>2, <2>4, <2>5, <2>6
  <2>8. i = b
    BY <1>6, <2>5, <2>7
  <2> QED
    BY <1>2, <2>6, <2>8
<1> QED
  BY <1>3, <1>4, <1>5

(* One skb.                                                                *)
LEMMA OnePile ==
  ASSUME NEW p \in Seq(Nat)
  PROVE  /\ <<p>> \in Seq(Seq(Nat))
         /\ PacketsIn(<<p>>) = {id \in Nat : \E k \in 1..Len(p) : p[k] = id}
         /\ NoRepeats(<<p>>) <=> \A k, l \in 1..Len(p) : p[k] = p[l] => k = l
<1>1. PICK u : u = <<p>>
  OBVIOUS
<1>2. u \in Seq(Seq(Nat)) /\ Len(u) = 1 /\ u[1] = p /\ \A i \in 1..Len(u) : i = 1
  BY <1>1
<1>3. 1 \in 1..Len(u)
  BY <1>2
<1>4. PacketsIn(u) = {id \in Nat : \E k \in 1..Len(p) : p[k] = id}
  BY <1>2, <1>3 DEF PacketsIn
<1>5. NoRepeats(u) <=> \A k, l \in 1..Len(p) : p[k] = p[l] => k = l
  BY <1>2, <1>3 DEF NoRepeats
<1> QED
  BY <1>1, <1>2, <1>4, <1>5

LEMMA MergedPile ==
  ASSUME NEW p \in Seq(Nat), NEW s \in Seq(Nat)
  PROVE  /\ PacketsIn(<<p \o s>>) = PacketsIn(<<p>>) \cup PacketsIn(<<s>>)
         /\ NoRepeats(<<p>>) /\ NoRepeats(<<s>>) /\ PacketsIn(<<p>>) \cap PacketsIn(<<s>>) = {}
              => NoRepeats(<<p \o s>>)
<1>1. PICK u, m, n : u = p \o s /\ m = Len(p) /\ n = Len(s)
  OBVIOUS
<1>2. /\ u \in Seq(Nat) /\ m \in Nat /\ n \in Nat /\ Len(u) = m + n
      /\ \A i \in 1..(m + n) : u[i] = IF i <= m THEN p[i] ELSE s[i - m]
  BY <1>1, ConcatProperties, LenProperties
<1>3. /\ PacketsIn(<<u>>) = {id \in Nat : \E k \in 1..Len(u) : u[k] = id}
      /\ NoRepeats(<<u>>) <=> \A k, l \in 1..Len(u) : u[k] = u[l] => k = l
  BY <1>2, OnePile
<1>4. /\ PacketsIn(<<p>>) = {id \in Nat : \E k \in 1..m : p[k] = id}
      /\ NoRepeats(<<p>>) <=> \A k, l \in 1..m : p[k] = p[l] => k = l
      /\ PacketsIn(<<s>>) = {id \in Nat : \E k \in 1..n : s[k] = id}
      /\ NoRepeats(<<s>>) <=> \A k, l \in 1..n : s[k] = s[l] => k = l
  BY <1>1, OnePile
<1>5. \A k \in 1..m : k \in 1..(m + n) /\ u[k] = p[k] /\ u[k] \in Nat
  BY <1>2, ElementOfSeq
<1>6. ASSUME NEW k \in 1..n PROVE m + k \in 1..(m + n) /\ u[m + k] = s[k]
  <2>1. m + k \in 1..(m + n) /\ ~(m + k <= m) /\ (m + k) - m = k
    BY <1>2
  <2> QED
    BY <1>2, <2>1
<1>7. ASSUME NEW k \in 1..(m + n) PROVE k \in 1..m \/ \E l \in 1..n : k = m + l
  <2>1. CASE k <= m
    BY <1>2, <2>1
  <2>2. CASE ~(k <= m)
    <3>1. k - m \in 1..n /\ k = m + (k - m)
      BY <1>2, <2>2
    <3> QED
      BY <3>1
  <2> QED
    BY <2>1, <2>2
<1>8. PacketsIn(<<u>>) = PacketsIn(<<p>>) \cup PacketsIn(<<s>>)
  <2>1. ASSUME NEW id \in PacketsIn(<<u>>) PROVE id \in PacketsIn(<<p>>) \cup PacketsIn(<<s>>)
    <3>1. PICK k \in 1..(m + n) : u[k] = id /\ id \in Nat
      BY <1>2, <1>3
    <3>2. CASE k \in 1..m
      BY <1>4, <1>5, <3>1, <3>2
    <3>3. CASE \E l \in 1..n : k = m + l
      BY <1>4, <1>6, <3>1, <3>3
    <3> QED
      BY <1>7, <3>2, <3>3
  <2>2. ASSUME NEW id \in PacketsIn(<<p>>) \cup PacketsIn(<<s>>) PROVE id \in PacketsIn(<<u>>)
    <3>1. id \in Nat /\ ((\E k \in 1..m : p[k] = id) \/ \E k \in 1..n : s[k] = id)
      BY <1>4
    <3>2. \E k \in 1..(m + n) : u[k] = id
      BY <1>5, <1>6, <3>1
    <3> QED
      BY <1>2, <1>3, <3>1, <3>2
  <2> QED
    BY <2>1, <2>2
<1>9. ASSUME NoRepeats(<<p>>), NoRepeats(<<s>>), PacketsIn(<<p>>) \cap PacketsIn(<<s>>) = {}
      PROVE  NoRepeats(<<u>>)
  <2> SUFFICES ASSUME NEW k \in 1..(m + n), NEW l \in 1..(m + n), u[k] = u[l]
               PROVE  k = l
    BY <1>2, <1>3
  <2>0. \A a \in 1..m : \A b \in 1..n : p[a] # s[b]
    <3> SUFFICES ASSUME NEW a \in 1..m, NEW b \in 1..n, p[a] = s[b] PROVE FALSE
      OBVIOUS
    <3>1. p[a] \in PacketsIn(<<p>>)
      BY <1>4, <1>5
    <3>2. p[a] \in PacketsIn(<<s>>)
      BY <1>4, <1>5
    <3> QED
      BY <1>9, <3>1, <3>2
  <2>1. CASE k \in 1..m /\ l \in 1..m
    BY <1>4, <1>5, <1>9, <2>1
  <2>2. CASE (\E a \in 1..n : k = m + a) /\ (\E b \in 1..n : l = m + b)
    <3>1. PICK a \in 1..n, b \in 1..n : k = m + a /\ l = m + b
      BY <2>2
    <3>2. s[a] = s[b]
      BY <1>6, <3>1
    <3> QED
      BY <1>4, <1>9, <3>1, <3>2
  <2>3. CASE k \in 1..m /\ (\E b \in 1..n : l = m + b)
    BY <1>5, <1>6, <2>0, <2>3
  <2>4. CASE (\E a \in 1..n : k = m + a) /\ l \in 1..m
    BY <1>5, <1>6, <2>0, <2>4
  <2> QED
    BY <1>7, <2>1, <2>2, <2>3, <2>4
<1> QED
  BY <1>1, <1>8, <1>9

-----------------------------------------------------------------------------
(* The same of a list of skbs.                                             *)
IdsOf(items) == PacketsIn(PktsOf(items))

Distinct(items) == NoRepeats(PktsOf(items))

LEMMA PktsOfType ==
  ASSUME NEW items \in Seq(SkbType)
  PROVE  /\ PktsOf(items) \in Seq(Seq(Nat)) /\ Len(PktsOf(items)) = Len(items)
         /\ \A i \in 1..Len(items) : PktsOf(items)[i] = items[i].pkts
<1>1. \A i \in 1..Len(items) : items[i].pkts \in Seq(Nat)
  <2> SUFFICES ASSUME NEW i \in 1..Len(items) PROVE items[i].pkts \in Seq(Nat)
    OBVIOUS
  <2>1. items[i] \in SkbType
    BY ElementOfSeq
  <2> QED
    BY <2>1 DEF SkbType
<1>2. Len(items) \in Nat
  BY LenProperties
<1>3. PktsOf(items) \in [1..Len(items) -> Seq(Nat)]
  BY <1>1 DEF PktsOf
<1>4. PktsOf(items) \in Seq(Seq(Nat))
  BY <1>2, <1>3, SeqDef
<1>5. Len(PktsOf(items)) = Len(items)
  BY <1>2, <1>3, <1>4, LenProperties
<1> QED
  BY <1>4, <1>5 DEF PktsOf

LEMMA PktsOfConcat ==
  ASSUME NEW s \in Seq(SkbType), NEW t \in Seq(SkbType)
  PROVE  PktsOf(s \o t) = PktsOf(s) \o PktsOf(t)
<1>1. PICK u, m, n : u = s \o t /\ m = Len(s) /\ n = Len(t)
  OBVIOUS
<1>2. /\ u \in Seq(SkbType) /\ m \in Nat /\ n \in Nat /\ Len(u) = m + n
      /\ \A i \in 1..(m + n) : u[i] = IF i <= m THEN s[i] ELSE t[i - m]
  BY <1>1, ConcatProperties, LenProperties
<1>3. PICK a, b, c : a = PktsOf(u) /\ b = PktsOf(s) /\ c = PktsOf(t)
  OBVIOUS
<1>4. /\ a \in Seq(Seq(Nat)) /\ Len(a) = m + n /\ \A i \in 1..(m + n) : a[i] = u[i].pkts
      /\ b \in Seq(Seq(Nat)) /\ Len(b) = m /\ \A i \in 1..m : b[i] = s[i].pkts
      /\ c \in Seq(Seq(Nat)) /\ Len(c) = n /\ \A i \in 1..n : c[i] = t[i].pkts
  BY <1>1, <1>2, <1>3, PktsOfType
<1>5. PICK d : d = b \o c
  OBVIOUS
<1>6. /\ d \in Seq(Seq(Nat)) /\ Len(d) = m + n
      /\ \A i \in 1..(m + n) : d[i] = IF i <= m THEN b[i] ELSE c[i - m]
  BY <1>4, <1>5, ConcatProperties
<1>7. ASSUME NEW i \in 1..(m + n) PROVE a[i] = d[i]
  <2>1. CASE i <= m
    <3>1. i \in 1..m
      BY <1>2, <2>1
    <3>2. u[i] = s[i]
      BY <1>2, <2>1
    <3>3. a[i] = u[i].pkts
      BY <1>4
    <3>4. b[i] = s[i].pkts
      BY <1>4, <3>1
    <3>5. d[i] = b[i]
      BY <1>6, <2>1
    <3> QED
      BY <3>2, <3>3, <3>4, <3>5
  <2>2. CASE ~(i <= m)
    <3>1. i - m \in 1..n
      BY <1>2, <2>2
    <3> QED
      BY <1>2, <1>4, <1>6, <2>2, <3>1
  <2> QED
    BY <2>1, <2>2
<1>8. a = d
  BY <1>4, <1>6, <1>7, SeqEqual
<1> QED
  BY <1>1, <1>3, <1>5, <1>8

LEMMA OneSkb ==
  ASSUME NEW x \in SkbType
  PROVE  /\ <<x>> \in Seq(SkbType) /\ x.pkts \in Seq(Nat)
         /\ IdsOf(<<x>>) = PacketsIn(<<x.pkts>>)
         /\ Distinct(<<x>>) <=> NoRepeats(<<x.pkts>>)
<1>1. <<x>> \in Seq(SkbType) /\ x.pkts \in Seq(Nat)
  BY DEF SkbType
<1>2. PktsOf(<<x>>) = <<x.pkts>>
  BY DEF PktsOf
<1> QED
  BY <1>1, <1>2 DEF IdsOf, Distinct

LEMMA ConcatIds ==
  ASSUME NEW s \in Seq(SkbType), NEW t \in Seq(SkbType)
  PROVE  /\ s \o t \in Seq(SkbType)
         /\ IdsOf(s \o t) = IdsOf(s) \cup IdsOf(t)
         /\ Distinct(s \o t) <=> Distinct(s) /\ Distinct(t) /\ IdsOf(s) \cap IdsOf(t) = {}
<1>1. PICK a, b : a = PktsOf(s) /\ b = PktsOf(t)
  OBVIOUS
<1>2. a \in Seq(Seq(Nat)) /\ b \in Seq(Seq(Nat)) /\ PktsOf(s \o t) = a \o b
  BY <1>1, PktsOfType, PktsOfConcat
<1>3. PacketsIn(a \o b) = PacketsIn(a) \cup PacketsIn(b)
  BY <1>2, ConcatPackets
<1>4. NoRepeats(a \o b) <=> NoRepeats(a) /\ NoRepeats(b) /\ PacketsIn(a) \cap PacketsIn(b) = {}
  BY <1>2, ConcatNoRepeats, PartNoRepeats
<1>5. s \o t \in Seq(SkbType)
  BY ConcatProperties
<1> QED
  BY <1>1, <1>2, <1>3, <1>4, <1>5 DEF IdsOf, Distinct

LEMMA MergedIds ==
  ASSUME NEW p \in SkbType, NEW s \in SkbType, Distinct(<<p>>), Distinct(<<s>>),
         IdsOf(<<p>>) \cap IdsOf(<<s>>) = {}
  PROVE  /\ Merged(p, s) \in SkbType /\ Distinct(<<Merged(p, s)>>)
         /\ IdsOf(<<Merged(p, s)>>) = IdsOf(<<p>>) \cup IdsOf(<<s>>)
<1>1. PICK m, a, b : m = Merged(p, s) /\ a = p.pkts /\ b = s.pkts
  OBVIOUS
<1>2. m \in SkbType
  BY <1>1, MergedType
<1>3. m.pkts = a \o b
  BY <1>1 DEF Merged, SkbType
<1>4. /\ a \in Seq(Nat) /\ b \in Seq(Nat) /\ NoRepeats(<<a>>) /\ NoRepeats(<<b>>)
      /\ IdsOf(<<p>>) = PacketsIn(<<a>>) /\ IdsOf(<<s>>) = PacketsIn(<<b>>)
  BY <1>1, OneSkb
<1>5. PacketsIn(<<a \o b>>) = PacketsIn(<<a>>) \cup PacketsIn(<<b>>) /\ NoRepeats(<<a \o b>>)
  BY <1>4, MergedPile
<1>6. IdsOf(<<m>>) = PacketsIn(<<a \o b>>) /\ (Distinct(<<m>>) <=> NoRepeats(<<a \o b>>))
  BY <1>2, <1>3, OneSkb
<1> QED
  BY <1>1, <1>2, <1>4, <1>5, <1>6

-----------------------------------------------------------------------------
(* What tcp_gro_receive does to the packets: the skbs it has passed up and *)
(* those it holds are one line, of which it exchanges one part.            *)
Line(o, s) == o \o s

Changed(s, k, x) == [s EXCEPT ![k] = x]

Put(a, c, b) == (a \o c) \o b

LEMMA PutIds ==
  ASSUME NEW a \in Seq(SkbType), NEW c \in Seq(SkbType), NEW b \in Seq(SkbType)
  PROVE  /\ Put(a, c, b) \in Seq(SkbType)
         /\ IdsOf(Put(a, c, b)) = IdsOf(a) \cup IdsOf(c) \cup IdsOf(b)
         /\ Distinct(Put(a, c, b)) <=>
              /\ Distinct(a) /\ Distinct(c) /\ Distinct(b)
              /\ IdsOf(a) \cap IdsOf(c) = {} /\ IdsOf(a) \cap IdsOf(b) = {}
              /\ IdsOf(c) \cap IdsOf(b) = {}
<1>1. PICK u : u = a \o c
  OBVIOUS
<1>2. /\ u \in Seq(SkbType) /\ IdsOf(u) = IdsOf(a) \cup IdsOf(c)
      /\ Distinct(u) <=> Distinct(a) /\ Distinct(c) /\ IdsOf(a) \cap IdsOf(c) = {}
  BY <1>1, ConcatIds
<1>3. PICK v : v = u \o b
  OBVIOUS
<1>4. /\ v \in Seq(SkbType) /\ IdsOf(v) = IdsOf(u) \cup IdsOf(b)
      /\ Distinct(v) <=> Distinct(u) /\ Distinct(b) /\ IdsOf(u) \cap IdsOf(b) = {}
  BY <1>2, <1>3, ConcatIds
<1>5. Put(a, c, b) = v
  BY <1>1, <1>3 DEF Put
<1> QED
  BY <1>2, <1>4, <1>5

LEMMA Exchange ==
  ASSUME NEW o \in Seq(SkbType), NEW a \in Seq(SkbType), NEW b \in Seq(SkbType),
         NEW c \in Seq(SkbType), NEW d \in Seq(SkbType), NEW S,
         Distinct(Line(o, Put(a, c, b))), IdsOf(Line(o, Put(a, c, b))) = S,
         Distinct(d), IdsOf(d) \cap (S \ IdsOf(c)) = {}
  PROVE  /\ Distinct(Line(o, Put(a, d, b)))
         /\ IdsOf(Line(o, Put(a, d, b))) = (S \ IdsOf(c)) \cup IdsOf(d)
         /\ Distinct(c) /\ IdsOf(c) \subseteq S
<1>1. PICK u, v : u = Put(a, c, b) /\ v = Put(a, d, b)
  OBVIOUS
<1>2. /\ u \in Seq(SkbType) /\ IdsOf(u) = IdsOf(a) \cup IdsOf(c) \cup IdsOf(b)
      /\ Distinct(u) <=>
           /\ Distinct(a) /\ Distinct(c) /\ Distinct(b)
           /\ IdsOf(a) \cap IdsOf(c) = {} /\ IdsOf(a) \cap IdsOf(b) = {}
           /\ IdsOf(c) \cap IdsOf(b) = {}
  <2>1. u = Put(a, c, b)
    BY <1>1
  <2>2. /\ Put(a, c, b) \in Seq(SkbType)
        /\ IdsOf(Put(a, c, b)) = IdsOf(a) \cup IdsOf(c) \cup IdsOf(b)
        /\ Distinct(Put(a, c, b)) <=>
             /\ Distinct(a) /\ Distinct(c) /\ Distinct(b)
             /\ IdsOf(a) \cap IdsOf(c) = {} /\ IdsOf(a) \cap IdsOf(b) = {}
             /\ IdsOf(c) \cap IdsOf(b) = {}
    BY PutIds, Zenon
  <2> QED
    BY <2>1, <2>2
<1>3. /\ v \in Seq(SkbType) /\ IdsOf(v) = IdsOf(a) \cup IdsOf(d) \cup IdsOf(b)
      /\ Distinct(v) <=>
           /\ Distinct(a) /\ Distinct(d) /\ Distinct(b)
           /\ IdsOf(a) \cap IdsOf(d) = {} /\ IdsOf(a) \cap IdsOf(b) = {}
           /\ IdsOf(d) \cap IdsOf(b) = {}
  <2>1. v = Put(a, d, b)
    BY <1>1
  <2>2. /\ Put(a, d, b) \in Seq(SkbType)
        /\ IdsOf(Put(a, d, b)) = IdsOf(a) \cup IdsOf(d) \cup IdsOf(b)
        /\ Distinct(Put(a, d, b)) <=>
             /\ Distinct(a) /\ Distinct(d) /\ Distinct(b)
             /\ IdsOf(a) \cap IdsOf(d) = {} /\ IdsOf(a) \cap IdsOf(b) = {}
             /\ IdsOf(d) \cap IdsOf(b) = {}
    BY PutIds, Zenon
  <2> QED
    BY <2>1, <2>2
<1>4. /\ IdsOf(o \o u) = IdsOf(o) \cup IdsOf(u)
      /\ Distinct(o \o u) <=> Distinct(o) /\ Distinct(u) /\ IdsOf(o) \cap IdsOf(u) = {}
  BY <1>2, ConcatIds
<1>5. /\ IdsOf(o \o v) = IdsOf(o) \cup IdsOf(v)
      /\ Distinct(o \o v) <=> Distinct(o) /\ Distinct(v) /\ IdsOf(o) \cap IdsOf(v) = {}
  BY <1>3, ConcatIds
<1>6. Distinct(o \o u) /\ IdsOf(o \o u) = S
  BY <1>1 DEF Line
<1>7. /\ Distinct(o \o v) /\ IdsOf(o \o v) = (S \ IdsOf(c)) \cup IdsOf(d)
      /\ Distinct(c) /\ IdsOf(c) \subseteq S
  BY <1>2, <1>3, <1>4, <1>5, <1>6
<1> QED
  BY <1>1, <1>7 DEF Line

(* A list of skbs is its front, a part of it, and its rest.                *)
LEMMA CutAt ==
  ASSUME NEW s \in Seq(SkbType), NEW k \in 1..(Len(s) + 1), NEW e \in (k - 1)..Len(s)
  PROVE  /\ Put(SubSeq(s, 1, k - 1), SubSeq(s, k, e), SubSeq(s, e + 1, Len(s))) = s
         /\ SubSeq(s, 1, k - 1) \in Seq(SkbType) /\ SubSeq(s, k, e) \in Seq(SkbType)
         /\ SubSeq(s, e + 1, Len(s)) \in Seq(SkbType)
<1>1. Len(s) \in Nat /\ k \in Nat /\ e \in Nat
  BY LenProperties
<1>2. PICK a, c, b : /\ a = SubSeq(s, 1, k - 1) /\ c = SubSeq(s, k, e)
                     /\ b = SubSeq(s, e + 1, Len(s))
  OBVIOUS
<1>3. a \o c = SubSeq(s, 1, e)
  <2>1. 1 \in 1..(Len(s) + 1) /\ k - 1 \in (1 - 1)..Len(s) /\ e \in (k - 1)..Len(s)
    BY <1>1
  <2>2. SubSeq(s, 1, k - 1) \o SubSeq(s, (k - 1) + 1, e) = SubSeq(s, 1, e)
    BY <2>1, ConcatAdjacentSubSeq
  <2>3. (k - 1) + 1 = k
    BY <1>1
  <2> QED
    BY <1>2, <2>2, <2>3
<1>4. SubSeq(s, 1, e) \o b = SubSeq(s, 1, Len(s))
  <2>1. 1 \in 1..(Len(s) + 1) /\ e \in (1 - 1)..Len(s) /\ Len(s) \in e..Len(s)
    BY <1>1
  <2> QED
    BY <1>2, <2>1, ConcatAdjacentSubSeq
<1>5. SubSeq(s, 1, Len(s)) = s
  BY SubSeqFull
<1>6. a \in Seq(SkbType) /\ c \in Seq(SkbType) /\ b \in Seq(SkbType)
  <2>1. /\ 1 \in 1..(Len(s) + 1) /\ k - 1 \in (1 - 1)..Len(s)
        /\ e + 1 \in 1..(Len(s) + 1) /\ Len(s) \in ((e + 1) - 1)..Len(s)
    BY <1>1
  <2> QED
    BY <1>2, <2>1, PartProperties
<1>7. (a \o c) \o b = s
  BY <1>3, <1>4, <1>5
<1> QED
  BY <1>2, <1>6, <1>7 DEF Put

(* The three exchanges: an skb more, one for another, one for two.         *)
LEMMA InsertAtCut ==
  ASSUME NEW s \in Seq(SkbType), NEW k \in 1..(Len(s) + 1), NEW x \in SkbType
  PROVE  \E a, b \in Seq(SkbType) : /\ s = Put(a, <<>>, b)
                                    /\ InsertAt(s, k, x) = Put(a, <<x>>, b)
<1>1. Len(s) \in Nat /\ k \in Nat /\ k - 1 \in (k - 1)..Len(s) /\ (k - 1) + 1 = k
  BY LenProperties
<1>2. PICK e : e = k - 1
  OBVIOUS
<1>3. PICK a, c, b : /\ a = SubSeq(s, 1, k - 1) /\ c = SubSeq(s, k, e)
                     /\ b = SubSeq(s, e + 1, Len(s))
  OBVIOUS
<1>4. s = Put(a, c, b) /\ a \in Seq(SkbType) /\ b \in Seq(SkbType)
  BY <1>1, <1>2, <1>3, CutAt
<1>5. c = <<>>
  BY <1>1, <1>2, <1>3, SubSeqEmpty
<1>6. InsertAt(s, k, x) = Put(a, <<x>>, b)
  BY <1>1, <1>2, <1>3 DEF InsertAt, Put
<1> QED
  BY <1>4, <1>5, <1>6

LEMMA CutOne ==
  ASSUME NEW s \in Seq(SkbType), NEW k \in 1..Len(s)
  PROVE  /\ Put(SubSeq(s, 1, k - 1), <<s[k]>>, SubSeq(s, k + 1, Len(s))) = s
         /\ SubSeq(s, 1, k - 1) \in Seq(SkbType) /\ SubSeq(s, k + 1, Len(s)) \in Seq(SkbType)
         /\ <<s[k]>> \in Seq(SkbType) /\ s[k] \in SkbType
<1>1. /\ Len(s) \in Nat /\ k \in Nat /\ k \in (k - 1)..Len(s) /\ k \in 1..(Len(s) + 1)
      /\ k - 1 \in (1 - 1)..Len(s) /\ 1 \in 1..(Len(s) + 1) /\ (k - 1) - 1 + 1 = k - 1
      /\ k + 1 \in 1..(Len(s) + 1) /\ Len(s) \in ((k + 1) - 1)..Len(s)
      /\ k - k + 1 = 1
  BY LenProperties
<1>2. PICK a, c, b : /\ a = SubSeq(s, 1, k - 1) /\ c = SubSeq(s, k, k)
                     /\ b = SubSeq(s, k + 1, Len(s))
  OBVIOUS
<1>3. s = Put(a, c, b) /\ a \in Seq(SkbType) /\ b \in Seq(SkbType)
  BY <1>1, <1>2, CutAt
<1>4. c = <<s[k]>>
  <2>1. c \in Seq(SkbType) /\ Len(c) = 1 /\ c[1] = s[k]
    <3>1. /\ SubSeq(s, k, k) \in Seq(SkbType) /\ Len(SubSeq(s, k, k)) = k - k + 1
          /\ \A j \in 1..(k - k + 1) : SubSeq(s, k, k)[j] = s[k + j - 1]
      BY <1>1, PartProperties
    <3>2. k + 1 - 1 = k /\ 1 \in 1..(k - k + 1)
      BY <1>1
    <3>3. SubSeq(s, k, k)[1] = s[k + 1 - 1]
      BY <3>1, <3>2
    <3> QED
      BY <1>1, <1>2, <3>1, <3>2, <3>3
  <2>2. <<s[k]>> \in Seq(SkbType) /\ Len(<<s[k]>>) = 1 /\ <<s[k]>>[1] = s[k]
    BY ElementOfSeq
  <2> QED
    BY <2>1, <2>2, SeqEqual
<1>5. <<s[k]>> \in Seq(SkbType) /\ s[k] \in SkbType
  BY ElementOfSeq
<1> QED
  BY <1>2, <1>3, <1>4, <1>5

LEMMA ExceptCut ==
  ASSUME NEW s \in Seq(SkbType), NEW k \in 1..Len(s), NEW x \in SkbType
  PROVE  \E a, b \in Seq(SkbType) : /\ s = Put(a, <<s[k]>>, b)
                                    /\ Changed(s, k, x) = Put(a, <<x>>, b)
<1>1. /\ Len(s) \in Nat /\ k \in Nat /\ k \in (k - 1)..Len(s) /\ k \in 1..(Len(s) + 1)
      /\ k - 1 \in (1 - 1)..Len(s) /\ 1 \in 1..(Len(s) + 1) /\ (k - 1) - 1 + 1 = k - 1
      /\ k + 1 \in 1..(Len(s) + 1) /\ Len(s) \in ((k + 1) - 1)..Len(s)
      /\ k - k + 1 = 1
  BY LenProperties
<1>2. PICK a, b : a = SubSeq(s, 1, k - 1) /\ b = SubSeq(s, k + 1, Len(s))
  OBVIOUS
<1>3. s = Put(a, <<s[k]>>, b) /\ a \in Seq(SkbType) /\ b \in Seq(SkbType)
  BY <1>2, CutOne
<1>5. PICK t : t = Changed(s, k, x)
  OBVIOUS
<1>6. t \in Seq(SkbType) /\ Len(t) = Len(s) /\ \A j \in 1..Len(s) : t[j] = IF j = k THEN x ELSE s[j]
  BY <1>5, ExceptSeq DEF Changed
<1>7. SubSeq(t, 1, k - 1) = a
  <2>1. PICK u : u = SubSeq(t, 1, k - 1)
    OBVIOUS
  <2>2. u \in Seq(SkbType) /\ Len(u) = k - 1 /\ \A j \in 1..(k - 1) : u[j] = t[1 + j - 1]
    BY <1>1, <1>6, <2>1, PartProperties
  <2>3. a \in Seq(SkbType) /\ Len(a) = k - 1 /\ \A j \in 1..(k - 1) : a[j] = s[1 + j - 1]
    BY <1>1, <1>2, PartProperties
  <2>4. ASSUME NEW j \in 1..(k - 1) PROVE u[j] = a[j]
    <3>1. 1 + j - 1 = j /\ j \in 1..Len(s) /\ j # k
      BY <1>1
    <3> QED
      BY <1>6, <2>2, <2>3, <3>1
  <2> QED
    BY <2>1, <2>2, <2>3, <2>4, SeqEqual
<1>8. SubSeq(t, k + 1, Len(t)) = b
  <2>1. PICK u : u = SubSeq(t, k + 1, Len(s))
    OBVIOUS
  <2>2. PICK n : n = Len(s) - (k + 1) + 1
    OBVIOUS
  <2>3. u \in Seq(SkbType) /\ Len(u) = n /\ \A j \in 1..n : u[j] = t[(k + 1) + j - 1]
    BY <1>1, <1>6, <2>1, <2>2, PartProperties
  <2>4. b \in Seq(SkbType) /\ Len(b) = n /\ \A j \in 1..n : b[j] = s[(k + 1) + j - 1]
    BY <1>1, <1>2, <2>2, PartProperties
  <2>5. ASSUME NEW j \in 1..n PROVE u[j] = b[j]
    <3>1. (k + 1) + j - 1 \in 1..Len(s) /\ (k + 1) + j - 1 # k
      BY <1>1, <2>2
    <3> QED
      BY <1>6, <2>3, <2>4, <3>1
  <2>6. u = b
    BY <2>3, <2>4, <2>5, SeqEqual
  <2> QED
    BY <1>6, <2>1, <2>6
<1>9. t[k] = x /\ k \in 1..Len(t)
  BY <1>6
<1>10. Put(SubSeq(t, 1, k - 1), <<t[k]>>, SubSeq(t, k + 1, Len(t))) = t
  BY <1>6, <1>9, CutOne
<1>11. t = Put(a, <<x>>, b)
  BY <1>7, <1>8, <1>9, <1>10
<1> QED
  BY <1>3, <1>5, <1>11

(* The packets of a line after one of these changes.                       *)
LEMMA LineInsert ==
  ASSUME NEW o \in Seq(SkbType), NEW s \in Seq(SkbType), NEW k \in 1..(Len(s) + 1),
         NEW x \in SkbType, Distinct(Line(o, s)), Distinct(<<x>>),
         IdsOf(<<x>>) \cap IdsOf(Line(o, s)) = {}
  PROVE  /\ Distinct(Line(o, InsertAt(s, k, x)))
         /\ IdsOf(Line(o, InsertAt(s, k, x))) = IdsOf(Line(o, s)) \cup IdsOf(<<x>>)
<1>1. PICK a, b : /\ a \in Seq(SkbType) /\ b \in Seq(SkbType) /\ s = Put(a, <<>>, b)
                  /\ InsertAt(s, k, x) = Put(a, <<x>>, b)
  BY InsertAtCut
<1>2. PICK c, d : c = <<>> /\ d = <<x>>
  OBVIOUS
<1>3. c \in Seq(SkbType) /\ d \in Seq(SkbType) /\ IdsOf(c) = {}
  <2>1. c \in Seq(SkbType) /\ Len(c) = 0
    BY <1>2
  <2>2. Len(PktsOf(c)) = 0
    BY <2>1, PktsOfType
  <2> QED
    BY <1>2, <2>1, <2>2 DEF IdsOf, PacketsIn
<1>4. PICK S : S = IdsOf(Line(o, s))
  OBVIOUS
<1>5. /\ Distinct(Line(o, Put(a, c, b))) /\ IdsOf(Line(o, Put(a, c, b))) = S
      /\ Distinct(d) /\ IdsOf(d) \cap (S \ IdsOf(c)) = {}
  BY <1>1, <1>2, <1>3, <1>4
<1>6. /\ Distinct(Line(o, Put(a, d, b)))
      /\ IdsOf(Line(o, Put(a, d, b))) = (S \ IdsOf(c)) \cup IdsOf(d)
  BY <1>1, <1>3, <1>5, Exchange
<1> QED
  BY <1>1, <1>2, <1>3, <1>4, <1>6

LEMMA LineReplace ==
  ASSUME NEW o \in Seq(SkbType), NEW s \in Seq(SkbType), NEW k \in 1..Len(s),
         NEW x \in SkbType, Distinct(Line(o, s)), Distinct(<<x>>),
         IdsOf(<<x>>) \cap (IdsOf(Line(o, s)) \ IdsOf(<<s[k]>>)) = {}
  PROVE  /\ Distinct(Line(o, Changed(s, k, x)))
         /\ IdsOf(Line(o, Changed(s, k, x)))
              = (IdsOf(Line(o, s)) \ IdsOf(<<s[k]>>)) \cup IdsOf(<<x>>)
<1>1. PICK a, b : /\ a \in Seq(SkbType) /\ b \in Seq(SkbType) /\ s = Put(a, <<s[k]>>, b)
                  /\ Changed(s, k, x) = Put(a, <<x>>, b)
  BY ExceptCut
<1>2. PICK c, d : c = <<s[k]>> /\ d = <<x>>
  OBVIOUS
<1>3. c \in Seq(SkbType) /\ d \in Seq(SkbType)
  BY <1>2, ElementOfSeq
<1>4. PICK S : S = IdsOf(Line(o, s))
  OBVIOUS
<1>5. /\ Distinct(Line(o, Put(a, c, b))) /\ IdsOf(Line(o, Put(a, c, b))) = S
      /\ Distinct(d) /\ IdsOf(d) \cap (S \ IdsOf(c)) = {}
  BY <1>1, <1>2, <1>3, <1>4
<1>6. /\ Distinct(Line(o, Put(a, d, b)))
      /\ IdsOf(Line(o, Put(a, d, b))) = (S \ IdsOf(c)) \cup IdsOf(d)
  BY <1>1, <1>3, <1>5, Exchange
<1> QED
  BY <1>1, <1>2, <1>3, <1>4, <1>6

LEMMA LineRemove ==
  ASSUME NEW o \in Seq(SkbType), NEW s \in Seq(SkbType), NEW k \in 1..Len(s),
         Distinct(Line(o, s))
  PROVE  /\ Distinct(Line(o, RemoveAt(s, k)))
         /\ IdsOf(Line(o, RemoveAt(s, k))) = IdsOf(Line(o, s)) \ IdsOf(<<s[k]>>)
         /\ Distinct(<<s[k]>>) /\ IdsOf(<<s[k]>>) \subseteq IdsOf(Line(o, s))
<1>1. PICK a, b, c : /\ a = SubSeq(s, 1, k - 1) /\ b = SubSeq(s, k + 1, Len(s))
                     /\ c = <<s[k]>>
  OBVIOUS
<1>2. /\ a \in Seq(SkbType) /\ b \in Seq(SkbType) /\ s = Put(a, c, b)
      /\ c \in Seq(SkbType)
  BY <1>1, CutOne
<1>3. PICK d : d = <<>>
  OBVIOUS
<1>4. d \in Seq(SkbType) /\ IdsOf(d) = {} /\ Distinct(d)
  <2>1. d \in Seq(SkbType) /\ Len(d) = 0
    BY <1>3
  <2>2. Len(PktsOf(d)) = 0
    BY <2>1, PktsOfType
  <2> QED
    <3>1. 1..Len(PktsOf(d)) = {}
      BY <2>2
    <3> QED
      BY <2>1, <3>1 DEF IdsOf, PacketsIn, Distinct, NoRepeats
<1>5. RemoveAt(s, k) = Put(a, d, b)
  <2>1. RemoveAt(s, k) = a \o b
    BY <1>1 DEF RemoveAt
  <2>2. a \o d = a
    BY <1>2, <1>3, ConcatEmptySeq
  <2> QED
    BY <2>1, <2>2 DEF Put
<1>6. PICK S : S = IdsOf(Line(o, s))
  OBVIOUS
<1>7. /\ Distinct(Line(o, Put(a, c, b))) /\ IdsOf(Line(o, Put(a, c, b))) = S
      /\ Distinct(d) /\ IdsOf(d) \cap (S \ IdsOf(c)) = {}
  BY <1>2, <1>4, <1>6
<1>8. /\ Distinct(Line(o, Put(a, d, b)))
      /\ IdsOf(Line(o, Put(a, d, b))) = (S \ IdsOf(c)) \cup IdsOf(d)
      /\ Distinct(c) /\ IdsOf(c) \subseteq S
  BY <1>2, <1>4, <1>7, Exchange
<1> QED
  BY <1>1, <1>4, <1>5, <1>6, <1>8

(* An outcome whose skbs, passed up and held, are of the packets of S.     *)
Shares(r, h, S) ==
  /\ GoodOutcome(r, h)
  /\ Distinct(Line(r.out, r.queue.items))
  /\ IdsOf(Line(r.out, r.queue.items)) = S

LEMMA SharesParts ==
  ASSUME NEW h, NEW S, NEW r, Shares(r, h, S)
  PROVE  /\ GoodOutcome(r, h) /\ r.queue.items \in Seq(SkbType) /\ r.out \in Seq(SkbType)
         /\ Distinct(Line(r.out, r.queue.items)) /\ IdsOf(Line(r.out, r.queue.items)) = S
         /\ Len(r.queue.items) \in Nat /\ Len(r.queue.items) > 0
BY GoodParts DEF Shares

LEMMA DeliverShares ==
  ASSUME NEW h, NEW S, NEW r, Shares(r, h, S)
  PROVE  Shares(Deliver(r), h, S) /\ Deliver(r).kept = FALSE
<1>1. /\ Deliver(r).queue = r.queue /\ Deliver(r).out = r.out /\ GoodOutcome(Deliver(r), h)
      /\ Deliver(r).kept = FALSE
  BY SharesParts, DeliverGood, GoodParts DEF Deliver, OutcomeType
<1> QED
  BY <1>1, SharesParts DEF Shares

LEMMA FlushToShares ==
  ASSUME NEW h, NEW S, NEW r, Shares(r, h, S), NEW k \in 1..(Len(r.queue.items) - 1)
  PROVE  Shares(FlushTo(r, k), h, S) /\ FlushTo(r, k).kept = r.kept
<1>1. PICK s, o, t : s = r.queue.items /\ o = r.out /\ t = FlushTo(r, k)
  OBVIOUS
<1>2. s \in Seq(SkbType) /\ o \in Seq(SkbType) /\ Len(s) \in Nat /\ k \in 1..(Len(s) - 1)
  BY <1>1, SharesParts
<1>3. GoodOutcome(t, h)
  BY <1>1, SharesParts, FlushToGood
<1>4. PICK a, b : a = SubSeq(s, 1, k) /\ b = SubSeq(s, k + 1, Len(s))
  OBVIOUS
<1>5. t.queue.items = b /\ t.out = o \o a
  BY <1>1, <1>4, SharesParts, FlushToParts
<1>6. a \in Seq(SkbType) /\ b \in Seq(SkbType)
  <2>1. /\ 1 \in 1..(Len(s) + 1) /\ k \in (1 - 1)..Len(s)
        /\ k + 1 \in 1..(Len(s) + 1) /\ Len(s) \in ((k + 1) - 1)..Len(s)
    BY <1>2
  <2> QED
    BY <1>2, <1>4, <2>1, PartProperties
<1>7. a \o b = s
  <2>1. 1 \in 1..(Len(s) + 1) /\ k \in (1 - 1)..Len(s) /\ Len(s) \in k..Len(s)
    BY <1>2
  <2>2. a \o b = SubSeq(s, 1, Len(s))
    BY <1>2, <1>4, <2>1, ConcatAdjacentSubSeq
  <2> QED
    BY <1>2, <2>2, SubSeqFull
<1>8. (o \o a) \o b = o \o (a \o b)
  BY <1>2, <1>6, SMTT(30)
<1>9. Line(t.out, t.queue.items) = Line(o, s)
  BY <1>5, <1>7, <1>8 DEF Line
<1>10. Distinct(Line(o, s)) /\ IdsOf(Line(o, s)) = S
  BY <1>1, SharesParts
<1>11. Shares(t, h, S)
  BY <1>3, <1>9, <1>10 DEF Shares
<1>12. r \in OutcomeType
  BY SharesParts, GoodParts
<1>13. FlushTo(r, k).kept = r.kept
  BY <1>12 DEF FlushTo, OutcomeType
<1> QED
  BY <1>1, <1>11, <1>13

LEMMA InsertShares ==
  ASSUME NEW h, NEW S, NEW r, Shares(r, h, S), NEW k \in 1..(Len(r.queue.items) + 1),
         NEW x \in SkbType, Distinct(<<x>>), IdsOf(<<x>>) \cap S = {}
  PROVE  Shares(Insert(r, k, x), h, S \cup IdsOf(<<x>>)) /\ Insert(r, k, x).kept = TRUE
<1>1. PICK s, o, t : s = r.queue.items /\ o = r.out /\ t = Insert(r, k, x)
  OBVIOUS
<1>2. /\ s \in Seq(SkbType) /\ o \in Seq(SkbType) /\ k \in 1..(Len(s) + 1)
      /\ Distinct(Line(o, s)) /\ IdsOf(Line(o, s)) = S
  BY <1>1, SharesParts
<1>3. GoodOutcome(t, h)
  BY <1>1, SharesParts, InsertGood
<1>4. t.queue.items = InsertAt(s, k, x) /\ t.out = o
  BY <1>1, SharesParts, InsertParts
<1>5. IdsOf(<<x>>) \cap IdsOf(Line(o, s)) = {}
  BY <1>2
<1>6. /\ Distinct(Line(o, InsertAt(s, k, x)))
      /\ IdsOf(Line(o, InsertAt(s, k, x))) = IdsOf(Line(o, s)) \cup IdsOf(<<x>>)
  BY <1>2, <1>5, LineInsert
<1>7. Shares(t, h, S \cup IdsOf(<<x>>))
  BY <1>2, <1>3, <1>4, <1>6 DEF Shares
<1>8. r \in OutcomeType
  BY SharesParts, GoodParts
<1>9. Insert(r, k, x).kept = TRUE
  BY <1>8 DEF Insert, OutcomeType
<1> QED
  BY <1>1, <1>7, <1>9

LEMMA ReplaceShares ==
  ASSUME NEW h, NEW S, NEW r, Shares(r, h, S), NEW k \in 1..Len(r.queue.items),
         NEW x \in SkbType, Distinct(<<x>>), NEW N, N \cap S = {},
         IdsOf(<<x>>) = IdsOf(<<r.queue.items[k]>>) \cup N
  PROVE  Shares(Replace(r, k, x), h, S \cup N) /\ Replace(r, k, x).kept = TRUE
<1>1. PICK s, o, t : s = r.queue.items /\ o = r.out /\ t = Replace(r, k, x)
  OBVIOUS
<1>2. /\ s \in Seq(SkbType) /\ o \in Seq(SkbType) /\ k \in 1..Len(s)
      /\ Distinct(Line(o, s)) /\ IdsOf(Line(o, s)) = S
  BY <1>1, SharesParts
<1>3. GoodOutcome(t, h)
  BY <1>1, SharesParts, ReplaceGood
<1>4. t.queue.items = Changed(s, k, x) /\ t.out = o
  BY <1>1, SharesParts, ReplaceParts DEF Changed
<1>5. IdsOf(<<s[k]>>) \subseteq S
  BY <1>2, LineRemove
<1>6. PICK I : I = IdsOf(<<s[k]>>)
  OBVIOUS
<1>7. IdsOf(<<x>>) = I \cup N /\ I \subseteq S
  BY <1>1, <1>5, <1>6
<1>8. IdsOf(<<x>>) \cap (IdsOf(Line(o, s)) \ IdsOf(<<s[k]>>)) = {}
  BY <1>2, <1>6, <1>7
<1>9. /\ Distinct(Line(o, Changed(s, k, x)))
      /\ IdsOf(Line(o, Changed(s, k, x)))
           = (IdsOf(Line(o, s)) \ IdsOf(<<s[k]>>)) \cup IdsOf(<<x>>)
  BY <1>2, <1>8, LineReplace
<1>10. IdsOf(Line(o, Changed(s, k, x))) = S \cup N
  BY <1>2, <1>6, <1>7, <1>9
<1>11. Shares(t, h, S \cup N)
  BY <1>3, <1>4, <1>9, <1>10 DEF Shares
<1>12. r \in OutcomeType
  BY SharesParts, GoodParts
<1>13. Replace(r, k, x).kept = TRUE
  BY <1>12 DEF Replace, OutcomeType
<1> QED
  BY <1>1, <1>11, <1>13

(* skb closes the hole between two skbs: the three become one.             *)
LEMMA RemoveThenChange ==
  ASSUME NEW s \in Seq(SkbType), NEW k \in 1..(Len(s) - 1), NEW x \in SkbType
  PROVE  RemoveAt(Changed(s, k, x), k + 1) = Changed(RemoveAt(s, k + 1), k, x)
<1>1. PICK n : n = Len(s)
  OBVIOUS
<1>2. n \in Nat /\ k \in 1..(n - 1) /\ k \in 1..n /\ k + 1 \in 1..n /\ n - 1 \in Nat
  BY <1>1, LenProperties
<1>3. PICK a, b, c, d : /\ a = Changed(s, k, x) /\ b = RemoveAt(a, k + 1)
                        /\ c = RemoveAt(s, k + 1) /\ d = Changed(c, k, x)
  OBVIOUS
<1>4. a \in Seq(SkbType) /\ Len(a) = n /\ \A j \in 1..n : a[j] = IF j = k THEN x ELSE s[j]
  BY <1>1, <1>2, <1>3, ExceptSeq DEF Changed
<1>5. /\ b \in Seq(SkbType) /\ Len(b) = n - 1
      /\ \A j \in 1..(n - 1) : b[j] = IF j < k + 1 THEN a[j] ELSE a[j + 1]
  BY <1>2, <1>3, <1>4, RemoveAtProperties
<1>6. /\ c \in Seq(SkbType) /\ Len(c) = n - 1
      /\ \A j \in 1..(n - 1) : c[j] = IF j < k + 1 THEN s[j] ELSE s[j + 1]
  BY <1>1, <1>2, <1>3, RemoveAtProperties
<1>7. k \in 1..Len(c)
  BY <1>2, <1>6
<1>8. /\ d \in Seq(SkbType) /\ Len(d) = n - 1
      /\ \A j \in 1..(n - 1) : d[j] = IF j = k THEN x ELSE c[j]
  BY <1>3, <1>6, <1>7, ExceptSeq DEF Changed
<1>9. ASSUME NEW j \in 1..(n - 1) PROVE b[j] = d[j]
  <2>1. CASE j < k + 1
    <3>1. b[j] = a[j] /\ j \in 1..n /\ c[j] = s[j]
      BY <1>2, <1>5, <1>6, <2>1
    <3>2. a[j] = IF j = k THEN x ELSE s[j]
      BY <1>4, <3>1
    <3> QED
      BY <1>8, <3>1, <3>2
  <2>2. CASE ~(j < k + 1)
    <3>1. b[j] = a[j + 1] /\ j + 1 \in 1..n /\ c[j] = s[j + 1] /\ j # k /\ j + 1 # k
      BY <1>2, <1>5, <1>6, <2>2
    <3>2. a[j + 1] = s[j + 1]
      BY <1>4, <3>1
    <3> QED
      BY <1>8, <3>1, <3>2
  <2> QED
    BY <2>1, <2>2
<1>10. b = d
  BY <1>5, <1>8, <1>9, SeqEqual
<1> QED
  BY <1>3, <1>10

LEMMA FilledShares ==
  ASSUME NEW h, NEW S, NEW r, Shares(r, h, S), NEW k \in 1..(Len(r.queue.items) - 1),
         NEW x \in SkbType, Distinct(<<x>>), IdsOf(<<x>>) \cap S = {}
  PROVE  LET m == Merged(Merged(r.queue.items[k], x), r.queue.items[k + 1])
             t == Unlink(Replace(r, k, m), k + 1)
         IN  Shares(t, h, S \cup IdsOf(<<x>>)) /\ t.kept = TRUE
<1>1. PICK s, o, p, q : /\ s = r.queue.items /\ o = r.out
                        /\ p = s[k] /\ q = s[k + 1]
  OBVIOUS
<1>2. /\ s \in Seq(SkbType) /\ o \in Seq(SkbType) /\ k \in 1..(Len(s) - 1)
      /\ Len(s) \in Nat /\ Distinct(Line(o, s)) /\ IdsOf(Line(o, s)) = S
      /\ GoodOutcome(r, h)
  BY <1>1, SharesParts
<1>3. k \in 1..Len(s) /\ k + 1 \in 1..Len(s) /\ k + 1 \in 2..Len(s) /\ k < k + 1
      /\ k \in 1..(Len(s) - 1)
  BY <1>2
<1>4. p \in SkbType /\ q \in SkbType
  BY <1>1, <1>2, <1>3, ElementOfSeq
<1>5. PICK y, m : y = Merged(p, x) /\ m = Merged(y, q)
  OBVIOUS
<1>6. y \in SkbType /\ m \in SkbType
  BY <1>4, <1>5, MergedType
<1>7. PICK u, t : u = Replace(r, k, m) /\ t = Unlink(u, k + 1)
  OBVIOUS
<1>8. GoodOutcome(u, h) /\ Len(u.queue.items) = Len(s) /\ u.queue.items = Changed(s, k, m)
      /\ u.out = o
  BY <1>1, <1>2, <1>3, <1>6, <1>7, ReplaceGood, ReplaceParts DEF Changed
<1>9. GoodOutcome(t, h) /\ t.queue.items = RemoveAt(Changed(s, k, m), k + 1) /\ t.out = o
  <2>1. k + 1 \in 2..Len(u.queue.items)
    BY <1>3, <1>8
  <2> QED
    BY <1>7, <1>8, <2>1, UnlinkGood, UnlinkParts
<1>10. PICK v : v = RemoveAt(s, k + 1)
  OBVIOUS
<1>11. t.queue.items = Changed(v, k, m)
  BY <1>2, <1>6, <1>9, <1>10, RemoveThenChange
<1>12. v \in Seq(SkbType) /\ Len(v) = Len(s) - 1 /\ v[k] = p /\ k \in 1..Len(v)
  <2>1. /\ v \in Seq(SkbType) /\ Len(v) = Len(s) - 1
        /\ \A j \in 1..(Len(s) - 1) : v[j] = IF j < k + 1 THEN s[j] ELSE s[j + 1]
    BY <1>2, <1>3, <1>10, RemoveAtProperties
  <2> QED
    BY <1>1, <1>2, <1>3, <2>1
<1>13. PICK I, J, K, N : /\ I = IdsOf(<<p>>) /\ J = IdsOf(<<q>>) /\ K = IdsOf(Line(o, v))
                         /\ N = IdsOf(<<x>>)
  OBVIOUS
<1>14. Distinct(Line(o, v)) /\ K = S \ J /\ Distinct(<<q>>) /\ J \subseteq S
  BY <1>1, <1>2, <1>3, <1>10, <1>13, LineRemove
<1>15. Distinct(<<p>>) /\ I \subseteq K
  BY <1>2, <1>12, <1>13, <1>14, LineRemove
<1>16. Distinct(<<y>>) /\ IdsOf(<<y>>) = I \cup N
  <2>1. IdsOf(<<p>>) \cap IdsOf(<<x>>) = {}
    BY <1>13, <1>14, <1>15
  <2> QED
    BY <1>4, <1>5, <1>13, <1>15, <2>1, MergedIds
<1>17. Distinct(<<m>>) /\ IdsOf(<<m>>) = (I \cup N) \cup J
  <2>1. IdsOf(<<y>>) \cap IdsOf(<<q>>) = {}
    BY <1>13, <1>14, <1>15, <1>16
  <2>2. Distinct(<<m>>) /\ IdsOf(<<m>>) = IdsOf(<<y>>) \cup IdsOf(<<q>>)
    <3>1. y \in SkbType /\ q \in SkbType /\ Distinct(<<y>>) /\ Distinct(<<q>>)
      BY <1>4, <1>6, <1>14, <1>16
    <3>2. /\ Distinct(<<Merged(y, q)>>)
          /\ IdsOf(<<Merged(y, q)>>) = IdsOf(<<y>>) \cup IdsOf(<<q>>)
      BY <2>1, <3>1, MergedIds
    <3>3. m = Merged(y, q)
      BY <1>5
    <3> QED
      BY <3>2, <3>3
  <2> QED
    BY <1>13, <1>16, <2>2
<1>18. /\ Distinct(Line(o, Changed(v, k, m)))
       /\ IdsOf(Line(o, Changed(v, k, m))) = S \cup N
  <2>1. IdsOf(<<m>>) \cap (IdsOf(Line(o, v)) \ IdsOf(<<v[k]>>)) = {}
    BY <1>12, <1>13, <1>14, <1>15, <1>17
  <2>2. /\ Distinct(Line(o, Changed(v, k, m)))
        /\ IdsOf(Line(o, Changed(v, k, m)))
             = (IdsOf(Line(o, v)) \ IdsOf(<<v[k]>>)) \cup IdsOf(<<m>>)
    <3>1. /\ o \in Seq(SkbType) /\ v \in Seq(SkbType) /\ k \in 1..Len(v) /\ m \in SkbType
          /\ Distinct(Line(o, v)) /\ Distinct(<<m>>)
      BY <1>2, <1>6, <1>12, <1>14, <1>17
    <3> QED
      BY <2>1, <3>1, LineReplace
  <2>3. IdsOf(Line(o, Changed(v, k, m))) = (K \ I) \cup ((I \cup N) \cup J)
    BY <1>12, <1>13, <1>17, <2>2
  <2> QED
    BY <1>14, <1>15, <2>2, <2>3
<1>19. Shares(t, h, S \cup N)
  BY <1>9, <1>11, <1>18 DEF Shares
<1>20. r \in OutcomeType /\ u \in OutcomeType
  BY <1>2, <1>8, GoodParts
<1>21. u.kept = TRUE
  BY <1>7, <1>20 DEF Replace, OutcomeType
<1>22. t.kept = TRUE
  BY <1>7, <1>20, <1>21 DEF Unlink, OutcomeType
<1> QED
  BY <1>1, <1>5, <1>7, <1>13, <1>19, <1>22

(* What tcp_gro_receive answers for: the packets of S, which it had, and   *)
(* those of N, which it received, if it says that it kept them.            *)
Accounts(r, h, S, N) == Shares(r, h, IF r.kept THEN S \cup N ELSE S)

LEMMA AccountsKept ==
  ASSUME NEW h, NEW S, NEW N, NEW r, Shares(r, h, S \cup N), r.kept = TRUE
  PROVE  Accounts(r, h, S, N)
BY DEF Accounts

LEMMA AccountsDelivered ==
  ASSUME NEW h, NEW S, NEW N, NEW r, Shares(r, h, S), r.kept = FALSE
  PROVE  Accounts(r, h, S, N)
BY DEF Accounts

LEMMA FlushBeforeAccounts ==
  ASSUME NEW h, NEW S, NEW N, NEW r, Shares(r, h, S), NEW k \in 1..Len(r.queue.items)
  PROVE  Accounts(Deliver(IF k > 1 THEN FlushTo(r, k - 1) ELSE r), h, S, N)
<1>1. CASE k > 1
  <2>1. k - 1 \in 1..(Len(r.queue.items) - 1)
    BY <1>1, SharesParts
  <2>2. Shares(FlushTo(r, k - 1), h, S)
    BY <2>1, FlushToShares
  <2>3. Shares(Deliver(FlushTo(r, k - 1)), h, S) /\ Deliver(FlushTo(r, k - 1)).kept = FALSE
    BY <2>2, DeliverShares
  <2> QED
    BY <1>1, <2>3, AccountsDelivered
<1>2. CASE ~(k > 1)
  BY <1>2, DeliverShares, AccountsDelivered
<1> QED
  BY <1>1, <1>2

LEMMA InsertAccounts ==
  ASSUME NEW h, NEW S, NEW r, Shares(r, h, S), NEW k \in 1..(Len(r.queue.items) + 1),
         NEW x \in SkbType, Distinct(<<x>>), IdsOf(<<x>>) \cap S = {}
  PROVE  Accounts(Insert(r, k, x), h, S, IdsOf(<<x>>))
BY InsertShares, AccountsKept

LEMMA StopsBeforeAccounts ==
  ASSUME NEW h, NEW S, NEW r, Shares(r, h, S), NEW k \in 1..Len(r.queue.items),
         NEW skb \in SkbType, Distinct(<<skb>>), IdsOf(<<skb>>) \cap S = {}, NEW inseq
  PROVE  Accounts(StopsBefore(r, k, skb, inseq), h, S, IdsOf(<<skb>>))
<1>1. k \in 1..(Len(r.queue.items) + 1)
  BY SharesParts
<1>2. Accounts(Insert(r, k, skb), h, S, IdsOf(<<skb>>))
  BY <1>1, InsertAccounts
<1>3. Accounts(Deliver(IF k > 1 THEN FlushTo(r, k - 1) ELSE r), h, S, IdsOf(<<skb>>))
  BY FlushBeforeAccounts
<1> QED
  BY <1>2, <1>3, Zenon DEF StopsBefore

LEMMA JoinsNextAccounts ==
  ASSUME NEW h, NEW S, NEW r, Shares(r, h, S), NEW k \in 1..Len(r.queue.items),
         NEW skb \in SkbType, Distinct(<<skb>>), IdsOf(<<skb>>) \cap S = {}, NEW inseq
  PROVE  Accounts(JoinsNext(r, k, skb, inseq), h, S, IdsOf(<<skb>>))
<1> DEFINE p2 == r.queue.items[k]
           n  == Len(r.queue.items)
           N  == IdsOf(<<skb>>)
<1>1. p2 \in SkbType /\ n \in Nat /\ k \in 1..(n + 1)
  BY SharesParts, ElementOfSeq
<1>2. Accounts(Replace(r, k, Merged(skb, p2)), h, S, N)
  <2>1. PICK o, s, m : o = r.out /\ s = r.queue.items /\ m = Merged(skb, p2)
    OBVIOUS
  <2>2. /\ o \in Seq(SkbType) /\ s \in Seq(SkbType) /\ k \in 1..Len(s) /\ p2 = s[k]
        /\ Distinct(Line(o, s)) /\ IdsOf(Line(o, s)) = S
    BY <2>1, SharesParts
  <2> HIDE DEF p2
  <2>3. Distinct(<<p2>>) /\ IdsOf(<<p2>>) \subseteq S
    BY <2>2, LineRemove
  <2>4. IdsOf(<<skb>>) \cap IdsOf(<<p2>>) = {}
    BY <2>3
  <2>5. m \in SkbType /\ Distinct(<<m>>) /\ IdsOf(<<m>>) = IdsOf(<<skb>>) \cup IdsOf(<<p2>>)
    BY <1>1, <2>1, <2>3, <2>4, MergedIds
  <2>6. IdsOf(<<m>>) = IdsOf(<<r.queue.items[k]>>) \cup N
    BY <2>1, <2>2, <2>5
  <2>7. N \cap S = {}
    OBVIOUS
  <2> HIDE DEF N
  <2>8. Shares(Replace(r, k, m), h, S \cup N) /\ Replace(r, k, m).kept = TRUE
    BY <2>5, <2>6, <2>7, ReplaceShares
  <2> QED
    BY <2>1, <2>8, AccountsKept
<1>3. Accounts(Insert(r, k, skb), h, S, N)
  BY <1>1, InsertAccounts
<1>4. Accounts(Deliver(IF k > 1 THEN FlushTo(r, k - 1) ELSE r), h, S, N)
  BY FlushBeforeAccounts
<1>5. Accounts(Deliver(IF k < n THEN FlushTo(r, k) ELSE r), h, S, N)
  <2>1. CASE k < n
    <3>1. k \in 1..(n - 1)
      BY <1>1, <2>1
    <3>2. Shares(FlushTo(r, k), h, S)
      BY <3>1, FlushToShares
    <3>3. Shares(Deliver(FlushTo(r, k)), h, S) /\ Deliver(FlushTo(r, k)).kept = FALSE
      BY <3>2, DeliverShares
    <3> QED
      BY <2>1, <3>3, AccountsDelivered
  <2>2. CASE ~(k < n)
    BY <2>2, DeliverShares, AccountsDelivered
  <2> QED
    BY <2>1, <2>2
<1> HIDE DEF p2, n, N
<1>6. JoinsNext(r, k, skb, inseq) \in
        {Replace(r, k, Merged(skb, p2)), Insert(r, k, skb),
         Deliver(IF k < n THEN FlushTo(r, k) ELSE r),
         Deliver(IF k > 1 THEN FlushTo(r, k - 1) ELSE r)}
  BY Zenon DEF JoinsNext, p2, n
<1>7. Accounts(JoinsNext(r, k, skb, inseq), h, S, N)
  BY <1>2, <1>3, <1>4, <1>5, <1>6, Zenon
<1> QED
  BY <1>7 DEF N

LEMMA CannotJoinLastAccounts ==
  ASSUME NEW h, NEW S, NEW r, Shares(r, h, S), NEW k \in 1..Len(r.queue.items),
         NEW skb \in SkbType, Distinct(<<skb>>), IdsOf(<<skb>>) \cap S = {}, NEW inseq
  PROVE  Accounts(CannotJoinLast(r, k, skb, inseq), h, S, IdsOf(<<skb>>))
<1> DEFINE t == Insert(r, k + 1, skb)
           N == IdsOf(<<skb>>)
<1>1. k + 1 \in 1..(Len(r.queue.items) + 1)
  BY SharesParts
<1>2. Shares(t, h, S \cup N) /\ t.kept = TRUE /\ Len(t.queue.items) = Len(r.queue.items) + 1
  BY <1>1, InsertShares, InsertGood, SharesParts
<1>3. Accounts(t, h, S, N)
  BY <1>2, AccountsKept
<1>4. Accounts(FlushTo(t, k), h, S, N)
  <2> HIDE DEF t, N
  <2>1. k \in 1..(Len(t.queue.items) - 1)
    BY <1>2, SharesParts
  <2>2. Shares(FlushTo(t, k), h, S \cup N) /\ FlushTo(t, k).kept = TRUE
    BY <1>2, <2>1, FlushToShares
  <2> QED
    BY <2>2, AccountsKept
<1>5. Accounts(Deliver(r), h, S, N)
  BY DeliverShares, AccountsDelivered
<1>6. CannotJoinLast(r, k, skb, inseq) \in {Deliver(r), FlushTo(t, k), t}
  BY Zenon DEF CannotJoinLast
<1> QED
  BY <1>3, <1>4, <1>5, <1>6, Zenon

LEMMA JoinsPrevAccounts ==
  ASSUME NEW h, NEW S, NEW r, Shares(r, h, S), NEW k \in 1..Len(r.queue.items),
         NEW skb \in SkbType, Distinct(<<skb>>), IdsOf(<<skb>>) \cap S = {}, NEW inseq
  PROVE  Accounts(JoinsPrev(r, k, skb, inseq), h, S, IdsOf(<<skb>>))
<1> DEFINE p2     == r.queue.items[k]
           p3     == r.queue.items[k + 1]
           n      == Len(r.queue.items)
           m      == Merged(p2, skb)
           N      == IdsOf(<<skb>>)
           joined == Replace(r, k, m)
           m3     == Replace(r, k, Merged(m, p3))
           filled == Unlink(m3, k + 1)
<1>1. p2 \in SkbType /\ n \in Nat /\ k \in 1..n
  BY SharesParts, ElementOfSeq
<1>2. Shares(joined, h, S \cup N) /\ joined.kept = TRUE /\ Len(joined.queue.items) = n
  <2>1. PICK o, s : o = r.out /\ s = r.queue.items
    OBVIOUS
  <2>2. /\ o \in Seq(SkbType) /\ s \in Seq(SkbType) /\ k \in 1..Len(s) /\ p2 = s[k]
        /\ Distinct(Line(o, s)) /\ IdsOf(Line(o, s)) = S
    BY <2>1, SharesParts
  <2> HIDE DEF p2
  <2>3. Distinct(<<p2>>) /\ IdsOf(<<p2>>) \subseteq S
    BY <2>2, LineRemove
  <2>4. IdsOf(<<p2>>) \cap IdsOf(<<skb>>) = {}
    BY <2>3
  <2>5. m \in SkbType /\ Distinct(<<m>>) /\ IdsOf(<<m>>) = IdsOf(<<p2>>) \cup IdsOf(<<skb>>)
    BY <1>1, <2>3, <2>4, MergedIds
  <2>6. IdsOf(<<m>>) = IdsOf(<<r.queue.items[k]>>) \cup N
    BY <2>1, <2>2, <2>5
  <2>7. N \cap S = {}
    OBVIOUS
  <2> HIDE DEF N, m
  <2>8. Shares(joined, h, S \cup N) /\ joined.kept = TRUE
    BY <2>5, <2>6, <2>7, ReplaceShares
  <2>9. Len(joined.queue.items) = n
    BY <2>5, SharesParts, ReplaceGood
  <2> QED
    BY <2>8, <2>9
<1>3. ASSUME k < n PROVE Accounts(FlushTo(joined, k), h, S, N)
  <2> HIDE DEF joined, n, N
  <2>1. k \in 1..(Len(joined.queue.items) - 1)
    BY <1>1, <1>2, <1>3
  <2>2. Shares(FlushTo(joined, k), h, S \cup N) /\ FlushTo(joined, k).kept = TRUE
    BY <1>2, <2>1, FlushToShares
  <2> QED
    BY <2>2, AccountsKept
<1>4. ASSUME k < n PROVE /\ Shares(filled, h, S \cup N) /\ filled.kept = TRUE
                         /\ Len(filled.queue.items) = n - 1
  <2>1. k \in 1..(n - 1) /\ r.queue.items \in Seq(SkbType) /\ k + 1 \in 1..Len(r.queue.items)
    BY <1>1, <1>4, SharesParts
  <2>2. Shares(filled, h, S \cup N) /\ filled.kept = TRUE
    BY <2>1, FilledShares
  <2>3. p3 \in SkbType
    BY <2>1, ElementOfSeq
  <2>4. Merged(m, p3) \in SkbType
    BY <1>1, <2>3, MergedType
  <2>5. GoodOutcome(m3, h) /\ Len(m3.queue.items) = n
    BY <2>4, SharesParts, ReplaceGood
  <2> HIDE DEF m3, n
  <2>6. k + 1 \in 2..Len(m3.queue.items)
    BY <1>1, <2>1, <2>5
  <2>7. Len(filled.queue.items) = n - 1
    BY <2>5, <2>6, UnlinkGood
  <2> QED
    BY <2>2, <2>7
<1>5. ASSUME k < n PROVE Accounts(filled, h, S, N)
  BY <1>4, <1>5, AccountsKept
<1>6. ASSUME k + 1 < n PROVE Accounts(FlushTo(filled, k), h, S, N)
  <2>1. k < n
    BY <1>1, <1>6
  <2> HIDE DEF filled, n, N
  <2>2. k \in 1..(Len(filled.queue.items) - 1)
    BY <1>1, <1>4, <1>6, <2>1
  <2>3. Shares(FlushTo(filled, k), h, S \cup N) /\ FlushTo(filled, k).kept = TRUE
    BY <1>4, <2>1, <2>2, FlushToShares
  <2> QED
    BY <2>3, AccountsKept
<1>7. Accounts(joined, h, S, N)
  BY <1>2, AccountsKept
<1> HIDE DEF n
<1>8. \/ JoinsPrev(r, k, skb, inseq) = joined
      \/ k < n /\ JoinsPrev(r, k, skb, inseq) = FlushTo(joined, k)
      \/ k < n /\ JoinsPrev(r, k, skb, inseq) = filled
      \/ k + 1 < n /\ JoinsPrev(r, k, skb, inseq) = FlushTo(filled, k)
  BY Zenon DEF JoinsPrev, n
<1> HIDE DEF joined, filled
<1> QED
  BY <1>3, <1>5, <1>6, <1>7, <1>8, Zenon

(* A queue that has just been found shares its own packets.                *)
LEMMA StartShares ==
  ASSUME NEW queue \in QueueType, queue.items # <<>>, NEW head,
         head = queue.items[1].id, Distinct(queue.items)
  PROVE  /\ Shares(Outcome(queue, <<>>, head, FALSE), queue.hash, IdsOf(queue.items))
         /\ Outcome(queue, <<>>, head, FALSE).kept = FALSE
         /\ Outcome(queue, <<>>, head, FALSE).queue.items = queue.items
<1>1. queue.items \in Seq(SkbType)
  BY DEF QueueType
<1>2. Len(queue.items) \in Nat /\ Len(queue.items) > 0
  BY <1>1, LenProperties, EmptySeq
<1>3. queue.items[1] \in SkbType
  BY <1>1, <1>2, ElementOfSeq
<1>4. head \in Nat
  BY <1>3 DEF SkbType
<1>5. PICK t : t = Outcome(queue, <<>>, head, FALSE)
  OBVIOUS
<1>6. /\ GoodOutcome(t, queue.hash) /\ t.queue = queue /\ t.out = <<>> /\ t.kept = FALSE
  BY <1>4, <1>5 DEF GoodOutcome, OutcomeType, Outcome
<1>7. Line(t.out, t.queue.items) = queue.items
  BY <1>1, <1>6, ConcatEmptySeq DEF Line
<1> QED
  BY <1>5, <1>6, <1>7 DEF Shares

LEMMA WalkAccounts ==
  ASSUME NEW queue \in QueueType, queue.items # <<>>, NEW head,
         head = queue.items[1].id, Distinct(queue.items),
         NEW skb \in SkbType, Distinct(<<skb>>),
         IdsOf(<<skb>>) \cap IdsOf(queue.items) = {}
  PROVE  Accounts(Walk(queue, head, skb), queue.hash, IdsOf(queue.items), IdsOf(<<skb>>))
<1> DEFINE items == queue.items
           h     == queue.hash
           S     == IdsOf(items)
           N     == IdsOf(<<skb>>)
           stop  == StopIndex(items, skb)
           way   == FlushedOnTheWay(queue, skb)
           f     == IF way = {} THEN 0 ELSE Max(way)
           start == Outcome(queue, <<>>, head, FALSE)
           r     == IF f = 0 THEN start ELSE FlushTo(start, f)
           k     == stop - f
           p2    == items[stop]
           inseq == InSeq(queue)[stop]
<1>1. items \in Seq(SkbType) /\ Len(items) \in Nat /\ Len(items) > 0
  <2>1. items \in Seq(SkbType)
    BY DEF QueueType
  <2> QED
    BY <2>1, LenProperties, EmptySeq
<1>2. stop \in 1..Len(items)
  <2> HIDE DEF items
  <2> QED
    BY <1>1, StopIndexRange
<1>3. f \in 0..(stop - 1)
  <2>1. way \subseteq 1..(stop - 1)
    BY DEF FlushedOnTheWay
  <2> HIDE DEF way, stop, items
  <2>2. way \subseteq 0..(stop - 1) /\ stop - 1 \in Nat
    BY <1>1, <1>2, <2>1
  <2>3. CASE way = {}
    BY <1>1, <1>2, <2>3
  <2>4. CASE way # {}
    <3>1. Max(way) \in way
      BY <2>2, <2>4, MaxNat
    <3> QED
      BY <2>2, <2>4, <3>1
  <2> QED
    BY <2>3, <2>4
<1>4. Shares(start, h, S) /\ start.kept = FALSE /\ start.queue.items = items
  BY StartShares
<1> HIDE DEF f, start, stop
<1>5. Shares(r, h, S) /\ r.kept = FALSE /\ Len(r.queue.items) = Len(items) - f
  <2>1. CASE f = 0
    BY <1>1, <1>4, <2>1
  <2>2. CASE f # 0
    <3> HIDE DEF items, h, S
    <3>1. f \in 1..(Len(start.queue.items) - 1)
      BY <1>1, <1>2, <1>3, <1>4, <2>2
    <3>2. Shares(FlushTo(start, f), h, S) /\ FlushTo(start, f).kept = FALSE
      BY <1>4, <3>1, FlushToShares
    <3>3. Len(FlushTo(start, f).queue.items) = Len(items) - f
      BY <1>4, <3>1, SharesParts, FlushToGood
    <3> QED
      BY <2>2, <3>2, <3>3
  <2> QED
    BY <2>1, <2>2
<1>6. N \cap S = {}
  OBVIOUS
<1> HIDE DEF r, items, h, S
<1>7. k \in 1..Len(r.queue.items) /\ k + 1 \in 1..(Len(r.queue.items) + 1)
  BY <1>1, <1>2, <1>3, <1>5
<1> HIDE DEF k
<1>8. Accounts(StopsBefore(r, k, skb, inseq), h, S, N)
  BY <1>5, <1>6, <1>7, StopsBeforeAccounts
<1>9. Accounts(JoinsNext(r, k, skb, inseq), h, S, N)
  BY <1>5, <1>6, <1>7, JoinsNextAccounts
<1>10. Accounts(JoinsPrev(r, k, skb, inseq), h, S, N)
  BY <1>5, <1>6, <1>7, JoinsPrevAccounts
<1>11. Accounts(CannotJoinLast(r, k, skb, inseq), h, S, N)
  BY <1>5, <1>6, <1>7, CannotJoinLastAccounts
<1>12. Accounts(Insert(r, k + 1, skb), h, S, N)
  BY <1>5, <1>6, <1>7, InsertAccounts
<1>13. Accounts(Deliver(r), h, S, N)
  BY <1>5, DeliverShares, AccountsDelivered
<1>14. Walk(queue, head, skb) \in
         {StopsBefore(r, k, skb, inseq), JoinsNext(r, k, skb, inseq),
          JoinsPrev(r, k, skb, inseq), CannotJoinLast(r, k, skb, inseq),
          Insert(r, k + 1, skb), Deliver(r)}
  BY Zenon DEF Walk, r, k, f, start, stop, items
<1> HIDE DEF inseq, N
<1>15. Accounts(Walk(queue, head, skb), h, S, N)
  BY <1>8, <1>9, <1>10, <1>11, <1>12, <1>13, <1>14, Zenon
<1> QED
  BY <1>15 DEF h, S, N, items

(* tcp_gro_receive loses no packet and duplicates none: what it passes up  *)
(* and what the queue then holds are the packets that the queue held, each *)
(* once, and the received one besides them if and only if it was kept; if  *)
(* it was not, the caller delivers it.                                     *)
THEOREM ReceiveKeepsPackets ==
  ASSUME NEW queue \in QueueType, queue.items # <<>>, NEW head,
         head = queue.items[1].id, Distinct(queue.items),
         NEW skb \in SkbType, Distinct(<<skb>>),
         IdsOf(<<skb>>) \cap IdsOf(queue.items) = {}, NEW ctl \in BOOLEAN
  PROVE  Accounts(tcp_gro_receive(queue, head, skb, ctl), queue.hash,
                  IdsOf(queue.items), IdsOf(<<skb>>))
<1> DEFINE back == [queue EXCEPT !.seq_next = skb.seq]
           stay == Outcome(queue, <<>>, head, FALSE)
           h    == queue.hash
           S    == IdsOf(queue.items)
           N    == IdsOf(<<skb>>)
<1>1. /\ back \in QueueType /\ back.items = queue.items /\ back.hash = queue.hash
  <2>1. skb.seq \in 0..(SeqRange - 1)
    BY DEF SkbType
  <2> QED
    BY <2>1 DEF QueueType
<1>2. Accounts(stay, h, S, N)
  BY StartShares, AccountsDelivered
<1>3. Accounts(Walk(queue, head, skb), h, S, N)
  BY WalkAccounts
<1>4. Accounts(Walk(back, head, skb), h, S, N)
  <2> HIDE DEF back
  <2>1. /\ back \in QueueType /\ back.items # <<>> /\ head = back.items[1].id
        /\ Distinct(back.items) /\ IdsOf(<<skb>>) \cap IdsOf(back.items) = {}
    BY <1>1
  <2>2. Accounts(Walk(back, head, skb), back.hash, IdsOf(back.items), IdsOf(<<skb>>))
    BY <2>1, WalkAccounts
  <2> QED
    BY <1>1, <2>2
<1>5. tcp_gro_receive(queue, head, skb, ctl) \in
        {stay, Walk(queue, head, skb), Walk(back, head, skb)}
  BY Zenon DEF tcp_gro_receive
<1> HIDE DEF back, stay
<1> QED
  BY <1>2, <1>3, <1>4, <1>5, Zenon

-----------------------------------------------------------------------------
(* Where seq_next goes.  On a part W of the space on which before is a     *)
(* weak order, no outcome that keeps the segment takes it back: it stays,  *)
(* or becomes the start or the end of the segment, or the end of what the  *)
(* segment closed a hole to.                                               *)
WeakOrder(W) ==
  /\ \A a, b \in W : before(a, b) => ~before(b, a)
  /\ \A a, b, c \in W : ~before(b, a) /\ ~before(c, b) => ~before(c, a)

(* seq_next is not behind s, nor outside W.                                *)
Reaches(r, W, s) == r.queue.seq_next \in W /\ ~before(r.queue.seq_next, s)

(* The same, if the segment was kept; else the caller moves seq_next on.   *)
MovesOn(r, W, s) == r.queue.seq_next \in W /\ (r.kept => ~before(r.queue.seq_next, s))

LEMMA WindowWeakOrder ==
  ASSUME NEW base \in SeqNumbers
  PROVE  WeakOrder(Window(base))
<1>1. \A a \in Window(base) : (a - base) % SeqRange \in Int
  BY SeqRangeAssumption, Division DEF Window, SeqNumbers
<1>2. ASSUME NEW a \in Window(base), NEW b \in Window(base), before(a, b)
      PROVE  ~before(b, a)
  <2>1. PICK x, y : x = (a - base) % SeqRange /\ y = (b - base) % SeqRange
    OBVIOUS
  <2>2. x < y /\ x \in Int /\ y \in Int
    BY <1>1, <1>2, <2>1, WindowOrder
  <2>3. ~(y < x)
    BY <2>2
  <2> QED
    BY <2>1, <2>3, WindowOrder
<1>3. ASSUME NEW a \in Window(base), NEW b \in Window(base), NEW c \in Window(base),
             ~before(b, a), ~before(c, b)
      PROVE  ~before(c, a)
  <2>1. PICK x, y, z : /\ x = (a - base) % SeqRange /\ y = (b - base) % SeqRange
                       /\ z = (c - base) % SeqRange
    OBVIOUS
  <2>2. ~(y < x) /\ ~(z < y) /\ x \in Int /\ y \in Int /\ z \in Int
    BY <1>1, <1>3, <2>1, WindowOrder
  <2>3. ~(z < x)
    BY <2>2
  <2> QED
    BY <2>1, <2>3, WindowOrder
<1> QED
  BY <1>2, <1>3 DEF WeakOrder

LEMMA FlushToNext ==
  ASSUME NEW h, NEW r, GoodOutcome(r, h), NEW k
  PROVE  FlushTo(r, k).queue.seq_next = SeqEnd(r.queue.items[k])
<1> DEFINE queue == r.queue
<1>1. r \in OutcomeType /\ queue \in QueueType
  BY GoodParts
<1> DEFINE rest == SubSeq(queue.items, k + 1, Len(queue.items))
           s    == SeqEnd(queue.items[k])
           n    == queue.skb_num - k
           x    == queue.items[k + 1].id
           pass == r.out \o SubSeq(queue.items, 1, k)
           q    == [queue EXCEPT !.items = rest, !.seq_next = s, !.age = 0,
                                 !.flushed = TRUE, !.skb_num = n]
<1>2. FlushTo(r, k) = [r EXCEPT !.queue = q, !.out = pass, !.head = x]
  BY DEF FlushTo
<1> HIDE DEF n, rest, s, x, pass, queue
<1>3. q.seq_next = s
  BY <1>1 DEF QueueType
<1> HIDE DEF q
<1>4. FlushTo(r, k).queue = q
  BY <1>1, <1>2 DEF OutcomeType
<1> QED
  BY <1>3, <1>4 DEF s, queue

LEMMA InsertNext ==
  ASSUME NEW h, NEW r, GoodOutcome(r, h), NEW k, NEW skb
  PROVE  Insert(r, k, skb).queue.seq_next = r.queue.seq_next
<1> DEFINE queue == r.queue
<1>1. r \in OutcomeType /\ queue \in QueueType
  BY GoodParts
<1> DEFINE new == InsertAt(queue.items, k, skb)
           n   == queue.skb_num + 1
           x   == IF k = 1 THEN skb.id ELSE r.head
           q   == [queue EXCEPT !.items = new, !.skb_num = n]
<1>2. Insert(r, k, skb) = [r EXCEPT !.queue = q, !.head = x, !.kept = TRUE]
  BY DEF Insert
<1> HIDE DEF n, new, x, queue
<1>3. q.seq_next = queue.seq_next
  BY <1>1 DEF QueueType
<1> HIDE DEF q
<1>4. Insert(r, k, skb).queue = q
  BY <1>1, <1>2 DEF OutcomeType
<1> QED
  BY <1>3, <1>4 DEF queue

LEMMA ReplaceNext ==
  ASSUME NEW h, NEW r, GoodOutcome(r, h), NEW k, NEW skb
  PROVE  Replace(r, k, skb).queue.seq_next = r.queue.seq_next
<1> DEFINE queue == r.queue
<1>1. r \in OutcomeType /\ queue \in QueueType
  BY GoodParts
<1> DEFINE new == [queue.items EXCEPT ![k] = skb]
           x   == IF k = 1 THEN skb.id ELSE r.head
           q   == [queue EXCEPT !.items = new]
<1>2. Replace(r, k, skb) = [r EXCEPT !.queue = q, !.head = x, !.kept = TRUE]
  BY DEF Replace
<1> HIDE DEF new, x, queue
<1>3. q.seq_next = queue.seq_next
  BY <1>1 DEF QueueType
<1> HIDE DEF q
<1>4. Replace(r, k, skb).queue = q
  BY <1>1, <1>2 DEF OutcomeType
<1> QED
  BY <1>3, <1>4 DEF queue

LEMMA UnlinkNext ==
  ASSUME NEW h, NEW r, GoodOutcome(r, h), NEW k
  PROVE  Unlink(r, k).queue.seq_next = r.queue.seq_next
<1> DEFINE queue == r.queue
<1>1. r \in OutcomeType /\ queue \in QueueType
  BY GoodParts
<1> DEFINE new == RemoveAt(queue.items, k)
           n   == queue.skb_num - 1
           q   == [queue EXCEPT !.items = new, !.skb_num = n]
<1>2. Unlink(r, k) = [r EXCEPT !.queue = q]
  BY DEF Unlink
<1> HIDE DEF n, new, queue
<1>3. q.seq_next = queue.seq_next
  BY <1>1 DEF QueueType
<1> HIDE DEF q
<1>4. Unlink(r, k).queue = q
  BY <1>1, <1>2 DEF OutcomeType
<1> QED
  BY <1>3, <1>4 DEF queue

LEMMA DeliverNext ==
  ASSUME NEW h, NEW r, GoodOutcome(r, h)
  PROVE  Deliver(r).queue.seq_next = r.queue.seq_next /\ Deliver(r).kept = FALSE
<1>1. r \in OutcomeType
  BY GoodParts
<1> QED
  BY <1>1 DEF Deliver, OutcomeType

(* What is passed up ends in W.                                            *)
LEMMA FlushInSpace ==
  ASSUME NEW h, NEW r, NEW G, NEW W, W # {}, Space(G, W), Kept(r, h, G, W),
         NEW k \in 1..Len(r.queue.items)
  PROVE  FlushTo(r, k).queue.seq_next \in W
<1>1. r.queue.items \in Seq(G) /\ GoodOutcome(r, h)
  BY KeptParts
<1>2. r.queue.items[k] \in G
  BY <1>1, ElementOfSeq
<1>3. SeqEnd(r.queue.items[k]) \in W
  BY <1>2 DEF Space, InOrderedSpace
<1> QED
  BY <1>1, <1>3, FlushToNext

(* A segment that is delivered: only W matters.                            *)
LEMMA DeliverMovesOn ==
  ASSUME NEW h, NEW r, GoodOutcome(r, h), NEW W, r.queue.seq_next \in W, NEW s
  PROVE  MovesOn(Deliver(r), W, s)
BY DeliverNext DEF MovesOn

LEMMA FlushBeforeMovesOn ==
  ASSUME NEW h, NEW r, NEW G, NEW W, W # {}, Space(G, W), Kept(r, h, G, W), NEW s,
         Reaches(r, W, s), NEW k \in 1..Len(r.queue.items)
  PROVE  MovesOn(Deliver(IF k > 1 THEN FlushTo(r, k - 1) ELSE r), W, s)
<1>1. CASE k > 1
  <2>1. k - 1 \in 1..(Len(r.queue.items) - 1) /\ k - 1 \in 1..Len(r.queue.items)
    BY <1>1, KeptParts
  <2>2. GoodOutcome(FlushTo(r, k - 1), h)
    BY <2>1, FlushToKeeps, KeptParts
  <2>3. FlushTo(r, k - 1).queue.seq_next \in W
    BY <2>1, FlushInSpace
  <2> QED
    BY <1>1, <2>2, <2>3, DeliverMovesOn
<1>2. CASE ~(k > 1)
  BY <1>2, KeptParts, DeliverMovesOn DEF Reaches
<1> QED
  BY <1>1, <1>2

LEMMA SameMovesOn ==
  ASSUME NEW h, NEW r, GoodOutcome(r, h), NEW W, NEW s, Reaches(r, W, s), NEW k, NEW skb
  PROVE  /\ Reaches(Insert(r, k, skb), W, s) /\ Reaches(Replace(r, k, skb), W, s)
         /\ Reaches(Unlink(r, k), W, s)
         /\ MovesOn(Insert(r, k, skb), W, s) /\ MovesOn(Replace(r, k, skb), W, s)
         /\ MovesOn(Unlink(r, k), W, s)
BY InsertNext, ReplaceNext, UnlinkNext DEF Reaches, MovesOn

LEMMA StopsBeforeMovesOn ==
  ASSUME NEW h, NEW r, NEW G, NEW W, W # {}, Space(G, W), Kept(r, h, G, W), NEW s,
         Reaches(r, W, s), NEW k \in 1..Len(r.queue.items), NEW skb, NEW inseq
  PROVE  MovesOn(StopsBefore(r, k, skb, inseq), W, s)
<1>1. MovesOn(Insert(r, k, skb), W, s)
  BY KeptParts, SameMovesOn
<1>2. MovesOn(Deliver(IF k > 1 THEN FlushTo(r, k - 1) ELSE r), W, s)
  BY FlushBeforeMovesOn
<1> QED
  BY <1>1, <1>2, Zenon DEF StopsBefore

LEMMA JoinsNextMovesOn ==
  ASSUME NEW h, NEW r, NEW G, NEW W, W # {}, Space(G, W), Kept(r, h, G, W), NEW s,
         Reaches(r, W, s), NEW k \in 1..Len(r.queue.items), NEW skb, NEW inseq
  PROVE  MovesOn(JoinsNext(r, k, skb, inseq), W, s)
<1> DEFINE p2 == r.queue.items[k]
           n  == Len(r.queue.items)
           m  == Merged(skb, p2)
<1>1. GoodOutcome(r, h) /\ n \in Nat
  BY KeptParts
<1>2. MovesOn(Insert(r, k, skb), W, s) /\ MovesOn(Replace(r, k, m), W, s)
  BY <1>1, SameMovesOn
<1>3. MovesOn(Deliver(IF k > 1 THEN FlushTo(r, k - 1) ELSE r), W, s)
  BY FlushBeforeMovesOn
<1>4. MovesOn(Deliver(IF k < n THEN FlushTo(r, k) ELSE r), W, s)
  <2>1. CASE k < n
    <3>1. k \in 1..(n - 1)
      BY <1>1, <2>1
    <3>2. GoodOutcome(FlushTo(r, k), h)
      BY <3>1, FlushToKeeps, KeptParts
    <3>3. FlushTo(r, k).queue.seq_next \in W
      BY FlushInSpace
    <3> QED
      BY <2>1, <3>2, <3>3, DeliverMovesOn
  <2>2. CASE ~(k < n)
    BY <1>1, <2>2, DeliverMovesOn DEF Reaches
  <2> QED
    BY <2>1, <2>2
<1> HIDE DEF p2, n, m
<1>5. JoinsNext(r, k, skb, inseq) \in
        {Replace(r, k, m), Insert(r, k, skb), Deliver(IF k < n THEN FlushTo(r, k) ELSE r),
         Deliver(IF k > 1 THEN FlushTo(r, k - 1) ELSE r)}
  BY Zenon DEF JoinsNext, p2, n, m
<1> QED
  BY <1>2, <1>3, <1>4, <1>5, Zenon

(* The in-sequence run up to the segment is passed up: seq_next is where   *)
(* the segment starts.                                                     *)
LEMMA CannotJoinLastMovesOn ==
  ASSUME NEW h, NEW r, NEW G, NEW W, W # {}, Space(G, W), Kept(r, h, G, W), NEW s,
         Reaches(r, W, s), NEW k, k = Len(r.queue.items), NEW skb \in G,
         skb.seq = SeqEnd(r.queue.items[k]), ~before(skb.seq, s), NEW inseq
  PROVE  MovesOn(CannotJoinLast(r, k, skb, inseq), W, s)
<1> DEFINE t == Insert(r, k + 1, skb)
<1>1. /\ GoodOutcome(r, h) /\ r.queue.items \in Seq(G) /\ Len(r.queue.items) \in Nat
      /\ k \in 1..Len(r.queue.items) /\ skb \in SkbType
  BY KeptParts, SpaceParts
<1>2. MovesOn(t, W, s) /\ MovesOn(Deliver(r), W, s)
  BY <1>1, SameMovesOn, DeliverMovesOn DEF Reaches
<1>3. k + 1 \in 1..(Len(r.queue.items) + 1)
  BY <1>1
<1>4. GoodOutcome(t, h)
  BY <1>1, <1>3, InsertGood
<1>5. t.queue.items[k] = r.queue.items[k]
  <2>1. PICK items : items = r.queue.items
    OBVIOUS
  <2>2. items \in Seq(G) /\ k \in 1..(Len(items) + 1) /\ k < k + 1 /\ k + 1 \in 1..(Len(items) + 1)
    BY <1>1, <1>3, <2>1
  <2>3. InsertAt(items, k + 1, skb)[k] = items[k]
    BY <2>2, InsertAtElements
  <2>4. t.queue.items = InsertAt(items, k + 1, skb)
    BY <1>1, <2>1, InsertParts
  <2> QED
    BY <2>1, <2>3, <2>4
<1> HIDE DEF t
<1>6. FlushTo(t, k).queue.seq_next = skb.seq
  BY <1>4, <1>5, FlushToNext
<1>7. skb.seq \in W
  BY DEF Space, InOrderedSpace
<1>8. MovesOn(FlushTo(t, k), W, s)
  BY <1>6, <1>7 DEF MovesOn
<1>9. CannotJoinLast(r, k, skb, inseq) \in {Deliver(r), FlushTo(t, k), t}
  BY Zenon DEF CannotJoinLast, t
<1> QED
  BY <1>2, <1>8, <1>9, Zenon

(* The merged skb, or the one it closed the hole to, is passed up.         *)
LEMMA JoinsPrevMovesOn ==
  ASSUME NEW h, NEW r, NEW G, NEW W, W # {}, Space(G, W), WeakOrder(W), Kept(r, h, G, W),
         NEW s \in W, Reaches(r, W, s), NEW k \in 1..Len(r.queue.items), NEW skb \in G,
         Chains(r.queue.items[k], skb), ~before(skb.seq, s), NEW inseq
  PROVE  MovesOn(JoinsPrev(r, k, skb, inseq), W, s)
<1> DEFINE p2     == r.queue.items[k]
           p3     == r.queue.items[k + 1]
           n      == Len(r.queue.items)
           m      == Merged(p2, skb)
           m2     == Merged(m, p3)
           joined == Replace(r, k, m)
           m3     == Replace(r, k, m2)
           filled == Unlink(m3, k + 1)
           closes == k < n /\ SeqEnd(skb) = p3.seq /\ Mergeable(m, p3)
<1>1. p2 \in G /\ p2 \in SkbType /\ skb \in SkbType /\ G \subseteq SkbType /\ n \in Nat
      /\ GoodOutcome(r, h) /\ r.queue.items \in Seq(SkbType)
  BY SpaceParts, KeptParts, GoodParts
<1>2. m \in G /\ m \in SkbType /\ m.seq = p2.seq /\ SeqEnd(m) = SeqEnd(skb)
  <2>1. m \in G
    BY <1>1 DEF Space, Closed
  <2>2. SeqEnd(p2) = skb.seq
    BY DEF Chains
  <2> QED
    BY <1>1, <2>1, <2>2, MergedEnds
<1>3. SeqEnd(skb) \in W /\ ~before(SeqEnd(skb), s)
  <2>1. PICK a, b : a = skb.seq /\ b = SeqEnd(skb)
    OBVIOUS
  <2>2. a \in W /\ b \in W /\ before(a, b) /\ ~before(a, s)
    BY <2>1 DEF Space, InOrderedSpace
  <2>3. ~before(b, a)
    BY <2>2 DEF WeakOrder
  <2>4. ~before(b, s)
    BY <2>2, <2>3 DEF WeakOrder
  <2> QED
    BY <2>1, <2>2, <2>4
<1>4. ASSUME NEW x \in SkbType
      PROVE  /\ GoodOutcome(Replace(r, k, x), h) /\ Reaches(Replace(r, k, x), W, s)
             /\ Replace(r, k, x).queue.items = [r.queue.items EXCEPT ![k] = x]
  BY <1>1, ReplaceGood, ReplaceParts, SameMovesOn
<1>5. /\ \A x : Replace(r, k, x).queue.items = [r.queue.items EXCEPT ![k] = x]
      /\ k \in DOMAIN r.queue.items
  BY <1>1, ReplaceParts
<1>6. MovesOn(joined, W, s)
  BY <1>2, <1>4 DEF Reaches, MovesOn
<1>7. MovesOn(FlushTo(joined, k), W, s)
  <2>1. GoodOutcome(joined, h) /\ joined.queue.items[k] = m
    BY <1>2, <1>4, <1>5
  <2> HIDE DEF joined, m
  <2>2. FlushTo(joined, k).queue.seq_next = SeqEnd(m)
    BY <2>1, FlushToNext
  <2> QED
    BY <1>2, <1>3, <2>2 DEF MovesOn
<1>8. ASSUME closes PROVE MovesOn(filled, W, s) /\ MovesOn(FlushTo(filled, k), W, s)
  <2>1. k + 1 \in 1..n
    BY <1>1, <1>8
  <2>2. p3 \in G /\ p3 \in SkbType
    BY <2>1, SpaceParts
  <2>3. SeqEnd(m) = p3.seq
    BY <1>2, <1>8
  <2>4. m2 \in SkbType /\ SeqEnd(m2) = SeqEnd(p3)
    <3> HIDE DEF m, p3
    <3> QED
      BY <1>2, <2>2, <2>3, MergedEnds, MergedType
  <2>5. SeqEnd(p3) \in W /\ ~before(SeqEnd(p3), s)
    <3>1. PICK a, b : a = SeqEnd(skb) /\ b = SeqEnd(p3)
      OBVIOUS
    <3>2. a \in W /\ ~before(a, s) /\ a = p3.seq
      BY <1>3, <1>8, <3>1
    <3>3. b \in W /\ before(p3.seq, b)
      BY <2>2, <3>1 DEF Space, InOrderedSpace
    <3>4. ~before(b, a)
      BY <3>2, <3>3 DEF WeakOrder
    <3>5. ~before(b, s)
      BY <3>2, <3>3, <3>4 DEF WeakOrder
    <3> QED
      BY <3>1, <3>3, <3>5
  <2> HIDE DEF m2, p3
  <2>6. GoodOutcome(m3, h) /\ Reaches(m3, W, s) /\ m3.queue.items = [r.queue.items EXCEPT ![k] = m2]
    BY <1>4, <2>4
  <2>7. Len(m3.queue.items) = n /\ m3.queue.items[k] = m2 /\ m3.queue.items \in Seq(SkbType)
    <3>1. GoodOutcome(m3, h) /\ Len(m3.queue.items) = n
      BY <1>1, <2>4, ReplaceGood
    <3> QED
      BY <1>5, <2>6, <3>1, GoodParts
  <2> HIDE DEF m3
  <2>8. k + 1 \in 2..Len(m3.queue.items)
    BY <1>1, <2>1, <2>7
  <2>9. GoodOutcome(filled, h) /\ Reaches(filled, W, s)
    BY <2>6, <2>8, UnlinkGood, SameMovesOn
  <2>10. filled.queue.items[k] = m2
    <3>1. PICK items : items = m3.queue.items
      OBVIOUS
    <3>2. /\ items \in Seq(SkbType) /\ Len(items) = n /\ n \in Nat /\ k \in 1..(n - 1)
          /\ k + 1 \in 1..Len(items) /\ k < k + 1
      BY <1>1, <1>8, <2>1, <2>7, <3>1
    <3>3. RemoveAt(items, k + 1)[k] = items[k]
      BY <3>2, RemoveAtProperties
    <3>4. filled.queue.items = RemoveAt(items, k + 1)
      BY <2>6, <3>1, UnlinkParts
    <3> QED
      BY <2>7, <3>1, <3>3, <3>4
  <2> HIDE DEF filled
  <2>11. FlushTo(filled, k).queue.seq_next = SeqEnd(m2)
    BY <2>9, <2>10, FlushToNext
  <2> QED
    BY <2>4, <2>5, <2>9, <2>11 DEF MovesOn, Reaches
<1> HIDE DEF n
<1>9. \/ JoinsPrev(r, k, skb, inseq) = joined
      \/ JoinsPrev(r, k, skb, inseq) = FlushTo(joined, k)
      \/ closes /\ JoinsPrev(r, k, skb, inseq) = filled
      \/ closes /\ JoinsPrev(r, k, skb, inseq) = FlushTo(filled, k)
  BY Zenon DEF JoinsPrev, n
<1> HIDE DEF joined, filled, closes
<1> QED
  BY <1>6, <1>7, <1>8, <1>9, Zenon

LEMMA WalkMovesOn ==
  ASSUME NEW queue \in QueueType, queue.items # <<>>, NEW head,
         head = queue.items[1].id, NEW G, NEW W, W # {}, Space(G, W), WeakOrder(W),
         NEW skb \in G, queue.items \in Seq(G), queue.skb_num = Len(queue.items),
         Rising(queue.items), queue.seq_next \in W, ~before(skb.seq, queue.seq_next)
  PROVE  MovesOn(Walk(queue, head, skb), W, queue.seq_next)
<1> DEFINE items == queue.items
           h     == queue.hash
           s     == queue.seq_next
           stop  == StopIndex(items, skb)
           way   == FlushedOnTheWay(queue, skb)
           f     == IF way = {} THEN 0 ELSE Max(way)
           start == Outcome(queue, <<>>, head, FALSE)
           r     == IF f = 0 THEN start ELSE FlushTo(start, f)
           k     == stop - f
           p2    == items[stop]
           inseq == InSeq(queue)[stop]
<1>1. /\ items \in Seq(G) /\ items \in Seq(SkbType) /\ Len(items) \in Nat /\ Len(items) > 0
      /\ skb \in SkbType /\ G \subseteq SkbType
  <2>1. items \in Seq(SkbType) /\ skb \in SkbType /\ G \subseteq SkbType
    BY DEF QueueType, Space, Closed
  <2> QED
    BY <2>1, LenProperties, EmptySeq
<1>2. stop \in 1..Len(items)
  <2> HIDE DEF items
  <2> QED
    BY <1>1, StopIndexRange
<1>3. /\ f \in 0..(stop - 1)
      /\ f # 0 => skb.seq = SeqEnd(items[f])
  <2>1. /\ way \subseteq 1..(stop - 1)
        /\ \A i \in way : skb.seq = SeqEnd(items[i])
    BY DEF FlushedOnTheWay
  <2> HIDE DEF way, stop, items
  <2>2. way \subseteq 0..(stop - 1) /\ stop - 1 \in Nat
    BY <1>1, <1>2, <2>1
  <2>3. CASE way = {}
    BY <1>1, <1>2, <2>3
  <2>4. CASE way # {}
    <3>1. Max(way) \in way
      BY <2>2, <2>4, MaxNat
    <3> QED
      BY <2>1, <2>2, <2>4, <3>1
  <2> QED
    BY <2>3, <2>4
<1>4. Kept(start, h, G, W) /\ start.queue = queue /\ start.queue.items = items
  <2>1. items[1] \in SkbType
    BY <1>1, ElementOfSeq
  <2>2. head \in Nat
    BY <2>1 DEF SkbType
  <2>3. GoodOutcome(start, h)
    BY <2>2 DEF GoodOutcome, OutcomeType, Outcome
  <2> QED
    BY <2>3 DEF Kept, Outcome
<1>5. ~Passes(items, stop, skb) /\ \A j \in 1..(stop - 1) : Passes(items, j, skb)
  <2> HIDE DEF items
  <2> QED
    BY <1>1, StopIndexPasses
<1>6. s \in W /\ skb.seq \in W /\ ~before(s, s) /\ ~before(skb.seq, s)
  <2>1. s \in SeqNumbers /\ skb.seq \in W
    BY DEF QueueType, SeqNumbers, Space, InOrderedSpace
  <2> QED
    BY <2>1, BeforeIrreflexive
<1> HIDE DEF f, start, stop, s
<1>7. /\ Kept(r, h, G, W) /\ Len(r.queue.items) = Len(items) - f
      /\ \A j \in 1..(Len(items) - f) : r.queue.items[j] = items[f + j]
      /\ Reaches(r, W, s)
  <2>1. CASE f = 0
    <3>1. r = start
      BY <2>1
    <3>2. r.queue.seq_next = s
      BY <1>4, <3>1 DEF s
    <3> QED
      BY <1>1, <1>4, <1>6, <2>1, <3>1, <3>2 DEF Reaches
  <2>2. CASE f # 0
    <3>1. r = FlushTo(start, f)
      BY <2>2
    <3> HIDE DEF items, h, r
    <3>2. f \in 1..(Len(start.queue.items) - 1)
      BY <1>1, <1>2, <1>3, <1>4, <2>2
    <3>3. r.queue.seq_next = SeqEnd(start.queue.items[f])
      BY <1>4, <3>1, KeptParts, FlushToNext
    <3>4. r.queue.seq_next = skb.seq
      BY <1>3, <1>4, <2>2, <3>3
    <3>5. Reaches(r, W, s)
      BY <1>6, <3>4 DEF Reaches
    <3>6. /\ Kept(r, h, G, W) /\ Len(r.queue.items) = Len(items) - f
          /\ \A j \in 1..(Len(items) - f) : r.queue.items[j] = items[f + j]
      <4>1. Kept(start, h, G, W) /\ start.queue.items = items
        BY <1>4
      <4> QED
        BY <3>1, <3>2, <4>1, FlushToKeeps
    <3> QED
      BY <3>5, <3>6
  <2> QED
    BY <2>1, <2>2
<1> HIDE DEF r, items, h
<1>8. k \in 1..Len(r.queue.items) /\ r.queue.items[k] = items[stop]
  <2>1. f + k = stop /\ k \in 1..(Len(items) - f)
    BY <1>1, <1>2, <1>3
  <2> HIDE DEF k
  <2> QED
    BY <1>7, <2>1
<1>10. ASSUME EndsPast(skb, p2), skb.seq = SeqEnd(p2), ~Mergeable(p2, skb)
       PROVE  k = Len(r.queue.items)
  <2>1. ~(stop < Len(items))
    BY <1>5, <1>10 DEF Passes, p2
  <2> QED
    BY <1>1, <1>2, <1>3, <1>7, <2>1
<1> HIDE DEF k
<1>11. p2 = r.queue.items[k]
  BY <1>8
<1> HIDE DEF p2
<1> DEFINE stops == StopsBefore(r, k, skb, inseq)
           next  == JoinsNext(r, k, skb, inseq)
           prev  == JoinsPrev(r, k, skb, inseq)
           last  == CannotJoinLast(r, k, skb, inseq)
           insert == Insert(r, k + 1, skb)
           deliver == Deliver(r)
<1>12. MovesOn(stops, W, s)
  BY <1>7, <1>8, StopsBeforeMovesOn
<1>13. MovesOn(next, W, s)
  BY <1>7, <1>8, JoinsNextMovesOn
<1>14. skb.seq = SeqEnd(p2) /\ Mergeable(p2, skb) => MovesOn(prev, W, s)
  BY <1>6, <1>7, <1>8, <1>11, JoinsPrevMovesOn DEF Chains
<1>15. EndsPast(skb, p2) /\ skb.seq = SeqEnd(p2) /\ ~Mergeable(p2, skb) => MovesOn(last, W, s)
  BY <1>6, <1>7, <1>10, <1>11, CannotJoinLastMovesOn
<1>16. MovesOn(insert, W, s)
  BY <1>7, KeptParts, SameMovesOn
<1>17. MovesOn(deliver, W, s)
  BY <1>7, KeptParts, DeliverMovesOn DEF Reaches
<1>18. Walk(queue, head, skb) =
         CASE before(SeqEnd(skb), p2.seq) -> stops
           [] SeqEnd(skb) = p2.seq        -> next
           [] EndsPast(skb, p2) /\ skb.seq = SeqEnd(p2) ->
                IF Mergeable(p2, skb) THEN prev ELSE last
           [] EndsPast(skb, p2) /\ after(skb.seq, SeqEnd(p2)) -> insert
           [] OTHER -> deliver
  BY Zenon DEF Walk, r, k, f, start, stop, items, p2
<1> HIDE DEF inseq, stops, next, prev, last, insert, deliver
<1>19. MovesOn(Walk(queue, head, skb), W, s)
  BY <1>12, <1>13, <1>14, <1>15, <1>16, <1>17, <1>18, Zenon
<1> QED
  BY <1>19 DEF s

LEMMA MaxReaches ==
  ASSUME NEW W, W \subseteq SeqNumbers, WeakOrder(W), NEW a \in W, NEW b \in W,
         NEW m, m = max_seq(a, b)
  PROVE  m \in W /\ ~before(m, a) /\ ~before(m, b)
<1>1. ~before(a, a) /\ ~before(b, b)
  BY BeforeIrreflexive
<1> QED
  BY <1>1 DEF max_seq, WeakOrder

(* Once something of the flow was passed up, tcp_gro_receive, followed by  *)
(* what its caller does for a segment that is delivered, never takes       *)
(* seq_next back: skb_gro_flush, which assigns it without max_seq, passes  *)
(* up only what ends at, or is followed by, a segment that is not behind   *)
(* it.                                                                     *)
THEOREM ReceiveMovesOn ==
  ASSUME NEW queue \in QueueType, queue.items # <<>>, NEW head,
         head = queue.items[1].id, NEW G, NEW W, W # {}, Space(G, W), WeakOrder(W),
         NEW skb \in SkbType, skb.seq \in W, SeqEnd(skb) \in W,
         NEW ctl \in BOOLEAN, ctl \/ skb \in G,
         queue.items \in Seq(G), queue.skb_num = Len(queue.items),
         Rising(queue.items), queue.seq_next \in W,
         NEW r, r = tcp_gro_receive(queue, head, skb, ctl),
         NEW s, s = IF r.kept THEN r.queue.seq_next
                              ELSE max_seq(r.queue.seq_next, SeqEnd(skb))
  PROVE  s \in W /\ (queue.flushed => ~before(s, queue.seq_next))
<1> DEFINE back == [queue EXCEPT !.seq_next = skb.seq]
           stay == Outcome(queue, <<>>, head, FALSE)
           old  == queue.seq_next
           e    == SeqEnd(skb)
<1>0. W \subseteq SeqNumbers
  BY DEF Space, InOrderedSpace, Linear
<1>1. /\ back \in QueueType /\ back.items = queue.items /\ back.seq_next = skb.seq
      /\ back.skb_num = queue.skb_num
  <2>1. skb.seq \in 0..(SeqRange - 1)
    BY DEF SkbType
  <2> QED
    BY <2>1 DEF QueueType
<1>2. ASSUME r = stay PROVE s \in W /\ ~before(s, old)
  <2>1. s = max_seq(old, e)
    BY <1>2 DEF Outcome
  <2> QED
    BY <1>0, <2>1, MaxReaches
<1>3. ASSUME MovesOn(r, W, skb.seq) \/ MovesOn(r, W, old), skb \in G
      PROVE  /\ s \in W
             /\ MovesOn(r, W, old) /\ ~before(skb.seq, old) => ~before(s, old)
  <2>1. PICK x, a : x = r.queue.seq_next /\ a = skb.seq
    OBVIOUS
  <2>2. x \in W /\ a \in W /\ e \in W /\ old \in W
    BY <1>3, <2>1 DEF MovesOn
  <2>3. before(a, e)
    BY <1>3, <2>1 DEF Space, InOrderedSpace
  <2>4. CASE r.kept
    BY <2>1, <2>2, <2>4 DEF MovesOn
  <2>5. CASE ~r.kept
    <3>1. s = max_seq(x, e)
      BY <2>1, <2>5
    <3>2. s \in W /\ ~before(s, e)
      BY <1>0, <2>2, <3>1, MaxReaches
    <3>3. ~before(e, a)
      BY <2>2, <2>3 DEF WeakOrder
    <3>4. ~before(s, a)
      BY <2>2, <3>2, <3>3 DEF WeakOrder
    <3>5. ~before(a, old) => ~before(s, old)
      BY <2>2, <3>2, <3>4 DEF WeakOrder
    <3> QED
      BY <2>1, <3>2, <3>5
  <2> QED
    BY <2>4, <2>5
<1>4. ASSUME ~ctl, ~before(skb.seq, old), r = Walk(queue, head, skb)
      PROVE  s \in W /\ ~before(s, old)
  <2>1. skb \in G
    BY <1>4
  <2>2. MovesOn(r, W, old)
    BY <1>4, <2>1, WalkMovesOn
  <2> QED
    BY <1>3, <1>4, <2>1, <2>2
<1>5. ASSUME ~ctl, r = Walk(back, head, skb) PROVE s \in W
  <2>1. skb \in G
    BY <1>5
  <2> HIDE DEF back
  <2>2. back.items # <<>> /\ head = back.items[1].id
    BY <1>1
  <2>3. ~before(skb.seq, back.seq_next)
    BY <1>0, <1>1, BeforeIrreflexive
  <2>4. MovesOn(Walk(back, head, skb), W, back.seq_next)
    BY <1>1, <2>1, <2>2, <2>3, WalkMovesOn
  <2> QED
    BY <1>1, <1>3, <1>5, <2>1, <2>4
<1>6. \/ r = stay
      \/ ~ctl /\ ~before(skb.seq, old) /\ r = Walk(queue, head, skb)
      \/ ~ctl /\ ~queue.flushed /\ r = Walk(back, head, skb)
  BY Zenon DEF tcp_gro_receive
<1> HIDE DEF back, stay
<1> QED
  BY <1>2, <1>4, <1>5, <1>6, Zenon

-----------------------------------------------------------------------------
(* Bulk data: segments that do not overlap what is held, and that may all  *)
(* be merged.                                                              *)

UpTo(a, b) == a = b \/ before(a, b)

(* One of the two ends where the other starts, or before.                  *)
Clear(x, s) == UpTo(SeqEnd(x), s.seq) \/ UpTo(SeqEnd(s), x.seq)

(* There is a hole between any two skbs of a queue.                        *)
Apart(items) ==
  \A i, j \in 1..Len(items) : i < j => before(SeqEnd(items[i]), items[j].seq)

MayJoin(items, skb) ==
  \A i \in 1..Len(items) :
    /\ Mergeable(items[i], skb) /\ Mergeable(skb, items[i])
    /\ \A j \in 1..Len(items) : j # i => Mergeable(Merged(items[i], skb), items[j])

(* The new skb fits between those held, and nothing asks for a flush.      *)
BulkCase(items, skb) ==
  /\ Apart(items) /\ MayJoin(items, skb)
  /\ ~skb.psh
  /\ \A i \in 1..Len(items) : Clear(skb, items[i]) /\ ~items[i].psh

LEMMA OutcomeKept ==
  ASSUME NEW h, NEW r, GoodOutcome(r, h), NEW k, NEW skb
  PROVE  /\ Insert(r, k, skb).kept = TRUE /\ Replace(r, k, skb).kept = TRUE
         /\ Unlink(r, k).kept = r.kept
<1>1. r \in OutcomeType
  BY GoodParts
<1>2. Insert(r, k, skb).kept = TRUE
  <2> DEFINE x == IF k = 1 THEN skb.id ELSE r.head
             q == [r.queue EXCEPT !.items   = InsertAt(r.queue.items, k, skb),
                                  !.skb_num = r.queue.skb_num + 1]
  <2>1. Insert(r, k, skb) = [r EXCEPT !.queue = q, !.head = x, !.kept = TRUE]
    BY DEF Insert
  <2> HIDE DEF x, q
  <2> QED
    BY <1>1, <2>1 DEF OutcomeType
<1>3. Replace(r, k, skb).kept = TRUE
  <2> DEFINE x == IF k = 1 THEN skb.id ELSE r.head
             q == [r.queue EXCEPT !.items = [r.queue.items EXCEPT ![k] = skb]]
  <2>1. Replace(r, k, skb) = [r EXCEPT !.queue = q, !.head = x, !.kept = TRUE]
    BY DEF Replace
  <2> HIDE DEF x, q
  <2> QED
    BY <1>1, <2>1 DEF OutcomeType
<1>4. Unlink(r, k).kept = r.kept
  <2> DEFINE q == [r.queue EXCEPT !.items   = RemoveAt(r.queue.items, k),
                                  !.skb_num = r.queue.skb_num - 1]
  <2>1. Unlink(r, k) = [r EXCEPT !.queue = q]
    BY DEF Unlink
  <2> HIDE DEF q
  <2> QED
    BY <1>1, <2>1 DEF OutcomeType
<1> QED
  BY <1>2, <1>3, <1>4

(* What a branch of the walk does with bulk data: nothing is passed up.    *)
Absorbs(r, queue, skb) ==
  /\ r.out = <<>> /\ r.kept
  /\ r.queue.seq_next = queue.seq_next
  /\ Apart(r.queue.items)
  /\ r.queue.items[1].seq \in {queue.items[1].seq, skb.seq}

(* The places of the skbs of a queue, for arguments about order alone.     *)
LEMMA ItemPlaces ==
  ASSUME NEW G, NEW W, W # {}, Space(G, W), NEW items \in Seq(G), Rising(items), Apart(items)
  PROVE  \A i \in 1..Len(items) :
           /\ items[i] \in G /\ items[i] \in SkbType
           /\ items[i].seq \in W /\ SeqEnd(items[i]) \in W
           /\ before(items[i].seq, SeqEnd(items[i]))
           /\ \A j \in 1..Len(items) :
                i < j => /\ before(SeqEnd(items[i]), items[j].seq)
                         /\ before(items[i].seq, items[j].seq)
<1> TAKE i \in 1..Len(items)
<1>1. items[i] \in G
  BY ElementOfSeq
<1>2. items[i] \in SkbType
  BY <1>1 DEF Space, Closed
<1> QED
  BY <1>1, <1>2 DEF Space, InOrderedSpace, Rising, Apart

LEMMA OrderFacts ==
  ASSUME NEW W, Linear(W)
  PROVE  /\ \A a, b, c \in W : before(a, b) /\ before(b, c) => before(a, c)
         /\ \A a, b \in W : before(a, b) => ~before(b, a) /\ a # b
         /\ \A a, b, c \in W : UpTo(a, b) /\ before(b, c) => before(a, c)
         /\ \A a, b, c \in W : before(a, b) /\ UpTo(b, c) => before(a, c)
<1>1. W \subseteq SeqNumbers /\ \A a, b, c \in W : before(a, b) /\ before(b, c) => before(a, c)
  BY DEF Linear
<1>2. \A a \in W : ~before(a, a)
  BY <1>1, BeforeIrreflexive
<1> QED
  BY <1>1, <1>2 DEF UpTo

(* skb is linked in between two skbs of the queue that it does not touch.  *)
LEMMA InsertAbsorbs ==
  ASSUME NEW h, NEW r, GoodOutcome(r, h), r.out = <<>>,
         NEW items, items = r.queue.items, NEW skb \in SkbType, Apart(items),
         NEW k \in 1..(Len(items) + 1),
         \A j \in 1..(k - 1) : before(SeqEnd(items[j]), skb.seq),
         \A j \in k..Len(items) : before(SeqEnd(skb), items[j].seq)
  PROVE  Absorbs(Insert(r, k, skb), r.queue, skb)
<1>1. items \in Seq(SkbType) /\ Len(items) \in Nat
  BY GoodParts
<1>2. PICK new : new = InsertAt(items, k, skb)
  OBVIOUS
<1>3. new \in Seq(SkbType) /\ Len(new) = Len(items) + 1
  BY <1>1, <1>2, InsertAtProperties
<1>4. \A j \in 1..(Len(items) + 1) :
        new[j] = IF j < k THEN items[j] ELSE IF j = k THEN skb ELSE items[j - 1]
  BY <1>1, <1>2, InsertAtElements
<1>9. new[1] = IF k = 1 THEN skb ELSE items[1]
  BY <1>1, <1>4
<1>5. ASSUME NEW i \in 1..Len(new), NEW j \in 1..Len(new), i < j
      PROVE  before(SeqEnd(new[i]), new[j].seq)
  <2>1. CASE j < k
    <3>1. new[i] = items[i] /\ new[j] = items[j] /\ i \in 1..Len(items) /\ j \in 1..Len(items)
      BY <1>1, <1>3, <1>4, <1>5, <2>1
    <3> QED
      BY <1>5, <3>1 DEF Apart
  <2>2. CASE j = k
    <3>1. new[i] = items[i] /\ new[j] = skb /\ i \in 1..(k - 1)
      BY <1>1, <1>3, <1>4, <1>5, <2>2
    <3> QED
      BY <3>1
  <2>3. CASE j > k /\ i = k
    <3>1. new[i] = skb /\ new[j] = items[j - 1] /\ j - 1 \in k..Len(items)
      BY <1>1, <1>3, <1>4, <1>5, <2>3
    <3> QED
      BY <3>1
  <2>4. CASE j > k /\ i < k
    <3>1. /\ new[i] = items[i] /\ new[j] = items[j - 1] /\ i < j - 1
          /\ i \in 1..Len(items) /\ j - 1 \in 1..Len(items)
      BY <1>1, <1>3, <1>4, <1>5, <2>4
    <3> QED
      BY <3>1 DEF Apart
  <2>5. CASE j > k /\ i > k
    <3>1. /\ new[i] = items[i - 1] /\ new[j] = items[j - 1] /\ i - 1 < j - 1
          /\ i - 1 \in 1..Len(items) /\ j - 1 \in 1..Len(items)
      BY <1>1, <1>3, <1>4, <1>5, <2>5
    <3> QED
      BY <3>1 DEF Apart
  <2> QED
    BY <1>3, <1>5, <2>1, <2>2, <2>3, <2>4, <2>5
<1>6. Apart(new)
  BY <1>5 DEF Apart
<1>7. PICK x : x = Insert(r, k, skb)
  OBVIOUS
<1>8. /\ x.queue.items = new /\ x.out = <<>> /\ x.kept
      /\ x.queue.seq_next = r.queue.seq_next
  <2>1. /\ Insert(r, k, skb).queue.items = InsertAt(r.queue.items, k, skb)
        /\ Insert(r, k, skb).out = r.out
    BY InsertParts
  <2>2. Insert(r, k, skb).queue.seq_next = r.queue.seq_next
    BY InsertNext
  <2>3. Insert(r, k, skb).kept = TRUE
    BY OutcomeKept
  <2> QED
    BY <1>2, <1>7, <2>1, <2>2, <2>3
<1> QED
  BY <1>6, <1>7, <1>8, <1>9 DEF Absorbs

(* items[k] is replaced by an skb that ends or starts where it did, or     *)
(* where skb does.                                                         *)
LEMMA ReplaceAbsorbs ==
  ASSUME NEW h, NEW r, GoodOutcome(r, h), r.out = <<>>,
         NEW items, items = r.queue.items, NEW skb, NEW new \in SkbType, Apart(items),
         NEW k \in 1..Len(items), new.seq \in {items[k].seq, skb.seq},
         \A j \in 1..(k - 1) : before(SeqEnd(items[j]), new.seq),
         \A j \in (k + 1)..Len(items) : before(SeqEnd(new), items[j].seq)
  PROVE  Absorbs(Replace(r, k, new), r.queue, skb)
<1>1. items \in Seq(SkbType) /\ Len(items) \in Nat
  BY GoodParts
<1>2. PICK t : t = [items EXCEPT ![k] = new]
  OBVIOUS
<1>3. Len(t) = Len(items) /\ \A j \in 1..Len(items) : t[j] = IF j = k THEN new ELSE items[j]
  BY <1>1, <1>2
<1>4. ASSUME NEW i \in 1..Len(t), NEW j \in 1..Len(t), i < j
      PROVE  before(SeqEnd(t[i]), t[j].seq)
  <2>1. CASE j = k
    <3>1. t[i] = items[i] /\ t[j] = new /\ i \in 1..(k - 1)
      BY <1>1, <1>3, <1>4, <2>1
    <3> QED
      BY <3>1
  <2>2. CASE i = k
    <3>1. t[i] = new /\ t[j] = items[j] /\ j \in (k + 1)..Len(items)
      BY <1>1, <1>3, <1>4, <2>2
    <3> QED
      BY <3>1
  <2>3. CASE i # k /\ j # k
    BY <1>3, <1>4, <2>3 DEF Apart
  <2> QED
    BY <2>1, <2>2, <2>3
<1>5. Apart(t)
  BY <1>4 DEF Apart
<1>6. t[1].seq \in {items[1].seq, skb.seq}
  BY <1>1, <1>3
<1>7. PICK x : x = Replace(r, k, new)
  OBVIOUS
<1>8. /\ x.queue.items = t /\ x.out = <<>> /\ x.kept
      /\ x.queue.seq_next = r.queue.seq_next
  <2>1. /\ Replace(r, k, new).queue.items = [r.queue.items EXCEPT ![k] = new]
        /\ Replace(r, k, new).out = r.out
    BY ReplaceParts
  <2>2. Replace(r, k, new).queue.seq_next = r.queue.seq_next
    BY ReplaceNext
  <2>3. Replace(r, k, new).kept = TRUE
    BY OutcomeKept
  <2> QED
    BY <1>2, <1>7, <2>1, <2>2, <2>3
<1> QED
  BY <1>5, <1>6, <1>7, <1>8 DEF Absorbs

(* items[k] and items[k + 1] are joined by skb.                            *)
LEMMA FilledAbsorbs ==
  ASSUME NEW h, NEW r, GoodOutcome(r, h), r.out = <<>>,
         NEW items, items = r.queue.items, NEW skb, NEW new \in SkbType, Apart(items),
         NEW k \in 1..(Len(items) - 1), new.seq = items[k].seq,
         SeqEnd(new) = SeqEnd(items[k + 1])
  PROVE  Absorbs(Unlink(Replace(r, k, new), k + 1), r.queue, skb)
<1>1. items \in Seq(SkbType) /\ Len(items) \in Nat
  BY GoodParts
<1>2. k \in 1..Len(items) /\ k + 1 \in 1..Len(items) /\ k + 1 \in 2..Len(items)
  BY <1>1
<1>3. PICK t, u : t = [items EXCEPT ![k] = new] /\ u = RemoveAt(t, k + 1)
  OBVIOUS
<1>4. /\ t \in Seq(SkbType) /\ Len(t) = Len(items)
      /\ \A j \in 1..Len(items) : t[j] = IF j = k THEN new ELSE items[j]
  BY <1>1, <1>2, <1>3
<1>5. /\ Len(u) = Len(items) - 1
      /\ \A j \in 1..(Len(items) - 1) : u[j] = IF j < k + 1 THEN t[j] ELSE t[j + 1]
  <2>1. PICK n, i : n = Len(items) /\ i = k + 1
    OBVIOUS
  <2>2. i \in 1..Len(t) /\ Len(t) = n
    BY <1>2, <1>4, <2>1
  <2>3. /\ Len(RemoveAt(t, i)) = Len(t) - 1
        /\ \A j \in 1..(Len(t) - 1) : RemoveAt(t, i)[j] = IF j < i THEN t[j] ELSE t[j + 1]
    BY <1>4, <2>2, RemoveAtProperties
  <2>4. u = RemoveAt(t, i)
    BY <1>3, <2>1
  <2>5. \A j \in 1..(n - 1) : u[j] = IF j < i THEN t[j] ELSE t[j + 1]
    BY <2>2, <2>3, <2>4
  <2> QED
    BY <2>1, <2>2, <2>3, <2>4, <2>5
<1>6. ASSUME NEW j \in 1..(Len(items) - 1)
      PROVE  u[j] = IF j < k THEN items[j] ELSE IF j = k THEN new ELSE items[j + 1]
  <2>1. /\ j \in 1..Len(items) /\ j + 1 \in 1..Len(items) /\ j \in Nat /\ k \in Nat
        /\ u[j] = IF j < k + 1 THEN t[j] ELSE t[j + 1]
    BY <1>1, <1>2, <1>5
  <2>2. CASE j < k
    <3>1. j < k + 1 /\ j # k
      BY <2>1, <2>2
    <3> QED
      BY <1>4, <2>1, <2>2, <3>1
  <2>3. CASE j = k
    <3>1. j < k + 1 /\ ~(j < k)
      BY <2>1, <2>3
    <3> QED
      BY <1>4, <2>1, <2>3, <3>1
  <2>4. CASE k < j
    <3>1. ~(j < k + 1) /\ ~(j < k) /\ j # k /\ j + 1 # k
      BY <2>1, <2>4
    <3> QED
      BY <1>4, <2>1, <3>1
  <2> QED
    BY <2>1, <2>2, <2>3, <2>4
<1>7. ASSUME NEW i \in 1..Len(u), NEW j \in 1..Len(u), i < j
      PROVE  before(SeqEnd(u[i]), u[j].seq)
  <2>0. /\ i \in 1..(Len(items) - 1) /\ j \in 1..(Len(items) - 1)
        /\ i \in Nat /\ j \in Nat /\ k \in Nat
    BY <1>1, <1>2, <1>5
  <2>a. PICK m, n : m = (IF i < k THEN i ELSE i + 1) /\ n = (IF j <= k THEN j ELSE j + 1)
    OBVIOUS
  <2>b. m \in 1..Len(items) /\ n \in 1..Len(items)
    BY ONLY <1>1, <2>0, <2>a
  <2>1. SeqEnd(u[i]) = SeqEnd(items[m])
    <3>1. u[i] = IF i < k THEN items[i] ELSE IF i = k THEN new ELSE items[i + 1]
      BY <1>6, <2>0
    <3>2. CASE i < k
      BY <2>a, <3>1, <3>2
    <3>3. CASE i = k
      <4>1. ~(i < k) /\ m = k + 1
        BY <2>0, <2>a, <3>3
      <4>2. u[i] = new
        BY <3>1, <3>3, <4>1
      <4> QED
        BY <4>1, <4>2
    <3>4. CASE k < i
      <4>1. ~(i < k) /\ i # k
        BY <2>0, <3>4
      <4> QED
        BY <2>a, <3>1, <4>1
    <3> QED
      BY <2>0, <3>2, <3>3, <3>4
  <2>2. u[j].seq = items[n].seq
    <3>1. u[j] = IF j < k THEN items[j] ELSE IF j = k THEN new ELSE items[j + 1]
      BY <1>6, <2>0
    <3>2. CASE j < k
      <4>1. j <= k
        BY <2>0, <3>2
      <4> QED
        BY <2>a, <3>1, <3>2, <4>1
    <3>3. CASE j = k
      <4>1. ~(j < k) /\ n = k
        BY <2>0, <2>a, <3>3
      <4>2. u[j] = new
        BY <3>1, <3>3, <4>1
      <4> QED
        BY <4>1, <4>2
    <3>4. CASE k < j
      <4>1. ~(j < k) /\ j # k /\ ~(j <= k)
        BY <2>0, <3>4
      <4> QED
        BY <2>a, <3>1, <4>1
    <3> QED
      BY <2>0, <3>2, <3>3, <3>4
  <2>3. m < n
    <3>1. CASE i < k
      <4>1. m = i /\ n >= j
        BY <2>0, <2>a, <3>1
      <4> QED
        BY <1>7, <2>0, <2>b, <4>1
    <3>2. CASE k <= i
      <4>1. m = i + 1 /\ n = j + 1
        BY <1>7, <2>0, <2>a, <3>2
      <4> QED
        BY <1>7, <2>0, <4>1
    <3> QED
      BY <2>0, <3>1, <3>2
  <2> QED
    BY <2>b, <2>1, <2>2, <2>3 DEF Apart
<1>8. Apart(u)
  BY <1>7 DEF Apart
<1>9. u[1].seq = items[1].seq
  <2>1. 1 \in 1..(Len(items) - 1)
    BY <1>1
  <2>2. u[1] = IF 1 < k THEN items[1] ELSE IF 1 = k THEN new ELSE items[1 + 1]
    BY <1>6, <2>1
  <2> QED
    BY <1>1, <2>2
<1>10. PICK x, y : x = Replace(r, k, new) /\ y = Unlink(x, k + 1)
  OBVIOUS
<1>11. /\ GoodOutcome(x, h) /\ x.queue.items = t /\ x.out = <<>> /\ x.kept
       /\ x.queue.seq_next = r.queue.seq_next
  <2>1. GoodOutcome(Replace(r, k, new), h)
    BY <1>2, ReplaceGood
  <2>2. /\ Replace(r, k, new).queue.items = [r.queue.items EXCEPT ![k] = new]
        /\ Replace(r, k, new).out = r.out
    BY ReplaceParts
  <2>3. Replace(r, k, new).queue.seq_next = r.queue.seq_next
    BY ReplaceNext
  <2>4. Replace(r, k, new).kept = TRUE
    BY OutcomeKept
  <2> QED
    BY <1>3, <1>10, <2>1, <2>2, <2>3, <2>4
<1>12. /\ y.queue.items = u /\ y.out = <<>> /\ y.kept
       /\ y.queue.seq_next = r.queue.seq_next
  <2>1. /\ Unlink(x, k + 1).queue.items = RemoveAt(x.queue.items, k + 1)
        /\ Unlink(x, k + 1).out = x.out
    BY <1>11, UnlinkParts
  <2>2. Unlink(x, k + 1).queue.seq_next = x.queue.seq_next
    BY <1>11, UnlinkNext
  <2>3. Unlink(x, k + 1).kept = x.kept
    BY <1>11, OutcomeKept
  <2> QED
    BY <1>3, <1>10, <1>11, <2>1, <2>2, <2>3
<1> QED
  BY <1>8, <1>9, <1>10, <1>12 DEF Absorbs

(* skb continues items[k], and perhaps reaches items[k + 1].               *)
LEMMA JoinsPrevAbsorbs ==
  ASSUME NEW h, NEW r, GoodOutcome(r, h), r.out = <<>>, NEW G, NEW W, W # {}, Space(G, W),
         NEW items, items = r.queue.items, items \in Seq(G), Rising(items),
         NEW skb \in G, BulkCase(items, skb), NEW k \in 1..Len(items),
         skb.seq = SeqEnd(items[k]), NEW inseq
  PROVE  Absorbs(JoinsPrev(r, k, skb, inseq), r.queue, skb)
<1> DEFINE n      == Len(items)
           p2     == items[k]
           p3     == items[k + 1]
           m      == Merged(p2, skb)
           closes == k < n /\ SeqEnd(skb) = p3.seq
           joined == Replace(r, k, m)
           filled == Unlink(Replace(r, k, Merged(m, p3)), k + 1)
<1>1. /\ Apart(items) /\ ~skb.psh /\ n \in Nat
      /\ \A i \in 1..n : Clear(skb, items[i]) /\ ~items[i].psh
      /\ \A j \in 1..n : j # k => Mergeable(m, items[j])
  BY LenProperties DEF BulkCase, MayJoin
<1>2. /\ Linear(W) /\ skb \in SkbType /\ skb.seq \in W /\ SeqEnd(skb) \in W
      /\ before(skb.seq, SeqEnd(skb))
  BY DEF Space, Closed, InOrderedSpace
<1>3. \A i \in 1..n :
        /\ items[i] \in G /\ items[i] \in SkbType
        /\ items[i].seq \in W /\ SeqEnd(items[i]) \in W
        /\ before(items[i].seq, SeqEnd(items[i]))
        /\ \A j \in 1..n : i < j => /\ before(SeqEnd(items[i]), items[j].seq)
                                    /\ before(items[i].seq, items[j].seq)
  BY <1>1, ItemPlaces
<1> HIDE DEF n
<1>4. /\ m \in SkbType /\ m.seq = p2.seq /\ SeqEnd(m) = SeqEnd(skb) /\ m.psh = skb.psh
  <2>1. p2 \in SkbType /\ SeqEnd(p2) = skb.seq
    BY <1>3 DEF n
  <2> HIDE DEF p2
  <2> QED
    BY <1>2, <2>1, MergedType, MergedEnds
<1>5. ASSUME NEW j \in (k + 1)..n PROVE UpTo(SeqEnd(skb), items[j].seq)
  <2>1. j \in 1..n /\ k \in 1..n /\ k < j
    BY <1>1 DEF n
  <2>2. PICK a, b, c, d : a = skb.seq /\ b = items[j].seq /\ c = SeqEnd(items[j]) /\ d = SeqEnd(skb)
    OBVIOUS
  <2>3. before(a, b) /\ before(b, c) /\ a \in W /\ b \in W /\ c \in W
    BY <1>2, <1>3, <2>1, <2>2
  <2>4. before(a, c)
    BY <1>2, <2>3, OrderFacts
  <2>5. ~UpTo(c, a)
    BY <1>2, <2>3, <2>4, OrderFacts DEF UpTo
  <2> QED
    BY <1>1, <2>1, <2>2, <2>5 DEF Clear
<1>6. \A j \in 1..(k - 1) : before(SeqEnd(items[j]), p2.seq)
  <2> SUFFICES ASSUME NEW j \in 1..(k - 1) PROVE before(SeqEnd(items[j]), p2.seq)
    OBVIOUS
  <2>1. j \in 1..n /\ k \in 1..n /\ j < k
    BY <1>1 DEF n
  <2> QED
    BY <1>3, <2>1
<1>7. ASSUME closes
      PROVE  Absorbs(filled, r.queue, skb) /\ Mergeable(m, p3) /\ ~p3.psh
  <2>1. k \in 1..(n - 1) /\ k + 1 \in 1..n /\ k + 1 # k
    BY <1>1, <1>7 DEF n
  <2>2. p3 \in SkbType /\ Mergeable(m, p3) /\ ~p3.psh
    BY <1>1, <1>3, <2>1
  <2>3. PICK new : new = Merged(m, p3)
    OBVIOUS
  <2>4. SeqEnd(m) = p3.seq
    BY <1>4, <1>7
  <2>5. new \in SkbType /\ new.seq = p2.seq /\ SeqEnd(new) = SeqEnd(p3)
    <3> HIDE DEF m, p3, p2
    <3> QED
      BY <1>4, <2>2, <2>3, <2>4, MergedType, MergedEnds
  <2>6. Absorbs(Unlink(Replace(r, k, new), k + 1), r.queue, skb)
    BY <1>1, <2>1, <2>5, FilledAbsorbs DEF n
  <2> QED
    BY <2>2, <2>3, <2>6
<1>8. ASSUME ~closes PROVE Absorbs(joined, r.queue, skb)
  <2>1. ASSUME NEW j \in (k + 1)..n PROVE before(SeqEnd(m), items[j].seq)
    <3>1. k + 1 \in 1..n /\ k < n /\ j \in 1..n /\ k + 1 \in (k + 1)..n
      BY <1>1 DEF n
    <3>2. PICK a, b, c : a = SeqEnd(skb) /\ b = p3.seq /\ c = items[j].seq
      OBVIOUS
    <3>3. before(a, b)
      BY <1>5, <1>8, <3>1, <3>2 DEF UpTo
    <3>4. a \in W /\ b \in W /\ c \in W /\ (j = k + 1 \/ before(b, c))
      BY <1>1, <1>2, <1>3, <3>1, <3>2
    <3>5. before(a, c)
      BY <1>2, <3>2, <3>3, <3>4, OrderFacts
    <3> QED
      BY <1>4, <3>2, <3>5
  <2>2. PICK new : new = m
    OBVIOUS
  <2>3. \A j \in 1..(k - 1) : before(SeqEnd(items[j]), new.seq)
    BY <1>4, <1>6, <2>2
  <2>4. new \in SkbType /\ new.seq = items[k].seq
    BY <1>4, <2>2
  <2>5. Absorbs(Replace(r, k, new), r.queue, skb)
    BY <1>1, <2>1, <2>2, <2>3, <2>4, ReplaceAbsorbs DEF n
  <2> QED
    BY <2>2, <2>5
<1>9. JoinsPrev(r, k, skb, inseq) = IF closes THEN filled ELSE joined
  <2>1. ~m.psh
    BY <1>1, <1>4
  <2>2. closes => Mergeable(m, p3) /\ ~p3.psh
    BY <1>7
  <2>3. JoinsPrev(r, k, skb, inseq) =
          CASE (inseq = p2.seq) /\ m.psh ->
                 IF k < n THEN FlushTo(joined, k) ELSE joined
            [] ~((inseq = p2.seq) /\ m.psh) /\ closes /\ ~Mergeable(m, p3) ->
                 IF inseq = p2.seq THEN FlushTo(joined, k) ELSE joined
            [] ~((inseq = p2.seq) /\ m.psh) /\ closes /\ Mergeable(m, p3) ->
                 IF (inseq = p2.seq) /\ p3.psh /\ k + 1 < n THEN FlushTo(filled, k) ELSE filled
            [] OTHER -> joined
    BY DEF JoinsPrev, n
  <2> HIDE DEF m, p2, p3, closes, joined, filled
  <2> QED
    BY <2>1, <2>2, <2>3
<1> QED
  BY <1>7, <1>8, <1>9

(* The walk passes nothing up, and the hole it finds takes skb.            *)
LEMMA WalkAbsorbs ==
  ASSUME NEW queue \in QueueType, queue.items # <<>>, NEW head,
         head = queue.items[1].id, NEW G, NEW W, W # {}, Space(G, W),
         NEW items, items = queue.items, items \in Seq(G), Rising(items),
         NEW skb \in G, BulkCase(items, skb)
  PROVE  Absorbs(Walk(queue, head, skb), queue, skb)
<1> DEFINE stop  == StopIndex(items, skb)
           way   == FlushedOnTheWay(queue, skb)
           p2    == items[stop]
           inseq == InSeq(queue)[stop]
<1>1. PICK start : start = Outcome(queue, <<>>, head, FALSE)
  OBVIOUS
<1>2. /\ Linear(W) /\ skb \in SkbType /\ skb.seq \in W /\ SeqEnd(skb) \in W
      /\ before(skb.seq, SeqEnd(skb))
  BY DEF Space, Closed, InOrderedSpace
<1>3. /\ Apart(items) /\ ~skb.psh
      /\ \A i \in 1..Len(items) :
           /\ Clear(skb, items[i]) /\ ~items[i].psh
           /\ Mergeable(items[i], skb) /\ Mergeable(skb, items[i])
  BY DEF BulkCase, MayJoin
<1>4. items \in Seq(SkbType) /\ Len(items) \in Nat /\ Len(items) > 0
  <2>1. items \in Seq(SkbType)
    BY DEF QueueType
  <2> QED
    BY <2>1, LenProperties, EmptySeq
<1>5. \A i \in 1..Len(items) :
        /\ items[i] \in G /\ items[i] \in SkbType
        /\ items[i].seq \in W /\ SeqEnd(items[i]) \in W
        /\ before(items[i].seq, SeqEnd(items[i]))
        /\ \A j \in 1..Len(items) : i < j => /\ before(SeqEnd(items[i]), items[j].seq)
                                             /\ before(items[i].seq, items[j].seq)
  BY <1>3, ItemPlaces
<1>6. /\ stop \in 1..Len(items)
      /\ ~Passes(items, stop, skb) /\ \A j \in 1..(stop - 1) : Passes(items, j, skb)
  BY <1>4, StopIndexRange, StopIndexPasses
<1>7. GoodOutcome(start, queue.hash) /\ start.queue = queue /\ start.out = <<>>
  <2>1. items[1] \in SkbType
    BY <1>4, ElementOfSeq
  <2>2. head \in Nat
    BY <2>1 DEF SkbType
  <2> QED
    BY <1>1, <2>2 DEF GoodOutcome, OutcomeType, Outcome
<1> HIDE DEF stop
<1>8. \A j \in 1..(stop - 1) : before(SeqEnd(items[j]), skb.seq) /\ skb.seq # SeqEnd(items[j])
  <2> SUFFICES ASSUME NEW j \in 1..(stop - 1)
               PROVE  before(SeqEnd(items[j]), skb.seq) /\ skb.seq # SeqEnd(items[j])
    OBVIOUS
  <2>1. j \in 1..Len(items)
    BY <1>4, <1>6
  <2>2. after(skb.seq, SeqEnd(items[j]))
    BY <1>3, <1>6, <2>1 DEF Passes
  <2>3. before(SeqEnd(items[j]), skb.seq) /\ SeqEnd(items[j]) \in W
    BY <1>5, <2>1, <2>2 DEF after
  <2> QED
    BY <1>2, <2>3, OrderFacts
<1>9. way = {}
  BY <1>8 DEF FlushedOnTheWay, stop
<1>10. Walk(queue, head, skb) =
         CASE before(SeqEnd(skb), p2.seq) -> StopsBefore(start, stop, skb, inseq)
           [] SeqEnd(skb) = p2.seq        -> JoinsNext(start, stop, skb, inseq)
           [] EndsPast(skb, p2) /\ skb.seq = SeqEnd(p2) ->
                IF Mergeable(p2, skb) THEN JoinsPrev(start, stop, skb, inseq)
                                      ELSE CannotJoinLast(start, stop, skb, inseq)
           [] EndsPast(skb, p2) /\ after(skb.seq, SeqEnd(p2)) ->
                Insert(start, stop + 1, skb)
           [] OTHER -> Deliver(start)
  <2> DEFINE f == IF way = {} THEN 0 ELSE Max(way)
             r == IF f = 0 THEN start ELSE FlushTo(start, f)
             k == stop - f
  <2>1. Walk(queue, head, skb) =
          CASE before(SeqEnd(skb), p2.seq) -> StopsBefore(r, k, skb, inseq)
            [] SeqEnd(skb) = p2.seq        -> JoinsNext(r, k, skb, inseq)
            [] EndsPast(skb, p2) /\ skb.seq = SeqEnd(p2) ->
                 IF Mergeable(p2, skb) THEN JoinsPrev(r, k, skb, inseq)
                                       ELSE CannotJoinLast(r, k, skb, inseq)
            [] EndsPast(skb, p2) /\ after(skb.seq, SeqEnd(p2)) -> Insert(r, k + 1, skb)
            [] OTHER -> Deliver(r)
    BY <1>1 DEF Walk, stop
  <2>2. f = 0
    BY <1>9
  <2> HIDE DEF f, way, p2, inseq
  <2>3. r = start /\ k = stop
    BY <1>4, <1>6, <2>2
  <2> HIDE DEF r, k
  <2> QED
    BY <2>1, <2>3
<1> DEFINE stops == StopsBefore(start, stop, skb, inseq)
           next  == JoinsNext(start, stop, skb, inseq)
           prev  == JoinsPrev(start, stop, skb, inseq)
           last  == CannotJoinLast(start, stop, skb, inseq)
           hole  == Insert(start, stop + 1, skb)
           walk  == Walk(queue, head, skb)
           e     == SeqEnd(skb)
           e2    == SeqEnd(p2)
           ends  == EndsPast(skb, p2)
           joins == Mergeable(p2, skb)
           less  == before(e, p2.seq)
           past  == after(skb.seq, e2)
           up    == Deliver(start)
<1>16. walk = CASE less -> stops
                [] e = p2.seq -> next
                [] ends /\ skb.seq = e2 -> IF joins THEN prev ELSE last
                [] ends /\ past -> hole
                [] OTHER -> up
  BY <1>10
<1>15. /\ ~(less /\ e = p2.seq)
       /\ ends => ~less /\ e # p2.seq
       /\ past => skb.seq # e2
  <2>1. p2.seq \in W /\ e2 \in W
    BY <1>5, <1>6
  <2>2. e \in W
    BY <1>2
  <2> HIDE DEF p2
  <2> QED
    BY <1>2, <2>1, <2>2, OrderFacts DEF EndsPast, after
<1>17. /\ less => walk = stops
       /\ e = p2.seq => walk = next
       /\ ends /\ skb.seq = e2 /\ joins => walk = prev
       /\ ends /\ skb.seq # e2 /\ past => walk = hole
  <2> HIDE DEF stops, next, prev, last, hole, walk, e, e2, ends, joins, less, past, up, p2
  <2>1. ASSUME less PROVE walk = stops
    BY <1>15, <1>16, <2>1, Zenon
  <2>2. ASSUME e = p2.seq PROVE walk = next
    BY <1>15, <1>16, <2>2, Zenon
  <2>3. ASSUME ends, skb.seq = e2, joins PROVE walk = prev
    BY <1>15, <1>16, <2>3, Zenon
  <2>4. ASSUME ends, skb.seq # e2, past PROVE walk = hole
    BY <1>15, <1>16, <2>4, Zenon
  <2> QED
    BY <2>1, <2>2, <2>3, <2>4
<1> HIDE DEF way, inseq
<1>11. /\ p2 \in G /\ p2 \in SkbType /\ Clear(skb, p2) /\ ~p2.psh
       /\ Mergeable(p2, skb) /\ Mergeable(skb, p2)
  BY <1>3, <1>5, <1>6
<1>12. CASE before(SeqEnd(skb), p2.seq)
  <2>1. Walk(queue, head, skb) = StopsBefore(start, stop, skb, inseq)
    BY <1>12, <1>17
  <2>2. StopsBefore(start, stop, skb, inseq) = Insert(start, stop, skb)
    BY <1>3 DEF StopsBefore
  <2>3. \A j \in stop..Len(items) : before(SeqEnd(skb), items[j].seq)
    <3> SUFFICES ASSUME NEW j \in stop..Len(items) PROVE before(SeqEnd(skb), items[j].seq)
      OBVIOUS
    <3>1. PICK a, b, c : a = SeqEnd(skb) /\ b = p2.seq /\ c = items[j].seq
      OBVIOUS
    <3>2. /\ a \in W /\ b \in W /\ c \in W /\ before(a, b) /\ (j = stop \/ before(b, c))
      BY <1>2, <1>4, <1>5, <1>6, <1>12, <3>1
    <3>3. before(a, c)
      BY <1>2, <3>1, <3>2, OrderFacts
    <3> QED
      BY <3>1, <3>3
  <2>4. stop \in 1..(Len(items) + 1)
    BY <1>4, <1>6
  <2>5. Absorbs(Insert(start, stop, skb), queue, skb)
    BY <1>2, <1>3, <1>7, <1>8, <2>3, <2>4, InsertAbsorbs
  <2> QED
    BY <2>1, <2>2, <2>5
<1>13. CASE SeqEnd(skb) = p2.seq
  <2>1. ~before(SeqEnd(skb), p2.seq)
    BY <1>2, <1>13, OrderFacts
  <2>2. Walk(queue, head, skb) = JoinsNext(start, stop, skb, inseq)
    BY <1>13, <1>17, <2>1
  <2>3. PICK new : new = Merged(skb, p2)
    OBVIOUS
  <2>4. new \in SkbType /\ new.seq = skb.seq /\ SeqEnd(new) = SeqEnd(p2)
    <3> HIDE DEF p2
    <3> QED
      BY <1>2, <1>11, <1>13, <2>3, MergedType, MergedEnds
  <2>5. JoinsNext(start, stop, skb, inseq) = Replace(start, stop, new)
    BY <1>7, <1>11, <2>3 DEF JoinsNext
  <2>6. \A j \in 1..(stop - 1) : before(SeqEnd(items[j]), new.seq)
    BY <1>8, <2>4
  <2>7. \A j \in (stop + 1)..Len(items) : before(SeqEnd(new), items[j].seq)
    BY <1>4, <1>5, <1>6, <2>4
  <2>8. Absorbs(Replace(start, stop, new), queue, skb)
    BY <1>3, <1>6, <1>7, <2>4, <2>6, <2>7, ReplaceAbsorbs
  <2> QED
    BY <2>2, <2>5, <2>8
<1>14. CASE ~before(SeqEnd(skb), p2.seq) /\ SeqEnd(skb) # p2.seq
  <2>1. EndsPast(skb, p2) /\ UpTo(SeqEnd(p2), skb.seq)
    BY <1>11, <1>14 DEF EndsPast, Clear, UpTo
  <2>2. CASE skb.seq = SeqEnd(p2)
    <3>1. Walk(queue, head, skb) = JoinsPrev(start, stop, skb, inseq)
      BY <1>11, <1>14, <1>17, <2>1, <2>2
    <3>2. Absorbs(JoinsPrev(start, stop, skb, inseq), queue, skb)
      BY <1>6, <1>7, <2>2, JoinsPrevAbsorbs
    <3> QED
      BY <3>1, <3>2
  <2>3. CASE skb.seq # SeqEnd(p2)
    <3>1. after(skb.seq, SeqEnd(p2))
      BY <2>1, <2>3 DEF UpTo, after
    <3>2. Walk(queue, head, skb) = Insert(start, stop + 1, skb)
      BY <1>14, <1>17, <2>1, <2>3, <3>1
    <3>3. stop = Len(items)
      <4>1. ~(stop < Len(items))
        BY <1>6, <2>1, <3>1 DEF Passes
      <4> QED
        BY <1>4, <1>6, <4>1
    <3>4. \A j \in 1..((stop + 1) - 1) : before(SeqEnd(items[j]), skb.seq)
      BY <1>4, <1>6, <1>8, <3>1 DEF after
    <3>5. \A j \in (stop + 1)..Len(items) : before(SeqEnd(skb), items[j].seq)
      BY <1>4, <3>3
    <3>6. stop + 1 \in 1..(Len(items) + 1)
      BY <1>4, <1>6
    <3>7. Absorbs(Insert(start, stop + 1, skb), queue, skb)
      BY <1>2, <1>3, <1>7, <3>4, <3>5, <3>6, InsertAbsorbs
    <3> QED
      BY <3>2, <3>7
  <2> QED
    BY <2>2, <2>3
<1> QED
  BY <1>12, <1>13, <1>14

(* The skb goes into the queue, which keeps its holes, or is late: it ends *)
(* in front of everything that is held.                                    *)
InOrLate(r, queue, skb) ==
  /\ r.out = <<>>
  /\ \/ /\ r.kept /\ Apart(r.queue.items)
        /\ ~before(r.queue.items[1].seq, r.queue.seq_next)
     \/ /\ ~r.kept /\ r.queue = queue
        /\ \A j \in 1..Len(queue.items) : UpTo(SeqEnd(skb), queue.items[j].seq)

(* tcp_gro_receive keeps bulk data that is not late, whichever branch of   *)
(* the walk it takes, and passes nothing of the queue up on the way.       *)
THEOREM ReceiveAbsorbs ==
  ASSUME NEW queue \in QueueType, queue.items # <<>>, NEW head,
         head = queue.items[1].id, NEW G, NEW W, W # {}, Space(G, W),
         NEW items, items = queue.items, items \in Seq(G), Rising(items),
         NEW skb \in G, BulkCase(items, skb),
         queue.seq_next \in W, ~before(items[1].seq, queue.seq_next),
         NEW r, r = tcp_gro_receive(queue, head, skb, FALSE)
  PROVE  InOrLate(r, queue, skb)
<1>0. SUFFICES /\ r.out = <<>>
               /\ \/ /\ r.kept /\ Apart(r.queue.items)
                     /\ ~before(r.queue.items[1].seq, r.queue.seq_next)
                  \/ /\ ~r.kept /\ r.queue = queue
                     /\ \A j \in 1..Len(items) : UpTo(SeqEnd(skb), items[j].seq)
  BY DEF InOrLate
<1>1. /\ Linear(W) /\ skb \in SkbType /\ skb.seq \in W /\ SeqEnd(skb) \in W
      /\ before(skb.seq, SeqEnd(skb)) /\ Apart(items)
  BY DEF Space, Closed, InOrderedSpace, BulkCase
<1>2. items \in Seq(SkbType) /\ Len(items) \in Nat /\ Len(items) > 0 /\ 1 \in 1..Len(items)
  <2>1. items \in Seq(SkbType)
    BY DEF QueueType
  <2> QED
    BY <2>1, LenProperties, EmptySeq
<1>3. PICK a, b, s, n : a = items[1].seq /\ b = SeqEnd(items[1]) /\ s = skb.seq /\ n = queue.seq_next
  OBVIOUS
<1>4. a \in W /\ b \in W /\ s \in W /\ n \in W /\ before(a, b) /\ ~before(a, n)
  BY <1>1, <1>2, <1>3, ItemPlaces
<1>5. CASE before(s, n) /\ queue.flushed
  <2>1. r = Outcome(queue, <<>>, head, FALSE)
    BY <1>3, <1>5 DEF tcp_gro_receive
  <2>2. ~UpTo(b, s)
    <3>1. UpTo(b, s) => before(a, s)
      BY <1>1, <1>4, OrderFacts
    <3>2. before(a, s) => before(a, n)
      BY <1>1, <1>4, <1>5, OrderFacts
    <3> QED
      BY <1>4, <3>1, <3>2
  <2>3. UpTo(SeqEnd(skb), a)
    <3>1. Clear(skb, items[1])
      BY <1>2 DEF BulkCase
    <3> QED
      BY <1>3, <2>2, <3>1 DEF Clear
  <2>4. ASSUME NEW j \in 1..Len(items) PROVE UpTo(SeqEnd(skb), items[j].seq)
    <3>1. PICK e, c : e = SeqEnd(skb) /\ c = items[j].seq
      OBVIOUS
    <3>2. e \in W /\ c \in W /\ (j = 1 \/ before(a, c))
      BY <1>1, <1>2, <1>3, <3>1, ItemPlaces
    <3>3. UpTo(e, c)
      <4>1. CASE j = 1
        BY <1>3, <2>3, <3>1, <4>1
      <4>2. CASE before(a, c)
        <5>1. before(e, c)
          BY <1>1, <1>4, <2>3, <3>1, <3>2, <4>2, OrderFacts
        <5> QED
          BY <5>1 DEF UpTo
      <4> QED
        BY <3>2, <4>1, <4>2
    <3> QED
      BY <3>1, <3>3
  <2> DEFINE stay == Outcome(queue, <<>>, head, FALSE)
  <2>6. stay.out = <<>> /\ ~stay.kept /\ stay.queue = queue
    BY DEF Outcome
  <2> HIDE DEF stay
  <2>5. r = stay
    BY <2>1 DEF stay
  <2> QED
    BY <2>4, <2>5, <2>6
<1>6. CASE before(s, n) /\ ~queue.flushed
  <2>1. PICK back : back = [queue EXCEPT !.seq_next = s]
    OBVIOUS
  <2>2. /\ back \in QueueType /\ back.items = items /\ back.seq_next = s
    <3>1. s \in 0..(SeqRange - 1)
      BY <1>1, <1>4 DEF Linear, SeqNumbers
    <3> QED
      BY <2>1, <3>1 DEF QueueType
  <2>3. r = Walk(back, head, skb)
    BY <1>3, <1>6, <2>1 DEF tcp_gro_receive
  <2>4. Absorbs(r, back, skb)
    BY <2>2, <2>3, WalkAbsorbs
  <2>5. ~before(s, s) /\ ~before(a, s)
    BY <1>1, <1>4, <1>6, OrderFacts
  <2> QED
    BY <1>3, <2>2, <2>4, <2>5 DEF Absorbs
<1>7. CASE ~before(s, n)
  <2>1. r = Walk(queue, head, skb)
    BY <1>3, <1>7 DEF tcp_gro_receive
  <2>2. Absorbs(r, queue, skb)
    BY <2>1, WalkAbsorbs
  <2> QED
    BY <1>3, <1>4, <1>7, <2>2 DEF Absorbs
<1> QED
  BY <1>5, <1>6, <1>7

(* FlattenSeq joins the parts from the first to the last.                  *)
LEMMA FlattenDef ==
  ASSUME NEW s, Len(s) \in Nat, Len(s) > 0
  PROVE  \E f : /\ f = [i \in 1..Len(s) |-> IF i = 1 THEN s[i] ELSE f[i - 1] \o s[i]]
                /\ FlattenSeq(s) = f[Len(s)]
<1> DEFINE n         == Len(s)
           D(g, m)   == [i \in 1..m |-> IF i = 1 THEN s[i] ELSE g[i - 1] \o s[i]]
           Exists(m) == \E g : g = D(g, m)
           T         == {m \in 1..n : ~Exists(m)}
<1>1. n \in Nat /\ n > 0
  OBVIOUS
<1> HIDE DEF n
<1>2. Exists(1)
  <2> DEFINE g == [i \in 1..1 |-> s[1]]
  <2>1. g = D(g, 1)
    OBVIOUS
  <2> QED
    BY <2>1
<1>3. ASSUME NEW m \in 1..n, m # 1, Exists(m - 1)
      PROVE  Exists(m)
  <2>1. PICK f : f = D(f, m - 1)
    BY <1>3
  <2> DEFINE g == [i \in 1..m |-> IF i = m THEN f[m - 1] \o s[m] ELSE f[i]]
  <2>2. \A i \in 1..(m - 1) : f[i] = IF i = 1 THEN s[i] ELSE f[i - 1] \o s[i]
    BY <2>1
  <2>3. \A i \in 1..m : g[i] = D(g, m)[i]
    <3> SUFFICES ASSUME NEW i \in 1..m PROVE g[i] = D(g, m)[i]
      OBVIOUS
    <3>1. CASE i = 1
      BY <1>1, <1>3, <2>2, <3>1
    <3>2. CASE i # 1
      <4>1. i - 1 \in 1..(m - 1) /\ i - 1 \in 1..m /\ i - 1 # m
        BY <1>1, <1>3, <3>2
      <4>2. g[i - 1] = f[i - 1]
        BY <4>1
      <4>3. D(g, m)[i] = f[i - 1] \o s[i]
        BY <3>2, <4>2
      <4>4. g[i] = f[i - 1] \o s[i]
        <5>1. CASE i = m
          BY <5>1
        <5>2. CASE i # m
          <6>1. i \in 1..(m - 1)
            BY <1>1, <1>3, <5>2
          <6> QED
            BY <2>2, <3>2, <5>2, <6>1
        <5> QED
          BY <5>1, <5>2
      <4> QED
        BY <4>3, <4>4
    <3> QED
      BY <3>1, <3>2
  <2>4. g = D(g, m)
    BY <2>3
  <2> QED
    BY <2>4
<1> HIDE DEF Exists
<1>4. T = {}
  <2> SUFFICES ASSUME T # {} PROVE FALSE
    OBVIOUS
  <2>1. T \subseteq Nat
    BY <1>1
  <2>2. PICK m \in T : \A y \in T : m <= y
    BY <2>1, MinNat
  <2>3. m \in 1..n /\ m # 1 /\ ~Exists(m)
    BY <1>2, <2>2
  <2>4. m - 1 \in 1..n /\ m - 1 \notin T
    BY <1>1, <2>2, <2>3
  <2>5. Exists(m - 1)
    BY <2>4
  <2> QED
    BY <1>3, <2>3, <2>5
<1>5. Exists(n)
  BY <1>1, <1>4
<1> DEFINE next == CHOOSE g : g = D(g, n)
<1>6. next = D(next, n)
  BY <1>5 DEF Exists
<1>7. FlattenSeq(s) = next[n]
  <2>1. ~(Len(s) = 0)
    BY <1>1 DEF n
  <2>2. FlattenSeq(s) =
          LET flatten[i \in 1..n] == IF i = 1 THEN s[i] ELSE flatten[i - 1] \o s[i]
          IN  flatten[n]
    BY <2>1, Zenon DEF FlattenSeq, n
  <2> QED
    BY <2>2
<1> HIDE DEF next
<1>8. next = [i \in 1..Len(s) |-> IF i = 1 THEN s[i] ELSE next[i - 1] \o s[i]]
  BY <1>6 DEF n
<1>9. FlattenSeq(s) = next[Len(s)]
  BY <1>7 DEF n
<1> QED
  BY <1>8, <1>9

(* Any two elements of the parts of s, the one in front of the other, make *)
(* a pair of R.                                                            *)
Paired(s, R) ==
  \A i, j \in 1..Len(s) : \A k \in 1..Len(s[i]), l \in 1..Len(s[j]) :
    i < j \/ (i = j /\ k < l) => <<s[i][k], s[j][l]>> \in R

(* What the parts of s make together, when they are a, b, ... in order.     *)
Joined(s, m, R, c) ==
  /\ c \in Seq(Nat)
  /\ \A x \in 1..Len(c) : \E i \in 1..m : \E k \in 1..Len(s[i]) : c[x] = s[i][k]
  /\ \A x, y \in 1..Len(c) : x < y => <<c[x], c[y]>> \in R

LEMMA JoinOne ==
  ASSUME NEW s, NEW R, NEW n \in Nat, n = Len(s), Paired(s, R), NEW m \in 1..n, m - 1 \in 1..n,
         s[m] \in Seq(Nat), NEW a, Joined(s, m - 1, R, a)
  PROVE  Joined(s, m, R, a \o s[m])
<1>1. PICK b, c : b = s[m] /\ c = a \o b
  OBVIOUS
<1>2. a \in Seq(Nat) /\ b \in Seq(Nat) /\ Len(a) \in Nat /\ Len(b) \in Nat
  BY <1>1, LenProperties DEF Joined
<1>4. /\ c \in Seq(Nat) /\ Len(c) = Len(a) + Len(b)
      /\ \A x \in 1..(Len(a) + Len(b)) : c[x] = IF x <= Len(a) THEN a[x] ELSE b[x - Len(a)]
  BY <1>1, <1>2, ConcatProperties
<1>5. ASSUME NEW x \in 1..Len(a)
      PROVE  \E i \in 1..n : i < m /\ \E k \in 1..Len(s[i]) : a[x] = s[i][k]
  <2>1. PICK i \in 1..(m - 1) : \E k \in 1..Len(s[i]) : a[x] = s[i][k]
    BY DEF Joined
  <2>2. i \in 1..n /\ i < m
    OBVIOUS
  <2> QED
    BY <2>1, <2>2
<1>6. ASSUME NEW x \in 1..Len(c) PROVE \E i \in 1..m : \E k \in 1..Len(s[i]) : c[x] = s[i][k]
  <2>1. CASE x <= Len(a)
    <3>1. x \in 1..Len(a) /\ c[x] = a[x]
      BY <1>2, <1>4, <2>1
    <3>2. PICK i \in 1..n : i < m /\ \E k \in 1..Len(s[i]) : a[x] = s[i][k]
      BY <1>5, <3>1
    <3>3. i \in 1..m
      BY <3>2
    <3> QED
      BY <3>1, <3>2, <3>3
  <2>2. CASE ~(x <= Len(a))
    <3>1. PICK k : k = x - Len(a)
      OBVIOUS
    <3>2. k \in 1..Len(s[m]) /\ c[x] = s[m][k] /\ m \in 1..m
      BY <1>1, <1>2, <1>4, <2>2, <3>1
    <3> QED
      BY <3>2
  <2> QED
    BY <2>1, <2>2
<1>7. ASSUME NEW x \in 1..Len(c), NEW y \in 1..Len(c), x < y PROVE <<c[x], c[y]>> \in R
  <2>1. CASE y <= Len(a)
    <3>1. x \in 1..Len(a) /\ y \in 1..Len(a) /\ c[x] = a[x] /\ c[y] = a[y]
      BY <1>2, <1>4, <1>7, <2>1
    <3> QED
      BY <1>7, <3>1 DEF Joined
  <2>2. CASE x <= Len(a) /\ ~(y <= Len(a))
    <3>0. PICK l : l = y - Len(a)
      OBVIOUS
    <3>1. /\ x \in 1..Len(a) /\ c[x] = a[x]
          /\ l \in 1..Len(s[m]) /\ c[y] = s[m][l]
      BY <1>1, <1>2, <1>4, <2>2, <3>0
    <3>2. PICK i \in 1..n : i < m /\ \E k \in 1..Len(s[i]) : a[x] = s[i][k]
      BY <1>5, <3>1
    <3>3. PICK k \in 1..Len(s[i]) : a[x] = s[i][k]
      BY <3>2
    <3>4. <<s[i][k], s[m][l]>> \in R
      BY <3>1, <3>2 DEF Paired
    <3> QED
      BY <3>1, <3>3, <3>4
  <2>3. CASE ~(x <= Len(a))
    <3>1. PICK k, l : k = x - Len(a) /\ l = y - Len(a)
      OBVIOUS
    <3>2. /\ x \in 1..(Len(a) + Len(b)) /\ y \in 1..(Len(a) + Len(b))
          /\ ~(x <= Len(a)) /\ ~(y <= Len(a))
      BY <1>2, <1>4, <1>7, <2>3
    <3>3. c[x] = b[k] /\ c[y] = b[l]
      BY <1>4, <3>1, <3>2
    <3>4. k \in 1..Len(b) /\ l \in 1..Len(b) /\ k < l
      BY <1>2, <1>7, <3>1, <3>2
    <3>5. <<b[k], b[l]>> \in R
      BY <1>1, <3>4 DEF Paired
    <3> QED
      BY <3>3, <3>5
  <2> QED
    BY <2>1, <2>2, <2>3
<1> QED
  BY <1>1, <1>4, <1>6, <1>7 DEF Joined

Strings(t, s, R) ==
  /\ t \in Seq(Nat)
  /\ \A x \in 1..Len(t) : \E i \in 1..Len(s) : \E k \in 1..Len(s[i]) : t[x] = s[i][k]
  /\ \A x, y \in 1..Len(t) : x < y => <<t[x], t[y]>> \in R

LEMMA FlattenPairs ==
  ASSUME NEW s \in Seq(Seq(Nat)), NEW R, Paired(s, R), NEW t, t = FlattenSeq(s)
  PROVE  Strings(t, s, R)
<1>0. PICK n : n = Len(s)
  OBVIOUS
<1>1. n \in Nat /\ \A i \in 1..n : s[i] \in Seq(Nat) /\ Len(s[i]) \in Nat
  BY <1>0, PileType
<1>2. CASE n = 0
  <2>1. t = s /\ Len(t) = 0
    BY <1>0, <1>2 DEF FlattenSeq
  <2>2. t = <<>>
    BY <2>1, EmptySeq
  <2> QED
    BY <2>2 DEF Strings
<1>3. CASE n > 0
  <2>1. PICK f : /\ f = [i \in 1..n |-> IF i = 1 THEN s[i] ELSE f[i - 1] \o s[i]]
                 /\ t = f[n]
    BY <1>0, <1>1, <1>3, FlattenDef
  <2> DEFINE Good(m) == Joined(s, m, R, f[m])
             T == {m \in 1..n : ~Good(m)}
  <2>2. Good(1)
    <3>1. f[1] = s[1] /\ 1 \in 1..n /\ 1 \in 1..1
      BY <1>1, <1>3, <2>1
    <3>2. PICK c : c = f[1]
      OBVIOUS
    <3>3. c = s[1] /\ c \in Seq(Nat)
      BY <1>1, <3>1, <3>2
    <3>4. \A x \in 1..Len(c) : \E i \in 1..1 : \E k \in 1..Len(s[i]) : c[x] = s[i][k]
      BY <3>1, <3>3
    <3>5. \A x, y \in 1..Len(c) : x < y => <<c[x], c[y]>> \in R
      BY <1>0, <3>1, <3>3 DEF Paired
    <3>6. Joined(s, 1, R, c)
      BY <3>3, <3>4, <3>5 DEF Joined
    <3> QED
      BY <3>2, <3>6
  <2>3. ASSUME NEW m \in 1..n, m # 1, m - 1 \in 1..n, Good(m - 1)
        PROVE  Good(m)
    <3>1. PICK a, c : a = f[m - 1] /\ c = f[m]
      OBVIOUS
    <3>2. c = a \o s[m] /\ Joined(s, m - 1, R, a)
      BY <2>1, <2>3, <3>1
    <3>3. s[m] \in Seq(Nat)
      BY <1>1
    <3>4. Joined(s, m, R, c)
      BY <1>0, <1>1, <2>3, <3>2, <3>3, JoinOne
    <3> QED
      BY <3>1, <3>4
  <2> HIDE DEF Good
  <2>4. T = {}
    <3> SUFFICES ASSUME T # {} PROVE FALSE
      OBVIOUS
    <3>1. T \subseteq Nat
      BY <1>1
    <3>2. PICK m \in T : \A y \in T : m <= y
      BY <3>1, MinNat
    <3>3. m \in 1..n /\ m # 1 /\ ~Good(m)
      BY <2>2, <3>2
    <3>4. m - 1 \in 1..n /\ m - 1 \notin T
      BY <1>1, <3>2, <3>3
    <3>5. Good(m - 1)
      BY <3>4
    <3> QED
      BY <2>3, <3>3, <3>4, <3>5
  <2>5. Good(n) /\ n \in 1..n
    BY <1>1, <1>3, <2>4
  <2>6. Joined(s, n, R, t)
    BY <2>1, <2>5 DEF Good
  <2> QED
    BY <1>0, <2>6 DEF Joined, Strings
<1>4. n = 0 \/ n > 0
  BY <1>1
<1> QED
  BY <1>2, <1>3, <1>4
=============================================================================
