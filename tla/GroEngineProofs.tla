-------------------------- MODULE GroEngineProofs --------------------------
(* The pool of queues and the list of flows, for any MAX_GRO_SKBS, any     *)
(* packets and any timeouts.                                               *)
EXTENDS GroEngine, GroQueueProofs

-----------------------------------------------------------------------------
(* Types of the operators.                                                 *)

LEMMA AgeMaxType == AgeMax \in Nat
<1> DEFINE n == InseqTimeout + OfoTimeout + CleanTimeout
           T == {InseqTimeout, OfoTimeout, CleanTimeout}
<1>1. n \in Nat /\ T \subseteq 0..n /\ T # {} /\ T \subseteq Nat
  BY TimeoutAssumption
<1> HIDE DEF n
<1>2. Max(T) \in T
  BY <1>1, MaxNat
<1>3. Max(T) \in Nat
  <2> HIDE DEF T
  <2> QED
    BY <1>1, <1>2
<1> QED
  BY <1>3 DEF AgeMax

LEMMA SkbOfType ==
  ASSUME NEW p \in Packets, NEW id \in Nat
  PROVE  SkbOf(p, id) \in SkbType /\ SkbOf(p, id).id = id /\ SkbOf(p, id).pkts \in Seq(Nat)
<1>1. p \in PacketType
  BY PacketsAssumption
<1>2. <<id>> \in Seq(Nat)
  OBVIOUS
<1> QED
  BY <1>1, <1>2 DEF SkbOf, SkbType, PacketType

LEMMA HashType ==
  ASSUME NEW p \in Packets
  PROVE  TcpHash[p.flow] \in Nat /\ p.flow \in Flows
<1>1. p \in PacketType
  BY PacketsAssumption
<1>2. p.flow \in Flows
  BY <1>1 DEF PacketType
<1> QED
  BY <1>2, TcpHashAssumption

LEMMA AdvanceType ==
  ASSUME NEW queue \in QueueType, NEW skb \in SkbType
  PROVE  /\ Advance(queue, skb) \in QueueType
         /\ Advance(queue, skb).items = queue.items
<1> DEFINE s == max_seq(queue.seq_next, SeqEnd(skb))
<1>1. s \in 0..(SeqRange - 1)
  <2>1. queue.seq_next \in 0..(SeqRange - 1)
    BY DEF QueueType
  <2> QED
    BY <2>1, SeqEndType, MaxSeqType
<1>2. Advance(queue, skb) = IF s = queue.seq_next THEN queue
        ELSE [queue EXCEPT !.seq_next = s, !.age = 0, !.flushed = TRUE]
  BY DEF Advance
<1> DEFINE t == [queue EXCEPT !.seq_next = s, !.age = 0, !.flushed = TRUE]
<1> HIDE DEF s
<1>3. t \in QueueType /\ t.items = queue.items
  BY <1>1 DEF QueueType
<1> HIDE DEF t
<1> QED
  BY <1>2, <1>3, Zenon DEF t

LEMMA ResetQueueType ==
  ASSUME NEW queue \in QueueType
  PROVE  ResetQueue(queue) \in QueueType /\ ResetQueue(queue).items = queue.items
<1> DEFINE a == AgeMax
           z == 0
           t == [queue EXCEPT !.age = a, !.hash = z, !.skb_num = z, !.seq_next = z]
<1>1. a \in Nat /\ z \in 0..(SeqRange - 1) /\ z \in Nat /\ z \in Int
  BY AgeMaxType, SeqRangeAssumption
<1>2. ResetQueue(queue) = t
  BY DEF ResetQueue
<1> HIDE DEF a, z
<1>3. t \in QueueType
  BY <1>1 DEF QueueType
<1>4. t.items = queue.items
  BY DEF QueueType
<1> QED
  BY <1>2, <1>3, <1>4, Zenon

LEMMA TakenForDataType ==
  ASSUME NEW queue \in QueueType, NEW skb \in SkbType
  PROVE  TakenForData(queue, skb) \in QueueType
<1>1. skb.seq \in 0..(SeqRange - 1)
  BY DEF SkbType
<1> QED
  BY <1>1 DEF TakenForData, QueueType

LEMMA IdleIndexRange ==
  ASSUME TypeOK, Len(idle) > 0, NEW hash
  PROVE  /\ IdleIndex(hash) \in 1..Len(idle)
         /\ idle[IdleIndex(hash)] \in Queues
         /\ napi_get_tcp_ofo_queue(hash) \in QueueType
<1> DEFINE T == {i \in 1..Len(idle) : ofo[idle[i]].hash \in {hash, 0}}
<1>1. idle \in Seq(Queues) /\ Len(idle) \in Nat /\ ofo \in [Queues -> QueueType]
  BY LenProperties DEF TypeOK
<1>2. IdleIndex(hash) = IF T = {} THEN Len(idle) ELSE Min(T)
  BY DEF IdleIndex
<1>3. T \subseteq 1..Len(idle) /\ T \subseteq Nat
  BY <1>1
<1> HIDE DEF T
<1>4. IdleIndex(hash) \in 1..Len(idle)
  <2>1. CASE T = {}
    BY <1>1, <1>2, <2>1
  <2>2. CASE T # {}
    BY <1>2, <1>3, <2>2, MinNat
  <2> QED
    BY <2>1, <2>2
<1>5. idle[IdleIndex(hash)] \in Queues
  BY <1>1, <1>4, ElementOfSeq
<1>6. ofo[idle[IdleIndex(hash)]] \in QueueType
  BY <1>1, <1>5
<1>7. napi_get_tcp_ofo_queue(hash) \in QueueType
  BY <1>6, ResetQueueType DEF napi_get_tcp_ofo_queue
<1> QED
  BY <1>4, <1>5, <1>7

-----------------------------------------------------------------------------
(* SeqNextAfter is a recursive function: it exists on every prefix of the  *)
(* queue, because a least prefix on which it does not cannot exist.        *)
LEMMA SeqNextAfterDef ==
  ASSUME NEW queue \in QueueType
  PROVE  SeqNextAfter(queue) =
           [i \in 0..Len(queue.items) |->
              IF i = 0 THEN queue.seq_next
              ELSE max_seq(SeqNextAfter(queue)[i - 1], SeqEnd(queue.items[i]))]
<1> DEFINE n        == Len(queue.items)
           D(g, m)  == [i \in 0..m |-> IF i = 0 THEN queue.seq_next
                                       ELSE max_seq(g[i - 1], SeqEnd(queue.items[i]))]
           Exists(m) == \E g : g = D(g, m)
           T        == {m \in 0..n : ~Exists(m)}
<1>1. n \in Nat
  <2>1. queue.items \in Seq(SkbType)
    BY DEF QueueType
  <2> QED
    BY <2>1, LenProperties
<1> HIDE DEF n
<1>2. Exists(0)
  <2> DEFINE g == [i \in 0..0 |-> queue.seq_next]
  <2>1. g = D(g, 0)
    OBVIOUS
  <2> QED
    BY <2>1
<1>3. ASSUME NEW m \in Nat, m # 0, Exists(m - 1)
      PROVE  Exists(m)
  <2>1. PICK f : f = D(f, m - 1)
    BY <1>3
  <2> DEFINE g == [i \in 0..m |-> IF i = m THEN max_seq(f[m - 1], SeqEnd(queue.items[m]))
                                  ELSE f[i]]
  <2>2. \A i \in 0..(m - 1) : f[i] = IF i = 0 THEN queue.seq_next
                                     ELSE max_seq(f[i - 1], SeqEnd(queue.items[i]))
    BY <2>1
  <2>3. \A i \in 0..m : g[i] = D(g, m)[i]
    <3> SUFFICES ASSUME NEW i \in 0..m PROVE g[i] = D(g, m)[i]
      OBVIOUS
    <3>1. CASE i = 0
      BY <1>3, <2>2, <3>1
    <3>2. CASE i # 0
      <4>1. i - 1 \in 0..(m - 1) /\ i - 1 \in 0..m /\ i - 1 # m
        BY <1>3, <3>2
      <4>2. g[i - 1] = f[i - 1]
        BY <4>1
      <4>3. D(g, m)[i] = max_seq(f[i - 1], SeqEnd(queue.items[i]))
        BY <3>2, <4>2
      <4>4. g[i] = max_seq(f[i - 1], SeqEnd(queue.items[i]))
        <5>1. CASE i = m
          BY <5>1
        <5>2. CASE i # m
          <6>1. i \in 0..(m - 1)
            BY <1>3, <5>2
          <6> QED
            BY <2>2, <3>2, <5>2, <6>1
        <5> QED
          BY <5>1, <5>2
      <4> QED
        BY <4>3, <4>4
    <3> QED
      BY <3>1, <3>2
  <2>4. g = D(g, m)
    BY <2>3
  <2> QED
    BY <2>4
<1> HIDE DEF Exists
<1>4. T = {}
  <2> SUFFICES ASSUME T # {} PROVE FALSE
    OBVIOUS
  <2>1. T \subseteq Nat
    BY <1>1
  <2>2. PICK m \in T : \A y \in T : m <= y
    BY <2>1, MinNat
  <2>3. m \in 0..n /\ m # 0 /\ ~Exists(m)
    BY <1>2, <2>2
  <2>4. m - 1 \in 0..n /\ m - 1 \notin T /\ m \in Nat
    BY <1>1, <2>2, <2>3
  <2>5. Exists(m - 1)
    BY <2>4
  <2> QED
    BY <1>3, <2>3, <2>4, <2>5
<1>5. Exists(n)
  BY <1>1, <1>4
<1> DEFINE next == CHOOSE g : g = D(g, n)
<1>6. next = D(next, n)
  BY <1>5 DEF Exists
<1>7. SeqNextAfter(queue) = next
  BY DEF SeqNextAfter, n
<1> HIDE DEF next
<1> QED
  BY <1>6, <1>7 DEF n

LEMMA SeqNextAfterType ==
  ASSUME NEW queue \in QueueType, NEW k \in 0..Len(queue.items)
  PROVE  SeqNextAfter(queue)[k] \in 0..(SeqRange - 1)
<1> DEFINE n     == Len(queue.items)
           items == queue.items
           next  == SeqNextAfter(queue)
           T     == {m \in 0..n : next[m] \notin 0..(SeqRange - 1)}
<1>1. n \in Nat /\ items \in Seq(SkbType) /\ queue.seq_next \in 0..(SeqRange - 1)
  <2>1. queue.items \in Seq(SkbType) /\ queue.seq_next \in 0..(SeqRange - 1)
    BY DEF QueueType
  <2> QED
    BY <2>1, LenProperties
<1>2. next = [i \in 0..n |-> IF i = 0 THEN queue.seq_next
                              ELSE max_seq(next[i - 1], SeqEnd(items[i]))]
  BY SeqNextAfterDef
<1> HIDE DEF next
<1>3. T = {}
  <2> SUFFICES ASSUME T # {} PROVE FALSE
    OBVIOUS
  <2>1. PICK m \in T : \A y \in T : m <= y
    <3>1. T \subseteq Nat
      BY <1>1
    <3> QED
      BY <3>1, MinNat
  <2>2. m \in 0..n /\ next[m] \notin 0..(SeqRange - 1)
    BY <2>1
  <2>3. next[0] = queue.seq_next
    BY <1>1, <1>2
  <2>4. m # 0
    BY <1>1, <2>2, <2>3
  <2>5. m - 1 \in 0..n /\ m - 1 \notin T /\ m \in 1..n
    BY <1>1, <2>1, <2>2, <2>4
  <2>6. next[m - 1] \in 0..(SeqRange - 1)
    BY <2>5
  <2>7. items[m] \in SkbType
    BY <1>1, <2>5, ElementOfSeq
  <2>8. next[m] = max_seq(next[m - 1], SeqEnd(items[m]))
    BY <1>2, <2>2, <2>4
  <2> QED
    BY <2>2, <2>6, <2>7, <2>8, SeqEndType, MaxSeqType
<1> QED
  BY <1>3 DEF next

LEMMA CompleteType ==
  ASSUME NEW queue \in QueueType, NEW k \in 0..Len(queue.items)
  PROVE  /\ Complete(queue, k) \in QueueType
         /\ Complete(queue, k).items = SubSeq(queue.items, k + 1, Len(queue.items))
<1> DEFINE items == queue.items
           rest  == SubSeq(items, k + 1, Len(items))
           s     == SeqNextAfter(queue)[k]
           n     == queue.skb_num - k
           z     == 0
           t     == [queue EXCEPT !.items = rest, !.seq_next = s, !.age = z,
                                  !.flushed = TRUE, !.skb_num = n]
<1>1. items \in Seq(SkbType) /\ Len(items) \in Nat /\ queue.skb_num \in Int
  <2>1. items \in Seq(SkbType) /\ queue.skb_num \in Int
    BY DEF QueueType
  <2> QED
    BY <2>1, LenProperties
<1>2. s \in 0..(SeqRange - 1)
  BY SeqNextAfterType
<1>3. n \in Int /\ z \in Nat /\ k \in 0..Len(items)
  BY <1>1
<1>4. Complete(queue, k) = IF k = 0 THEN queue ELSE t
  BY DEF Complete
<1> HIDE DEF items, s, n, z
<1>5. rest \in Seq(SkbType)
  BY <1>1, <1>3, SubSeqProperties, ElementOfSeq
<1>6. k = 0 => rest = items
  <2> SUFFICES ASSUME k = 0 PROVE rest = items
    OBVIOUS
  <2>1. Len(rest) = Len(items) /\ \A i \in 1..Len(items) : rest[i] = items[i]
    BY <1>1
  <2> QED
    BY <1>1, <1>5, <2>1, SeqEqual
<1> HIDE DEF rest
<1>7. t \in QueueType /\ t.items = rest
  BY <1>1, <1>2, <1>3, <1>5 DEF QueueType
<1> HIDE DEF t
<1> QED
  BY <1>4, <1>6, <1>7, Zenon DEF rest, items

LEMMA CompleteCountRange ==
  ASSUME NEW queue \in QueueType, NEW old \in BOOLEAN
  PROVE  CompleteCount(queue, old) \in 0..Len(queue.items)
<1> DEFINE n    == Len(queue.items)
           gaps == {j \in 1..n : before(SeqNextAfter(queue)[j - 1], queue.items[j].seq)}
<1>1. n \in Nat
  <2>1. queue.items \in Seq(SkbType)
    BY DEF QueueType
  <2> QED
    BY <2>1, LenProperties
<1>2. InSeqRun(queue) = IF gaps = {} THEN n ELSE Min(gaps) - 1
  BY DEF InSeqRun
<1>3. gaps \subseteq 1..n /\ gaps \subseteq Nat
  BY <1>1
<1> HIDE DEF n, gaps
<1>4. InSeqRun(queue) \in 0..n
  <2>1. CASE gaps = {}
    BY <1>1, <1>2, <2>1
  <2>2. CASE gaps # {}
    <3>1. Min(gaps) \in 1..n
      BY <1>3, <2>2, MinNat
    <3> QED
      BY <1>1, <1>2, <2>2, <3>1
  <2> QED
    BY <2>1, <2>2
<1>5. CompleteCount(queue, old) \in {n, InSeqRun(queue), 0}
  BY Zenon DEF CompleteCount, n
<1> QED
  BY <1>1, <1>4, <1>5 DEF n

-----------------------------------------------------------------------------
(* The inductive invariant.                                                *)

(* PoolAccounting before netif_napi_del, without the concatenation.        *)
PoolInv ==
  /\ gro_count = Len(gro_list)
  /\ Len(gro_list) <= MAX_GRO_SKBS
  /\ Len(gro_list) + Len(idle) = MAX_GRO_SKBS + 1
  /\ \A i, j \in 1..Len(gro_list) : gro_list[i].q = gro_list[j].q => i = j
  /\ \A i, j \in 1..Len(idle) : idle[i] = idle[j] => i = j
  /\ \A i \in 1..Len(gro_list) : \A j \in 1..Len(idle) : gro_list[i].q # idle[j]

(* After netif_napi_del nothing is held, and each queue was freed once.    *)
FreedInv ==
  /\ gro_list = <<>> /\ gro_count = 0
  /\ Len(freed[1].queues) = MAX_GRO_SKBS + 1
  /\ \A i, j \in 1..Len(freed[1].queues) : freed[1].queues[i] = freed[1].queues[j] => i = j

IInv ==
  /\ TypeOK
  /\ HeadIsQueueHead
  /\ ~Deleted => PoolInv
  /\ Deleted => FreedInv

LEMMA PoolSeqProperties ==
  ASSUME TypeOK, PoolInv
  PROVE  /\ PoolSeq \in Seq(Queues)
         /\ Len(PoolSeq) = MAX_GRO_SKBS + 1
         /\ \A i, j \in 1..Len(PoolSeq) : PoolSeq[i] = PoolSeq[j] => i = j
<1> DEFINE a == [i \in 1..Len(gro_list) |-> gro_list[i].q]
           n == Len(gro_list)
<1>1. gro_list \in Seq(EntryType) /\ idle \in Seq(Queues) /\ n \in Nat /\ Len(idle) \in Nat
  BY LenProperties DEF TypeOK
<1>2. \A i \in 1..n : gro_list[i].q \in Queues
  <2> SUFFICES ASSUME NEW i \in 1..n PROVE gro_list[i].q \in Queues
    OBVIOUS
  <2>1. gro_list[i] \in EntryType
    BY <1>1, ElementOfSeq
  <2> QED
    BY <2>1 DEF EntryType
<1>3. a \in Seq(Queues) /\ Len(a) = n /\ \A i \in 1..n : a[i] = gro_list[i].q
  <2>1. a \in [1..n -> Queues]
    BY <1>2
  <2>2. a \in Seq(Queues)
    BY <1>1, <2>1, SeqDef
  <2> QED
    BY <1>1, <2>1, <2>2, LenProperties
<1>4. PoolSeq = a \o idle
  BY DEF PoolSeq
<1> HIDE DEF a
<1>5. /\ PoolSeq \in Seq(Queues) /\ Len(PoolSeq) = n + Len(idle)
      /\ \A i \in 1..(n + Len(idle)) :
           PoolSeq[i] = IF i <= n THEN a[i] ELSE idle[i - n]
  <2>1. /\ a \o idle \in Seq(Queues) /\ Len(a \o idle) = Len(a) + Len(idle)
        /\ \A i \in 1..(Len(a) + Len(idle)) :
             (a \o idle)[i] = IF i <= Len(a) THEN a[i] ELSE idle[i - Len(a)]
    BY <1>1, <1>3, ConcatProperties
  <2> QED
    BY <1>3, <1>4, <2>1
<1>6. ASSUME NEW i \in 1..Len(PoolSeq), NEW j \in 1..Len(PoolSeq), PoolSeq[i] = PoolSeq[j]
      PROVE  i = j
  <2> HIDE DEF n
  <2>1. i \in 1..(n + Len(idle)) /\ j \in 1..(n + Len(idle))
    BY <1>5
  <2>2. CASE i <= n /\ j <= n
    <3>1. i \in 1..n /\ j \in 1..n /\ gro_list[i].q = gro_list[j].q
      BY <1>1, <1>3, <1>5, <1>6, <2>1, <2>2
    <3> QED
      BY <3>1 DEF PoolInv, n
  <2>3. CASE i <= n /\ ~(j <= n)
    <3>1. i \in 1..n /\ j - n \in 1..Len(idle) /\ gro_list[i].q = idle[j - n]
      BY <1>1, <1>3, <1>5, <1>6, <2>1, <2>3
    <3> QED
      BY <3>1 DEF PoolInv, n
  <2>4. CASE ~(i <= n) /\ j <= n
    <3>1. j \in 1..n /\ i - n \in 1..Len(idle) /\ gro_list[j].q = idle[i - n]
      BY <1>1, <1>3, <1>5, <1>6, <2>1, <2>4
    <3> QED
      BY <3>1 DEF PoolInv, n
  <2>5. CASE ~(i <= n) /\ ~(j <= n)
    <3>1. i - n \in 1..Len(idle) /\ j - n \in 1..Len(idle) /\ idle[i - n] = idle[j - n]
      BY <1>1, <1>5, <1>6, <2>1, <2>5
    <3>2. i - n = j - n
      BY <3>1 DEF PoolInv
    <3> QED
      BY <1>1, <2>1, <3>2
  <2> QED
    BY <2>2, <2>3, <2>4, <2>5
<1> QED
  BY <1>5, <1>6 DEF PoolInv, n

LEMMA IInvImplies ==
  ASSUME IInv
  PROVE  TypeOK /\ HeadIsQueueHead /\ PoolAccounting
<1>1. CASE Deleted
  <2>1. Len(gro_list) = 0 /\ gro_count = 0
    BY <1>1 DEF IInv, FreedInv
  <2>2. MAX_GRO_SKBS \in Nat
    BY MaxGroSkbsAssumption
  <2> QED
    BY <1>1, <2>1, <2>2 DEF IInv, FreedInv, PoolAccounting
<1>2. CASE ~Deleted
  BY <1>2, PoolSeqProperties DEF IInv, PoolInv, PoolAccounting
<1> QED
  BY <1>1, <1>2

-----------------------------------------------------------------------------
(* Sequences without repetitions, and moving an element to the front.      *)
Inj(s) == \A i, j \in 1..Len(s) : s[i] = s[j] => i = j

Within(t, s) == \A j \in 1..Len(t) : \E m \in 1..Len(s) : t[j] = s[m]

LEMMA RemoveInj ==
  ASSUME NEW S, NEW s \in Seq(S), Inj(s), NEW i \in 1..Len(s)
  PROVE  /\ RemoveAt(s, i) \in Seq(S) /\ Len(RemoveAt(s, i)) = Len(s) - 1
         /\ Inj(RemoveAt(s, i))
         /\ \A j \in 1..Len(RemoveAt(s, i)) :
              \E m \in 1..Len(s) : m # i /\ RemoveAt(s, i)[j] = s[m]
<1> DEFINE t == RemoveAt(s, i)
           at(j) == IF j < i THEN j ELSE j + 1
<1>1. /\ t \in Seq(S) /\ Len(t) = Len(s) - 1
      /\ \A j \in 1..(Len(s) - 1) : t[j] = IF j < i THEN s[j] ELSE s[j + 1]
  BY RemoveAtProperties
<1>2. Len(s) \in Nat
  BY LenProperties
<1> HIDE DEF t
<1>3. \A j \in 1..(Len(s) - 1) : at(j) \in 1..Len(s) /\ at(j) # i /\ t[j] = s[at(j)]
  BY <1>1, <1>2
<1>4. \A j, k \in 1..(Len(s) - 1) : at(j) = at(k) => j = k
  BY <1>2
<1>5. Inj(t)
  <2> SUFFICES ASSUME NEW j \in 1..Len(t), NEW k \in 1..Len(t), t[j] = t[k]
               PROVE  j = k
    BY DEF Inj
  <2>1. at(j) \in 1..Len(s) /\ at(k) \in 1..Len(s) /\ s[at(j)] = s[at(k)]
    BY <1>1, <1>3
  <2> HIDE DEF at
  <2>2. at(j) = at(k)
    BY <2>1 DEF Inj
  <2> QED
    BY <1>1, <1>4, <2>2
<1> HIDE DEF at
<1>6. \A j \in 1..Len(t) : \E m \in 1..Len(s) : m # i /\ t[j] = s[m]
  BY <1>1, <1>3
<1> QED
  BY <1>1, <1>5, <1>6 DEF t

(* Every element of t is one of s other than the k-th.                     *)
Among(t, s, k) == \A j \in 1..Len(t) : \E m \in 1..Len(s) : m # k /\ t[j] = s[m]

LEMMA RemoveAmong ==
  ASSUME NEW S, NEW s \in Seq(S), Inj(s), NEW i \in 1..Len(s), NEW t, t = RemoveAt(s, i)
  PROVE  t \in Seq(S) /\ Len(t) = Len(s) - 1 /\ Inj(t) /\ Among(t, s, i)
<1> DEFINE u == RemoveAt(s, i)
<1>1. /\ u \in Seq(S) /\ Len(u) = Len(s) - 1 /\ Inj(u)
      /\ \A j \in 1..Len(u) : \E m \in 1..Len(s) : m # i /\ u[j] = s[m]
  BY RemoveInj
<1>2. t = u
  OBVIOUS
<1> HIDE DEF u
<1> QED
  BY <1>1, <1>2 DEF Among

LEMMA ConsProperties ==
  ASSUME NEW S, NEW s \in Seq(S), NEW x \in S
  PROVE  /\ <<x>> \o s \in Seq(S) /\ Len(<<x>> \o s) = Len(s) + 1
         /\ (<<x>> \o s)[1] = x
         /\ \A j \in 1..(Len(s) + 1) : j # 1 => (<<x>> \o s)[j] = s[j - 1]
<1>1. <<x>> \in Seq(S) /\ Len(<<x>>) = 1 /\ <<x>>[1] = x /\ Len(s) \in Nat
  BY LenProperties
<1> DEFINE u == <<x>>
<1>2. u \in Seq(S) /\ Len(u) = 1 /\ u[1] = x
  BY <1>1
<1> HIDE DEF u
<1>3. /\ u \o s \in Seq(S) /\ Len(u \o s) = Len(u) + Len(s)
      /\ \A j \in 1..(Len(u) + Len(s)) :
           (u \o s)[j] = IF j <= Len(u) THEN u[j] ELSE s[j - Len(u)]
  BY <1>2, ConcatProperties
<1>4. (u \o s)[1] = x /\ Len(u \o s) = Len(s) + 1
  BY <1>1, <1>2, <1>3
<1>5. \A j \in 1..(Len(s) + 1) : j # 1 => (u \o s)[j] = s[j - 1]
  BY <1>1, <1>2, <1>3
<1> QED
  BY <1>3, <1>4, <1>5 DEF u

LEMMA ConsInj ==
  ASSUME NEW S, NEW s \in Seq(S), NEW x \in S, Inj(s),
         \A j \in 1..Len(s) : s[j] # x
  PROVE  Inj(<<x>> \o s)
<1> DEFINE t == <<x>> \o s
<1>1. /\ Len(t) = Len(s) + 1 /\ t[1] = x
      /\ \A j \in 1..(Len(s) + 1) : j # 1 => t[j] = s[j - 1]
  BY ConsProperties
<1>2. Len(s) \in Nat
  BY LenProperties
<1> HIDE DEF t
<1> SUFFICES ASSUME NEW i \in 1..Len(t), NEW j \in 1..Len(t), t[i] = t[j]
             PROVE  i = j
  BY DEF Inj, t
<1>3. i \in 1..(Len(s) + 1) /\ j \in 1..(Len(s) + 1)
  BY <1>1
<1>4. i # 1 => i - 1 \in 1..Len(s) /\ t[i] = s[i - 1]
  BY <1>1, <1>2, <1>3
<1>5. j # 1 => j - 1 \in 1..Len(s) /\ t[j] = s[j - 1]
  BY <1>1, <1>2, <1>3
<1>6. CASE i = 1
  BY <1>1, <1>5, <1>6
<1>7. CASE j = 1
  BY <1>1, <1>4, <1>7
<1>8. CASE i # 1 /\ j # 1
  <2>1. i - 1 = j - 1
    BY <1>4, <1>5, <1>8 DEF Inj
  <2> QED
    BY <1>2, <1>3, <2>1
<1> QED
  BY <1>6, <1>7, <1>8

LEMMA RequeueInj ==
  ASSUME NEW S, NEW s \in Seq(S), Inj(s), NEW i \in 1..Len(s),
         NEW t, t = <<s[i]>> \o RemoveAt(s, i)
  PROVE  t \in Seq(S) /\ Len(t) = Len(s) /\ Inj(t) /\ Within(t, s)
<1> DEFINE u == RemoveAt(s, i)
           x == s[i]
<1>1. /\ u \in Seq(S) /\ Len(u) = Len(s) - 1 /\ Inj(u)
      /\ \A j \in 1..Len(u) : \E m \in 1..Len(s) : m # i /\ u[j] = s[m]
  BY RemoveInj
<1>2. x \in S /\ Len(s) \in Nat
  BY ElementOfSeq, LenProperties
<1>3. \A j \in 1..Len(u) : u[j] # x
  BY <1>1 DEF Inj
<1>0. t = <<x>> \o u
  OBVIOUS
<1> HIDE DEF u
<1>4. \E m \in 1..Len(s) : x = s[m]
  OBVIOUS
<1> HIDE DEF x
<1>5. /\ t \in Seq(S) /\ Len(t) = Len(u) + 1 /\ t[1] = x
      /\ \A j \in 1..(Len(u) + 1) : j # 1 => t[j] = u[j - 1]
  <2> DEFINE v == <<x>> \o u
  <2>1. /\ v \in Seq(S) /\ Len(v) = Len(u) + 1 /\ v[1] = x
        /\ \A j \in 1..(Len(u) + 1) : j # 1 => v[j] = u[j - 1]
    BY <1>1, <1>2, ConsProperties
  <2>2. t = v
    BY <1>0
  <2> HIDE DEF v
  <2> QED
    BY <2>1, <2>2
<1>6. Inj(t)
  <2> DEFINE v == <<x>> \o u
  <2>1. Inj(v)
    BY <1>1, <1>2, <1>3, ConsInj
  <2>2. t = v
    BY <1>0
  <2> HIDE DEF v
  <2> QED
    BY <2>1, <2>2
<1>7. Len(t) = Len(s)
  BY <1>1, <1>2, <1>5
<1>8. ASSUME NEW j \in 1..Len(t) PROVE \E m \in 1..Len(s) : t[j] = s[m]
  <2>1. CASE j = 1
    BY <1>4, <1>5, <2>1
  <2>2. CASE j # 1
    <3>1. j - 1 \in 1..Len(u) /\ j \in 1..(Len(u) + 1)
      BY <1>1, <1>2, <1>7, <2>2
    <3> QED
      BY <1>1, <1>5, <2>2, <3>1
  <2> QED
    BY <2>1, <2>2
<1> QED
  BY <1>5, <1>6, <1>7, <1>8 DEF Within

-----------------------------------------------------------------------------
(* What the operations have in common.                                     *)

LEMMA Basics ==
  ASSUME TypeOK
  PROVE  /\ Len(rx) + 1 \in Nat
         /\ gro_list \in Seq(EntryType) /\ Len(gro_list) \in Nat
         /\ idle \in Seq(Queues) /\ Len(idle) \in Nat
         /\ ofo \in [Queues -> QueueType]
         /\ out \in Seq(Seq(Nat))
         /\ \A i \in 1..Len(gro_list) :
              /\ gro_list[i].q \in Queues /\ gro_list[i].head \in Nat
              /\ gro_list[i].flow \in Flows
              /\ ofo[gro_list[i].q] \in QueueType
         /\ \A i \in 1..Len(idle) : idle[i] \in Queues
<1>1. /\ gro_list \in Seq(EntryType) /\ idle \in Seq(Queues)
      /\ ofo \in [Queues -> QueueType] /\ out \in Seq(Seq(Nat)) /\ rx \in Seq(Packets)
  BY DEF TypeOK
<1>2. ASSUME NEW i \in 1..Len(gro_list)
      PROVE  /\ gro_list[i].q \in Queues /\ gro_list[i].head \in Nat
             /\ gro_list[i].flow \in Flows
             /\ ofo[gro_list[i].q] \in QueueType
  <2>1. gro_list[i] \in EntryType
    BY <1>1, ElementOfSeq
  <2>2. gro_list[i].q \in Queues
    BY <2>1 DEF EntryType
  <2> QED
    BY <1>1, <2>1, <2>2 DEF EntryType
<1>3. \A i \in 1..Len(idle) : idle[i] \in Queues
  BY <1>1, ElementOfSeq
<1>4. Len(rx) \in Nat
  BY <1>1, LenProperties
<1> QED
  BY <1>1, <1>2, <1>3, <1>4, LenProperties

(* The logs of a step that receives a packet.                              *)
LEMMA ReceivingType ==
  ASSUME TypeOK, NEW p \in Packets, Receiving(p)
  PROVE  /\ rx' \in Seq(Packets) /\ freed' = freed /\ ~Deleted /\ ~Deleted'
         /\ cursor = 0 /\ cursor' = 0 /\ flush_old' = flush_old
         /\ SkbOf(p, Len(rx) + 1) \in SkbType
         /\ SkbOf(p, Len(rx) + 1).pkts \in Seq(Nat)
<1>1. rx \in Seq(Packets)
  BY DEF TypeOK
<1>2. rx' \in Seq(Packets)
  BY <1>1, AppendProperties DEF Receiving
<1>3. Len(rx) + 1 \in Nat
  BY Basics
<1> QED
  BY <1>2, <1>3, SkbOfType DEF Receiving, Deleted

(* An entry of gro_list gets a new queue content and a new head.           *)
LEMMA EntryUpdate ==
  ASSUME IInv, ~Deleted, NEW e \in 1..Len(gro_list), NEW queue \in QueueType,
         queue.items # <<>>, NEW x, x = queue.items[1].id,
         gro_list' = [gro_list EXCEPT ![e].head = x],
         ofo' = [ofo EXCEPT ![gro_list[e].q] = queue],
         idle' = idle, gro_count' = gro_count
  PROVE  /\ ofo' \in [Queues -> QueueType]
         /\ gro_list' \in Seq(EntryType) /\ Len(gro_list') = Len(gro_list)
         /\ HeadIsQueueHead' /\ PoolInv'
<1> DEFINE q == gro_list[e].q
           entry == [gro_list[e] EXCEPT !.head = x]
<1>1. TypeOK /\ HeadIsQueueHead /\ PoolInv
  BY DEF IInv
<1>2. /\ gro_list \in Seq(EntryType) /\ Len(gro_list) \in Nat
      /\ ofo \in [Queues -> QueueType] /\ q \in Queues
      /\ gro_list[e] \in EntryType
  BY <1>1, Basics, ElementOfSeq
<1>3. x \in Nat
  <2>1. queue.items \in Seq(SkbType)
    BY DEF QueueType
  <2>2. Len(queue.items) \in Nat /\ Len(queue.items) > 0
    BY <2>1, LenProperties, EmptySeq
  <2>3. queue.items[1] \in SkbType
    BY <2>1, <2>2, ElementOfSeq
  <2> QED
    BY <2>3 DEF SkbType
<1>4. ofo' \in [Queues -> QueueType] /\ ofo'[q] = queue
      /\ \A k \in Queues : k # q => ofo'[k] = ofo[k]
  BY <1>2
<1>5. entry \in EntryType /\ entry.q = q /\ entry.head = x
  BY <1>2, <1>3 DEF EntryType
<1>6. gro_list' = [gro_list EXCEPT ![e] = entry]
  OBVIOUS
<1> HIDE DEF entry
<1>7. /\ gro_list' \in Seq(EntryType) /\ Len(gro_list') = Len(gro_list)
      /\ \A i \in 1..Len(gro_list) :
           gro_list'[i] = IF i = e THEN entry ELSE gro_list[i]
  <2> DEFINE t == [gro_list EXCEPT ![e] = entry]
  <2>1. /\ t \in Seq(EntryType) /\ Len(t) = Len(gro_list)
        /\ \A i \in 1..Len(gro_list) : t[i] = IF i = e THEN entry ELSE gro_list[i]
    BY <1>2, <1>5, ExceptSeq
  <2>2. gro_list' = t
    BY <1>6
  <2> HIDE DEF t
  <2> QED
    BY <2>1, <2>2
<1>8. \A i \in 1..Len(gro_list) : gro_list'[i].q = gro_list[i].q
  BY <1>5, <1>7
<1>9. PoolInv'
  BY <1>1, <1>7, <1>8 DEF PoolInv
<1>10. HeadIsQueueHead'
  <2> SUFFICES ASSUME NEW i \in 1..Len(gro_list)
               PROVE  /\ ofo'[gro_list'[i].q].items # <<>>
                      /\ gro_list'[i].head = ofo'[gro_list'[i].q].items[1].id
    BY <1>7 DEF HeadIsQueueHead
  <2>1. CASE i = e
    BY <1>4, <1>5, <1>7, <2>1
  <2>2. CASE i # e
    <3>1. gro_list[i].q # q
      BY <1>1, <2>2 DEF PoolInv
    <3>2. gro_list[i].q \in Queues
      BY <1>1, Basics
    <3> HIDE DEF q
    <3>3. ofo'[gro_list'[i].q] = ofo[gro_list[i].q] /\ gro_list'[i] = gro_list[i]
      BY <1>4, <1>7, <2>2, <3>1, <3>2
    <3> QED
      BY <1>1, <3>3 DEF HeadIsQueueHead
  <2> QED
    BY <2>1, <2>2
<1> QED
  BY <1>4, <1>7, <1>9, <1>10

(* An idle queue is changed and goes to the front of the idle list.        *)
LEMMA IdleUpdate ==
  ASSUME IInv, ~Deleted, NEW i \in 1..Len(idle), NEW queue \in QueueType,
         ofo' = [ofo EXCEPT ![idle[i]] = queue], Requeue(i),
         gro_list' = gro_list, gro_count' = gro_count
  PROVE  /\ ofo' \in [Queues -> QueueType] /\ idle' \in Seq(Queues)
         /\ HeadIsQueueHead' /\ PoolInv'
<1>1. TypeOK /\ HeadIsQueueHead /\ PoolInv
  BY DEF IInv
<1>2. idle \in Seq(Queues) /\ ofo \in [Queues -> QueueType] /\ idle[i] \in Queues
  BY <1>1, Basics
<1>3. Inj(idle)
  BY <1>1 DEF PoolInv, Inj
<1>4. /\ idle' \in Seq(Queues) /\ Len(idle') = Len(idle)
      /\ \A j, k \in 1..Len(idle') : idle'[j] = idle'[k] => j = k
      /\ \A j \in 1..Len(idle') : \E m \in 1..Len(idle) : idle'[j] = idle[m]
  <2> DEFINE t == idle'
  <2>1. t = <<idle[i]>> \o RemoveAt(idle, i)
    BY DEF Requeue
  <2> HIDE DEF t
  <2>2. t \in Seq(Queues) /\ Len(t) = Len(idle) /\ Inj(t) /\ Within(t, idle)
    BY <1>2, <1>3, <2>1, RequeueInj
  <2>3. \A j, k \in 1..Len(t) : t[j] = t[k] => j = k
    BY <2>2 DEF Inj
  <2>4. \A j \in 1..Len(t) : \E m \in 1..Len(idle) : t[j] = idle[m]
    BY <2>2 DEF Within
  <2> QED
    BY <2>2, <2>3, <2>4 DEF t
<1>5. PoolInv'
  <2>1. \A k \in 1..Len(gro_list) : \A j \in 1..Len(idle') : gro_list[k].q # idle'[j]
    BY <1>1, <1>4 DEF PoolInv
  <2> QED
    BY <1>1, <1>4, <2>1 DEF PoolInv, Inj
<1>6. \A k \in 1..Len(gro_list) : ofo'[gro_list[k].q] = ofo[gro_list[k].q]
  <2> SUFFICES ASSUME NEW k \in 1..Len(gro_list)
               PROVE  ofo'[gro_list[k].q] = ofo[gro_list[k].q]
    OBVIOUS
  <2>1. gro_list[k].q \in Queues /\ gro_list[k].q # idle[i]
    BY <1>1, Basics DEF PoolInv
  <2> QED
    BY <1>2, <2>1
<1>7. HeadIsQueueHead'
  BY <1>1, <1>6 DEF HeadIsQueueHead
<1> QED
  BY <1>2, <1>4, <1>5, <1>7

(* The pool holds one queue more than gro_list may have entries.           *)
LEMMA IdleNotEmpty ==
  ASSUME IInv, ~Deleted
  PROVE  Len(idle) > 0 /\ Len(idle) \in Nat
<1>1. TypeOK /\ PoolInv
  BY DEF IInv
<1>2. Len(idle) \in Nat /\ Len(gro_list) \in Nat
  BY <1>1, Basics
<1>3. MAX_GRO_SKBS \in Nat
  BY MaxGroSkbsAssumption
<1> QED
  BY <1>1, <1>2, <1>3 DEF PoolInv

LEMMA EntryOfRange ==
  ASSUME TypeOK, NEW f, EntryOf(f) # 0
  PROVE  EntryOf(f) \in 1..Len(gro_list)
<1> DEFINE T == {e \in 1..Len(gro_list) : gro_list[e].flow = f}
<1>1. EntryOf(f) = IF T = {} THEN 0 ELSE Min(T)
  BY DEF EntryOf
<1>2. T \subseteq Nat /\ T \subseteq 1..Len(gro_list)
  BY Basics
<1> HIDE DEF T
<1>3. T # {} /\ EntryOf(f) = Min(T)
  BY <1>1
<1> QED
  BY <1>2, <1>3, MinNat

-----------------------------------------------------------------------------
(* Every action keeps the invariant.                                       *)

LEMMA BypassKeeps ==
  ASSUME IInv, NEW p \in Packets, ReceiveBypass(p)
  PROVE  IInv'
<1>1. TypeOK /\ HeadIsQueueHead /\ PoolInv
  <2>1. ~Deleted
    BY DEF ReceiveBypass, Receiving
  <2> QED
    BY <2>1 DEF IInv
<1>2. Receiving(p) /\ UNCHANGED engine_vars /\ out' = Append(out, <<Len(rx) + 1>>)
  BY DEF ReceiveBypass
<1>3. /\ rx' \in Seq(Packets) /\ freed' = freed /\ ~Deleted'
      /\ cursor' = 0 /\ flush_old' = flush_old
  BY <1>1, <1>2, ReceivingType
<1>4. out' \in Seq(Seq(Nat))
  <2>1. <<Len(rx) + 1>> \in Seq(Nat)
    BY <1>1, Basics
  <2>2. out \in Seq(Seq(Nat))
    BY <1>1, Basics
  <2> QED
    BY <1>2, <2>1, <2>2, AppendProperties
<1>5. /\ ofo' = ofo /\ idle' = idle /\ gro_list' = gro_list /\ gro_count' = gro_count
  BY <1>2 DEF engine_vars
<1>6. TypeOK'
  BY <1>1, <1>3, <1>4, <1>5, Basics DEF TypeOK
<1>7. HeadIsQueueHead' /\ PoolInv'
  BY <1>1, <1>5 DEF HeadIsQueueHead, PoolInv
<1> QED
  BY <1>3, <1>6, <1>7 DEF IInv

LEMMA FoundKeeps ==
  ASSUME IInv, NEW p \in Packets, ReceiveFound(p)
  PROVE  IInv'
<1> DEFINE e     == EntryOf(p.flow)
           q     == gro_list[e].q
           skb   == SkbOf(p, Len(rx) + 1)
           ctl   == p.kind = "ctl"
           r     == tcp_gro_receive(ofo[q], gro_list[e].head, skb, ctl)
           queue == IF r.kept THEN r.queue ELSE Advance(r.queue, skb)
           tail  == IF r.kept THEN <<>> ELSE <<skb.pkts>>
<1>1. TypeOK /\ HeadIsQueueHead /\ PoolInv /\ ~Deleted
  <2>1. ~Deleted
    BY DEF ReceiveFound, Receiving
  <2> QED
    BY <2>1 DEF IInv
<1>2. /\ Receiving(p) /\ e # 0 /\ idle' = idle /\ gro_count' = gro_count
      /\ gro_list' = [gro_list EXCEPT ![e].head = r.head]
      /\ ofo' = [ofo EXCEPT ![q] = queue]
      /\ out' = out \o PktsOf(r.out) \o tail
  BY Zenon DEF ReceiveFound
<1>3. /\ rx' \in Seq(Packets) /\ freed' = freed /\ ~Deleted'
      /\ cursor' = 0 /\ flush_old' = flush_old
      /\ skb \in SkbType /\ skb.pkts \in Seq(Nat)
  BY <1>1, <1>2, ReceivingType
<1>4. e \in 1..Len(gro_list)
  BY <1>1, <1>2, EntryOfRange
<1> HIDE DEF e, skb
<1>5. ofo[q] \in QueueType /\ ofo[q].items # <<>> /\ gro_list[e].head = ofo[q].items[1].id
  BY <1>1, <1>4, Basics DEF HeadIsQueueHead
<1>6. GoodOutcome(r, ofo[q].hash)
  <2> DEFINE old == ofo[q]
             x   == gro_list[e].head
  <2>1. old \in QueueType /\ old.items # <<>> /\ x = old.items[1].id
    BY <1>5
  <2>2. ctl \in BOOLEAN
    OBVIOUS
  <2> HIDE DEF old, x, ctl
  <2>3. GoodOutcome(tcp_gro_receive(old, x, skb, ctl), old.hash)
    BY <1>3, <2>1, <2>2, ReceiveKeepsHead
  <2> QED
    BY <2>3 DEF old, x
<1> HIDE DEF r
<1>7. /\ r.queue \in QueueType /\ r.out \in Seq(SkbType) /\ r.head \in Nat
      /\ r.queue.items # <<>> /\ r.head = r.queue.items[1].id
  BY <1>6, GoodParts DEF GoodOutcome
<1>8. queue \in QueueType /\ queue.items = r.queue.items
  BY <1>3, <1>7, AdvanceType
<1>9. out' \in Seq(Seq(Nat))
  <2>1. tail \in Seq(Seq(Nat))
    BY <1>3
  <2>2. PktsOf(r.out) \in Seq(Seq(Nat)) /\ out \in Seq(Seq(Nat))
    BY <1>1, <1>7, PktsOfType, Basics
  <2> HIDE DEF tail
  <2>3. out \o PktsOf(r.out) \in Seq(Seq(Nat))
    BY <2>2, ConcatProperties
  <2> QED
    BY <1>2, <2>1, <2>3, ConcatProperties
<1> DEFINE x == r.head
<1> HIDE DEF queue, tail
<1>10. /\ ofo' \in [Queues -> QueueType]
       /\ gro_list' \in Seq(EntryType) /\ Len(gro_list') = Len(gro_list)
       /\ HeadIsQueueHead' /\ PoolInv'
  <2>1. queue.items # <<>> /\ x = queue.items[1].id
    BY <1>7, <1>8
  <2>2. gro_list' = [gro_list EXCEPT ![e].head = x]
    BY <1>2
  <2> HIDE DEF x
  <2> QED
    BY <1>1, <1>2, <1>4, <1>8, <2>1, <2>2, EntryUpdate
<1>11. TypeOK'
  <2>1. cursor' \in 0..Len(gro_list')
    BY <1>1, <1>3, <1>10, Basics
  <2> QED
    BY <1>1, <1>2, <1>3, <1>9, <1>10, <2>1 DEF TypeOK
<1> QED
  BY <1>3, <1>10, <1>11 DEF IInv

(* ReceiveControl and ReceiveStale: one idle queue learns of the segment.  *)
LEMMA IdleReceiveKeeps ==
  ASSUME IInv, NEW p \in Packets, Receiving(p), NEW hash,
         NEW queue \in QueueType,
         ofo' = [ofo EXCEPT ![idle[IdleIndex(hash)]] = queue],
         Requeue(IdleIndex(hash)),
         out' = Append(out, SkbOf(p, Len(rx) + 1).pkts),
         gro_list' = gro_list, gro_count' = gro_count
  PROVE  IInv'
<1> DEFINE i == IdleIndex(hash)
<1>1. TypeOK /\ ~Deleted
  BY DEF IInv, Receiving
<1>2. /\ rx' \in Seq(Packets) /\ freed' = freed /\ ~Deleted'
      /\ cursor' = 0 /\ flush_old' = flush_old
      /\ SkbOf(p, Len(rx) + 1).pkts \in Seq(Nat)
  BY <1>1, ReceivingType
<1>3. i \in 1..Len(idle)
  BY <1>1, IdleNotEmpty, IdleIndexRange
<1>4. /\ ofo' \in [Queues -> QueueType] /\ idle' \in Seq(Queues)
      /\ HeadIsQueueHead' /\ PoolInv'
  <2> HIDE DEF i
  <2>1. ofo' = [ofo EXCEPT ![idle[i]] = queue] /\ Requeue(i)
    BY DEF i
  <2> QED
    BY <1>1, <1>3, <2>1, IdleUpdate
<1>5. out' \in Seq(Seq(Nat))
  BY <1>1, <1>2, Basics, AppendProperties
<1>6. TypeOK'
  BY <1>1, <1>2, <1>4, <1>5, Basics DEF TypeOK
<1> QED
  BY <1>2, <1>4, <1>6 DEF IInv

LEMMA ControlKeeps ==
  ASSUME IInv, NEW p \in Packets, ReceiveControl(p)
  PROVE  IInv'
<1> DEFINE hash  == TcpHash[p.flow]
           skb   == SkbOf(p, Len(rx) + 1)
           old   == napi_get_tcp_ofo_queue(hash)
           s     == IF old.hash = 0 THEN skb.seq ELSE old.seq_next
           z     == 0
           taken == [old EXCEPT !.seq_next = s, !.age = z, !.hash = hash]
           queue == Advance(taken, skb)
<1>1. TypeOK /\ ~Deleted /\ Receiving(p)
  BY DEF IInv, ReceiveControl, Receiving
<1>2. /\ ofo' = [ofo EXCEPT ![idle[IdleIndex(hash)]] = queue]
      /\ Requeue(IdleIndex(hash)) /\ out' = Append(out, skb.pkts)
      /\ gro_list' = gro_list /\ gro_count' = gro_count
  BY DEF ReceiveControl
<1>3. skb \in SkbType /\ hash \in Nat
  BY <1>1, ReceivingType, HashType
<1>4. old \in QueueType
  BY <1>1, IdleNotEmpty, IdleIndexRange
<1>5. s \in 0..(SeqRange - 1) /\ z \in Nat
  <2>1. skb.seq \in 0..(SeqRange - 1)
    BY <1>3 DEF SkbType
  <2>2. old.seq_next \in 0..(SeqRange - 1)
    BY <1>4 DEF QueueType
  <2> QED
    BY <2>1, <2>2
<1> HIDE DEF skb, hash, old, s, z
<1>6. taken \in QueueType
  BY <1>3, <1>4, <1>5 DEF QueueType
<1> HIDE DEF taken
<1>7. queue \in QueueType
  BY <1>3, <1>6, AdvanceType
<1> HIDE DEF queue
<1> QED
  BY <1>1, <1>2, <1>7, IdleReceiveKeeps DEF skb

LEMMA StaleKeeps ==
  ASSUME IInv, NEW p \in Packets, ReceiveStale(p)
  PROVE  IInv'
<1> DEFINE hash  == TcpHash[p.flow]
           skb   == SkbOf(p, Len(rx) + 1)
           old   == napi_get_tcp_ofo_queue(hash)
           z     == 0
           taken == TakenForData(old, skb)
           aged  == [taken EXCEPT !.age = z]
           queue == Advance(aged, skb)
<1>1. TypeOK /\ ~Deleted /\ Receiving(p)
  BY DEF IInv, ReceiveStale, Receiving
<1>2. /\ ofo' = [ofo EXCEPT ![idle[IdleIndex(hash)]] = queue]
      /\ Requeue(IdleIndex(hash)) /\ out' = Append(out, skb.pkts)
      /\ gro_list' = gro_list /\ gro_count' = gro_count
  BY DEF ReceiveStale
<1>3. skb \in SkbType
  BY <1>1, ReceivingType
<1>4. old \in QueueType
  BY <1>1, IdleNotEmpty, IdleIndexRange
<1>5. z \in Nat
  OBVIOUS
<1> HIDE DEF skb, hash, old, z
<1>6. taken \in QueueType
  BY <1>3, <1>4, TakenForDataType
<1> HIDE DEF taken
<1>7. aged \in QueueType
  BY <1>5, <1>6 DEF QueueType
<1> HIDE DEF aged
<1>8. queue \in QueueType
  BY <1>3, <1>7, AdvanceType
<1> HIDE DEF queue
<1> QED
  BY <1>1, <1>2, <1>8, IdleReceiveKeeps DEF skb

LEMMA FlushBeginKeeps ==
  ASSUME IInv, NEW old \in BOOLEAN, FlushBegin(old)
  PROVE  IInv'
<1>1. /\ TypeOK /\ cursor' = Len(gro_list) /\ flush_old' = old
      /\ rx' = rx /\ out' = out /\ freed' = freed /\ ofo' = ofo /\ idle' = idle
      /\ gro_list' = gro_list /\ gro_count' = gro_count
  BY DEF FlushBegin, engine_vars, IInv
<1>2. TypeOK'
  BY <1>1, Basics DEF TypeOK
<1>3. HeadIsQueueHead' /\ (~Deleted' => PoolInv') /\ (Deleted' => FreedInv')
  BY <1>1 DEF IInv, HeadIsQueueHead, PoolInv, FreedInv, Deleted
<1> QED
  BY <1>2, <1>3 DEF IInv

(* An operation that changes queues but not which packets they hold.       *)
LEMMA SameItemsKeeps ==
  ASSUME IInv, ofo' \in [Queues -> QueueType],
         \A i \in 1..Len(gro_list) :
           ofo'[gro_list[i].q].items = ofo[gro_list[i].q].items,
         rx' = rx, out' = out, freed' = freed, idle' = idle, gro_list' = gro_list,
         gro_count' = gro_count, cursor' = cursor, flush_old' = flush_old
  PROVE  IInv'
<1>1. TypeOK'
  BY DEF IInv, TypeOK
<1>2. HeadIsQueueHead'
  BY DEF IInv, HeadIsQueueHead
<1>3. (~Deleted' => PoolInv') /\ (Deleted' => FreedInv')
  BY DEF IInv, PoolInv, FreedInv, Deleted
<1> QED
  BY <1>1, <1>2, <1>3 DEF IInv

LEMMA CleanKeeps ==
  ASSUME IInv, napi_clean_tcp_ofo_queue
  PROVE  IInv'
<1> DEFINE old(q) == (\E i \in 1..Len(idle) : idle[i] = q) /\ ofo[q].age > CleanTimeout
<1>1. ofo \in [Queues -> QueueType] /\ TypeOK
  BY Basics DEF IInv
<1>2. ofo' = [q \in Queues |-> IF old(q) THEN ResetQueue(ofo[q]) ELSE ofo[q]]
  BY DEF napi_clean_tcp_ofo_queue
<1> HIDE DEF old
<1>3. ASSUME NEW q \in Queues
      PROVE  ofo'[q] \in QueueType /\ ofo'[q].items = ofo[q].items
  <2>1. ofo[q] \in QueueType
    BY <1>1
  <2>2. ResetQueue(ofo[q]) \in QueueType /\ ResetQueue(ofo[q]).items = ofo[q].items
    BY <2>1, ResetQueueType
  <2>3. ofo'[q] = IF old(q) THEN ResetQueue(ofo[q]) ELSE ofo[q]
    BY <1>2
  <2> QED
    BY <2>1, <2>2, <2>3
<1>4. ofo' \in [Queues -> QueueType]
  <2>1. ofo' = [q \in Queues |-> ofo'[q]]
    BY <1>2
  <2> QED
    BY <1>3, <2>1
<1>5. \A i \in 1..Len(gro_list) : ofo'[gro_list[i].q].items = ofo[gro_list[i].q].items
  BY <1>1, <1>3, Basics
<1> QED
  BY <1>4, <1>5, SameItemsKeeps DEF napi_clean_tcp_ofo_queue

LEMMA TickKeeps ==
  ASSUME IInv, Tick
  PROVE  IInv'
<1> DEFINE older(a) == IF a < AgeMax THEN a + 1 ELSE a
<1>1. ofo \in [Queues -> QueueType] /\ TypeOK
  BY Basics DEF IInv
<1>2. ofo' = [q \in Queues |-> [ofo[q] EXCEPT !.age = older(ofo[q].age)]]
  BY DEF Tick
<1>3. ASSUME NEW q \in Queues
      PROVE  ofo'[q] \in QueueType /\ ofo'[q].items = ofo[q].items
  <2> DEFINE queue == ofo[q]
             a     == older(queue.age)
  <2>1. queue \in QueueType /\ queue.age \in Nat
    BY <1>1 DEF QueueType
  <2>2. a \in Nat
    BY <2>1, AgeMaxType
  <2>3. ofo'[q] = [queue EXCEPT !.age = a]
    BY <1>2
  <2> HIDE DEF queue, a
  <2>4. ofo'[q] \in QueueType /\ ofo'[q].items = queue.items
    BY <2>1, <2>2, <2>3 DEF QueueType
  <2> QED
    BY <2>4 DEF queue
<1>4. ofo' \in [Queues -> QueueType]
  <2>1. ofo' = [q \in Queues |-> ofo'[q]]
    BY <1>2
  <2> QED
    BY <1>3, <2>1
<1>5. \A i \in 1..Len(gro_list) : ofo'[gro_list[i].q].items = ofo[gro_list[i].q].items
  BY <1>1, <1>3, Basics
<1> QED
  BY <1>4, <1>5, SameItemsKeeps DEF Tick

-----------------------------------------------------------------------------
(* The steps that change gro_list.                                         *)
QInj(s) == \A i, j \in 1..Len(s) : s[i].q = s[j].q => i = j

LEMMA RemoveEntry ==
  ASSUME NEW s \in Seq(EntryType), QInj(s), NEW k \in 1..Len(s),
         NEW t, t = RemoveAt(s, k)
  PROVE  t \in Seq(EntryType) /\ Len(t) = Len(s) - 1 /\ QInj(t) /\ Among(t, s, k)
<1>1. Inj(s)
  BY DEF Inj, QInj
<1>2. /\ t \in Seq(EntryType) /\ Len(t) = Len(s) - 1 /\ Inj(t)
      /\ \A j \in 1..Len(t) : \E m \in 1..Len(s) : m # k /\ t[j] = s[m]
  <2> DEFINE u == RemoveAt(s, k)
  <2>1. /\ u \in Seq(EntryType) /\ Len(u) = Len(s) - 1 /\ Inj(u)
        /\ \A j \in 1..Len(u) : \E m \in 1..Len(s) : m # k /\ u[j] = s[m]
    BY <1>1, RemoveInj
  <2>2. t = u
    OBVIOUS
  <2> HIDE DEF u
  <2> QED
    BY <2>1, <2>2
<1>3. QInj(t)
  <2> SUFFICES ASSUME NEW i \in 1..Len(t), NEW j \in 1..Len(t), t[i].q = t[j].q
               PROVE  i = j
    BY DEF QInj
  <2>1. PICK m \in 1..Len(s) : t[i] = s[m]
    BY <1>2
  <2>2. PICK n \in 1..Len(s) : t[j] = s[n]
    BY <1>2
  <2>3. m = n
    BY <2>1, <2>2 DEF QInj
  <2> QED
    BY <1>2, <2>1, <2>2, <2>3 DEF Inj
<1> QED
  BY <1>2, <1>3 DEF Among

LEMMA FrontEntries ==
  ASSUME NEW s \in Seq(EntryType), QInj(s), Len(s) > 0, NEW t, t = Front(s)
  PROVE  t \in Seq(EntryType) /\ Len(t) = Len(s) - 1 /\ QInj(t) /\ Among(t, s, Len(s))
<1>1. Len(s) \in Nat
  BY LenProperties
<1>2. t = SubSeq(s, 1, Len(s) - 1)
  BY DEF Front
<1>3. /\ t \in Seq(EntryType) /\ Len(t) = Len(s) - 1
      /\ \A j \in 1..(Len(s) - 1) : t[j] = s[j]
  <2> DEFINE u == SubSeq(s, 1, Len(s) - 1)
  <2>1. \A j \in 1..(Len(s) - 1) : s[j] \in EntryType
    BY <1>1, ElementOfSeq
  <2>2. /\ u \in Seq(EntryType) /\ Len(u) = Len(s) - 1
        /\ \A j \in 1..(Len(s) - 1) : u[j] = s[j]
    <3> DEFINE n == Len(s) - 1
    <3>1. n \in 0..Len(s) /\ n + 1 - 1 = n /\ Len(s) \in Nat
      BY <1>1
    <3> HIDE DEF n
    <3>2. \A j \in 1..n : s[j] \in EntryType
      BY <2>1 DEF n
    <3>3. /\ SubSeq(s, 1, n) \in Seq(EntryType) /\ Len(SubSeq(s, 1, n)) = n
          /\ \A j \in 1..n : SubSeq(s, 1, n)[j] = s[j]
      BY <3>1, <3>2, SubSeqProperties
    <3> QED
      BY <3>3 DEF n
  <2> HIDE DEF u
  <2> QED
    BY <1>2, <2>2 DEF u
<1>4. QInj(t)
  BY <1>1, <1>3 DEF QInj
<1>5. Among(t, s, Len(s))
  <2> SUFFICES ASSUME NEW j \in 1..Len(t) PROVE \E m \in 1..Len(s) : m # Len(s) /\ t[j] = s[m]
    BY DEF Among
  <2>1. j \in 1..Len(s) /\ j # Len(s) /\ t[j] = s[j]
    BY <1>1, <1>3
  <2> QED
    BY <2>1
<1> QED
  BY <1>3, <1>4, <1>5

(* Every entry of t but the first is one of s.                             *)
Behind(t, x, s) ==
  \A j \in 1..Len(t) : IF j = 1 THEN t[j] = x ELSE \E m \in 1..Len(s) : t[j] = s[m]

LEMMA ConsEntry ==
  ASSUME NEW s \in Seq(EntryType), QInj(s), NEW x \in EntryType,
         \A j \in 1..Len(s) : s[j].q # x.q, NEW t, t = <<x>> \o s
  PROVE  t \in Seq(EntryType) /\ Len(t) = Len(s) + 1 /\ QInj(t) /\ Behind(t, x, s)
<1>1. Len(s) \in Nat
  BY LenProperties
<1>2. /\ t \in Seq(EntryType) /\ Len(t) = Len(s) + 1 /\ t[1] = x
      /\ \A j \in 1..(Len(s) + 1) : j # 1 => t[j] = s[j - 1]
  <2> DEFINE u == <<x>> \o s
  <2>1. /\ u \in Seq(EntryType) /\ Len(u) = Len(s) + 1 /\ u[1] = x
        /\ \A j \in 1..(Len(s) + 1) : j # 1 => u[j] = s[j - 1]
    BY ConsProperties
  <2>2. t = u
    OBVIOUS
  <2> HIDE DEF u
  <2> QED
    BY <2>1, <2>2
<1>3. \A j \in 1..Len(t) : j # 1 => j - 1 \in 1..Len(s) /\ t[j] = s[j - 1]
  BY <1>1, <1>2
<1>4. Behind(t, x, s)
  BY <1>2, <1>3 DEF Behind
<1>5. QInj(t)
  <2> SUFFICES ASSUME NEW i \in 1..Len(t), NEW j \in 1..Len(t), t[i].q = t[j].q
               PROVE  i = j
    BY DEF QInj
  <2>1. CASE i = 1 \/ j = 1
    BY <1>2, <1>3, <2>1
  <2>2. CASE i # 1 /\ j # 1
    <3>1. i - 1 = j - 1
      BY <1>3, <2>2 DEF QInj
    <3> QED
      BY <1>1, <1>2, <3>1
  <2> QED
    BY <2>1, <2>2
<1> QED
  BY <1>2, <1>4, <1>5

LEMMA FlushEntryKeeps ==
  ASSUME IInv, FlushEntry
  PROVE  IInv'
<1> DEFINE q     == gro_list[cursor].q
           k     == CompleteCount(ofo[q], flush_old)
           queue == Complete(ofo[q], k)
           pass  == PktsOf(SubSeq(ofo[q].items, 1, k))
<1>1. TypeOK /\ HeadIsQueueHead /\ cursor > 0 /\ cursor \in 1..Len(gro_list)
      /\ flush_old \in BOOLEAN
  <2>1. TypeOK /\ HeadIsQueueHead /\ cursor > 0
    BY DEF IInv, FlushEntry
  <2>2. cursor \in 0..Len(gro_list) /\ flush_old \in BOOLEAN /\ Len(gro_list) \in Nat
    BY <2>1, Basics DEF TypeOK
  <2> QED
    BY <2>1, <2>2
<1>2. ~Deleted /\ PoolInv
  <2>1. Len(gro_list) # 0
    BY <1>1, Basics
  <2> QED
    BY <2>1 DEF IInv, FreedInv
<1>3. /\ ofo' = [ofo EXCEPT ![q] = queue] /\ out' = out \o pass
      /\ cursor' = cursor - 1 /\ rx' = rx /\ freed' = freed /\ flush_old' = flush_old
      /\ \/ /\ queue.items = <<>>
            /\ gro_list' = RemoveAt(gro_list, cursor)
            /\ gro_count' = gro_count - 1
            /\ idle' = <<q>> \o idle
         \/ /\ queue.items # <<>>
            /\ gro_list' = [gro_list EXCEPT ![cursor].head = queue.items[1].id]
            /\ gro_count' = gro_count /\ idle' = idle
  BY DEF FlushEntry
<1>4. q \in Queues /\ ofo[q] \in QueueType /\ ofo \in [Queues -> QueueType]
  BY <1>1, Basics
<1>5. k \in 0..Len(ofo[q].items) /\ queue \in QueueType
  <2> DEFINE old == ofo[q]
  <2>1. old \in QueueType
    BY <1>4
  <2> HIDE DEF old
  <2>2. CompleteCount(old, flush_old) \in 0..Len(old.items)
    BY <1>1, <2>1, CompleteCountRange
  <2>3. Complete(old, CompleteCount(old, flush_old)) \in QueueType
    BY <2>1, <2>2, CompleteType
  <2> QED
    BY <2>2, <2>3 DEF old
<1>6. out' \in Seq(Seq(Nat))
  <2> DEFINE items == ofo[q].items
             front == SubSeq(items, 1, k)
  <2>1. items \in Seq(SkbType)
    BY <1>4 DEF QueueType
  <2>2. k \in 0..Len(items) /\ Len(items) \in Nat
    BY <1>5, <2>1, LenProperties
  <2> HIDE DEF items, k
  <2>3. front \in Seq(SkbType)
    BY <2>1, <2>2, SubSeqProperties, ElementOfSeq
  <2>4. pass \in Seq(Seq(Nat))
    BY <2>3, PktsOfType DEF items
  <2> HIDE DEF pass
  <2> QED
    BY <1>1, <1>3, <2>4, Basics, ConcatProperties
<1>7. ofo' \in [Queues -> QueueType]
  BY <1>3, <1>4, <1>5
<1> HIDE DEF queue, k, pass
<1>8. CASE queue.items # <<>>
  <2> DEFINE x == queue.items[1].id
  <2>1. /\ gro_list' = [gro_list EXCEPT ![cursor].head = x]
        /\ gro_count' = gro_count /\ idle' = idle
    BY <1>3, <1>8
  <2> HIDE DEF x
  <2>2. /\ gro_list' \in Seq(EntryType) /\ Len(gro_list') = Len(gro_list)
        /\ HeadIsQueueHead' /\ PoolInv'
    BY <1>1, <1>2, <1>3, <1>5, <1>8, <2>1, EntryUpdate DEF x
  <2>3. cursor' \in 0..Len(gro_list')
    BY <1>1, <1>3, <2>2, Basics
  <2>4. TypeOK'
    BY <1>1, <1>3, <1>6, <1>7, <2>1, <2>2, <2>3 DEF TypeOK
  <2> QED
    BY <1>2, <1>3, <2>2, <2>4 DEF IInv, Deleted
<1>9. CASE queue.items = <<>>
  <2>1. /\ gro_list' = RemoveAt(gro_list, cursor)
        /\ gro_count' = gro_count - 1 /\ idle' = <<q>> \o idle
    BY <1>3, <1>9
  <2>2. /\ gro_list \in Seq(EntryType) /\ idle \in Seq(Queues)
        /\ Len(gro_list) \in Nat /\ Len(idle) \in Nat
    BY <1>1, Basics
  <2>3. QInj(gro_list) /\ Inj(idle) /\ \A j \in 1..Len(idle) : idle[j] # q
    BY <1>1, <1>2 DEF QInj, Inj, PoolInv
  <2> DEFINE new == gro_list'
             back == idle'
  <2>4. new = RemoveAt(gro_list, cursor) /\ back = <<q>> \o idle
    BY <2>1
  <2> HIDE DEF new, back
  <2>5. /\ new \in Seq(EntryType) /\ Len(new) = Len(gro_list) - 1
        /\ QInj(new) /\ Among(new, gro_list, cursor)
    BY <1>1, <2>2, <2>3, <2>4, RemoveEntry
  <2> HIDE DEF q
  <2>6. /\ back \in Seq(Queues) /\ Len(back) = Len(idle) + 1 /\ back[1] = q
        /\ \A j \in 1..(Len(idle) + 1) : j # 1 => back[j] = idle[j - 1]
        /\ Inj(back)
    <3> DEFINE u == <<q>> \o idle
    <3>1. /\ u \in Seq(Queues) /\ Len(u) = Len(idle) + 1 /\ u[1] = q
          /\ \A j \in 1..(Len(idle) + 1) : j # 1 => u[j] = idle[j - 1]
      BY <1>4, <2>2, ConsProperties
    <3>2. Inj(u)
      BY <1>4, <2>2, <2>3, ConsInj
    <3>3. back = u
      BY <2>4
    <3> HIDE DEF u
    <3> QED
      BY <3>1, <3>2, <3>3
  <2>7. \A i \in 1..Len(new) : new[i].q # q /\ new[i].q \in Queues
          /\ \E m \in 1..Len(gro_list) : m # cursor /\ new[i] = gro_list[m]
    <3> SUFFICES ASSUME NEW i \in 1..Len(new)
                 PROVE  new[i].q # q /\ new[i].q \in Queues
                   /\ \E m \in 1..Len(gro_list) : m # cursor /\ new[i] = gro_list[m]
      OBVIOUS
    <3>1. PICK m \in 1..Len(gro_list) : m # cursor /\ new[i] = gro_list[m]
      BY <2>5 DEF Among
    <3>2. gro_list[m].q # q /\ gro_list[m].q \in Queues
      BY <1>1, <2>3, <3>1, Basics DEF QInj, q
    <3> QED
      BY <3>1, <3>2
  <2>8. \A i \in 1..Len(new) : \A j \in 1..Len(back) : new[i].q # back[j]
    <3> SUFFICES ASSUME NEW i \in 1..Len(new), NEW j \in 1..Len(back)
                 PROVE  new[i].q # back[j]
      OBVIOUS
    <3>1. PICK m \in 1..Len(gro_list) : new[i] = gro_list[m]
      BY <2>7
    <3>2. CASE j = 1
      BY <2>6, <2>7, <3>2
    <3>3. CASE j # 1
      <4>1. j - 1 \in 1..Len(idle) /\ back[j] = idle[j - 1]
        BY <2>2, <2>6, <3>3
      <4> QED
        BY <1>2, <3>1, <4>1 DEF PoolInv
    <3> QED
      BY <3>2, <3>3
  <2>9. PoolInv'
    <3>1. gro_count' = Len(new) /\ Len(new) <= MAX_GRO_SKBS
          /\ Len(new) + Len(back) = MAX_GRO_SKBS + 1
      <4>1. /\ gro_count = Len(gro_list) /\ Len(gro_list) <= MAX_GRO_SKBS
            /\ Len(gro_list) + Len(idle) = MAX_GRO_SKBS + 1
        BY <1>2 DEF PoolInv
      <4>2. Len(new) = Len(gro_list) - 1 /\ Len(back) = Len(idle) + 1
            /\ gro_count' = gro_count - 1 /\ MAX_GRO_SKBS \in Nat
        BY <2>1, <2>5, <2>6, MaxGroSkbsAssumption
      <4> QED
        BY <2>2, <4>1, <4>2
    <3>2. \A i, j \in 1..Len(new) : new[i].q = new[j].q => i = j
      BY <2>5 DEF QInj
    <3>3. \A i, j \in 1..Len(back) : back[i] = back[j] => i = j
      BY <2>6 DEF Inj
    <3> QED
      BY <2>8, <3>1, <3>2, <3>3 DEF PoolInv, new, back
  <2>10. HeadIsQueueHead'
    <3> SUFFICES ASSUME NEW i \in 1..Len(new)
                 PROVE  /\ ofo'[new[i].q].items # <<>>
                        /\ new[i].head = ofo'[new[i].q].items[1].id
      BY DEF HeadIsQueueHead, new
    <3>1. PICK m \in 1..Len(gro_list) : new[i] = gro_list[m]
      BY <2>7
    <3>2. ofo'[new[i].q] = ofo[new[i].q]
      BY <1>3, <1>4, <2>7 DEF q
    <3> QED
      BY <1>1, <3>1, <3>2 DEF HeadIsQueueHead
  <2>11. cursor' \in 0..Len(new) /\ gro_count' \in Nat
    BY <1>1, <1>2, <1>3, <2>1, <2>2, <2>5 DEF PoolInv
  <2>12. TypeOK'
    BY <1>1, <1>3, <1>6, <1>7, <2>5, <2>6, <2>11 DEF TypeOK, new, back
  <2> QED
    BY <1>2, <1>3, <2>9, <2>10, <2>12 DEF IInv, Deleted
<1> QED
  BY <1>8, <1>9

(* HeadIsQueueHead of a list of entries over given queues, and queues that *)
(* agree with ofo on the queues of a list of entries.                      *)
Headed(list, queues) ==
  \A j \in 1..Len(list) :
    /\ queues[list[j].q].items # <<>>
    /\ list[j].head = queues[list[j].q].items[1].id

SameQueues(list, queues) ==
  \A j \in 1..Len(list) : queues[list[j].q] = ofo[list[j].q]

(* A flow starts to hold packets: its entry is put in front of keep, what  *)
(* stays of gro_list.                                                      *)
LEMMA HeadedBehind ==
  ASSUME HeadIsQueueHead, NEW keep, Within(keep, gro_list),
         NEW new, SameQueues(keep, new), NEW entry,
         new[entry.q].items # <<>>, entry.head = new[entry.q].items[1].id,
         NEW list, Behind(list, entry, keep)
  PROVE  Headed(list, new)
<1> SUFFICES ASSUME NEW j \in 1..Len(list)
             PROVE  /\ new[list[j].q].items # <<>>
                    /\ list[j].head = new[list[j].q].items[1].id
  BY DEF Headed
<1>1. CASE j = 1
  <2>1. list[j] = entry
    BY <1>1 DEF Behind
  <2> QED
    BY <2>1
<1>2. CASE j # 1
  <2>1. PICK m \in 1..Len(keep) : list[j] = keep[m]
    BY <1>2 DEF Behind
  <2>2. PICK n \in 1..Len(gro_list) : keep[m] = gro_list[n]
    BY DEF Within
  <2>3. new[list[j].q] = ofo[gro_list[n].q] /\ list[j] = gro_list[n]
    BY <2>1, <2>2 DEF SameQueues
  <2> QED
    BY <2>3 DEF HeadIsQueueHead
<1> QED
  BY <1>1, <1>2

(* PoolInv of given lists.                                                 *)
PoolOf(list, rest) ==
  /\ Len(list) <= MAX_GRO_SKBS
  /\ Len(list) + Len(rest) = MAX_GRO_SKBS + 1
  /\ QInj(list) /\ Inj(rest)
  /\ \A i \in 1..Len(list) : \A j \in 1..Len(rest) : list[i].q # rest[j]

(* What a packet that is held leaves behind.                               *)
GoodHold(list, rest, new, n) ==
  /\ new \in [Queues -> QueueType] /\ rest \in Seq(Queues)
  /\ list \in Seq(EntryType) /\ Len(list) = n
  /\ Headed(list, new) /\ PoolOf(list, rest)

(* gro_list is not full.                                                   *)
LEMMA HoldRoom ==
  ASSUME IInv, ~Deleted, NEW i \in 1..Len(idle), NEW held \in QueueType,
         NEW entry \in EntryType, entry.q = idle[i],
         held.items # <<>>, entry.head = held.items[1].id,
         gro_count < MAX_GRO_SKBS,
         NEW list, list = <<entry>> \o gro_list,
         NEW rest, rest = RemoveAt(idle, i),
         NEW new, new = [ofo EXCEPT ![idle[i]] = held]
  PROVE  GoodHold(list, rest, new, gro_count + 1)
<1>1. TypeOK /\ HeadIsQueueHead /\ PoolInv
  BY DEF IInv
<1>2. /\ gro_list \in Seq(EntryType) /\ idle \in Seq(Queues)
      /\ ofo \in [Queues -> QueueType] /\ idle[i] \in Queues
      /\ Len(gro_list) \in Nat /\ Len(idle) \in Nat
      /\ \A j \in 1..Len(gro_list) : gro_list[j].q \in Queues
  BY <1>1, Basics
<1>3. QInj(gro_list) /\ Inj(idle) /\ Within(gro_list, gro_list)
  BY <1>1 DEF PoolInv, QInj, Inj, Within
<1>4. new \in [Queues -> QueueType] /\ new[idle[i]] = held
      /\ SameQueues(gro_list, new)
  <2>1. \A j \in 1..Len(gro_list) : gro_list[j].q # idle[i]
    BY <1>1 DEF PoolInv
  <2> QED
    BY <1>2, <2>1 DEF SameQueues
<1>5. /\ rest \in Seq(Queues) /\ Len(rest) = Len(idle) - 1 /\ Inj(rest)
      /\ Among(rest, idle, i)
  BY <1>2, <1>3, RemoveAmong
<1>6. /\ list \in Seq(EntryType) /\ Len(list) = Len(gro_list) + 1 /\ QInj(list)
      /\ Behind(list, entry, gro_list) /\ Headed(list, new)
  <2>1. \A j \in 1..Len(gro_list) : gro_list[j].q # entry.q
    BY <1>1 DEF PoolInv
  <2>2. /\ list \in Seq(EntryType) /\ Len(list) = Len(gro_list) + 1 /\ QInj(list)
        /\ Behind(list, entry, gro_list)
    BY <1>2, <1>3, <2>1, ConsEntry
  <2>3. new[entry.q].items # <<>> /\ entry.head = new[entry.q].items[1].id
    BY <1>4
  <2>4. Headed(list, new)
    BY <1>1, <1>3, <1>4, <2>2, <2>3, HeadedBehind
  <2> QED
    BY <2>2, <2>4
<1>7. \A j \in 1..Len(list) : \A k \in 1..Len(rest) : list[j].q # rest[k]
  <2> SUFFICES ASSUME NEW j \in 1..Len(list), NEW k \in 1..Len(rest)
               PROVE  list[j].q # rest[k]
    OBVIOUS
  <2>1. PICK m \in 1..Len(idle) : m # i /\ rest[k] = idle[m]
    BY <1>5 DEF Among
  <2>2. CASE j = 1
    BY <1>3, <1>6, <2>1, <2>2 DEF Behind, Inj
  <2>3. CASE j # 1
    <3>1. PICK n \in 1..Len(gro_list) : list[j] = gro_list[n]
      BY <1>6, <2>3 DEF Behind
    <3> QED
      BY <1>1, <2>1, <3>1 DEF PoolInv
  <2> QED
    BY <2>2, <2>3
<1>8. gro_count = Len(gro_list) /\ Len(gro_list) + Len(idle) = MAX_GRO_SKBS + 1
  BY <1>1 DEF PoolInv
<1>9. /\ Len(list) = gro_count + 1 /\ Len(list) <= MAX_GRO_SKBS
      /\ Len(list) + Len(rest) = MAX_GRO_SKBS + 1
  BY <1>2, <1>5, <1>6, <1>8, MaxGroSkbsAssumption
<1> QED
  BY <1>4, <1>5, <1>6, <1>7, <1>9 DEF PoolOf, GoodHold

(* gro_list is full: the queue of its last entry becomes idle.             *)
LEMMA HoldEvict ==
  ASSUME IInv, ~Deleted, NEW i \in 1..Len(idle), NEW held \in QueueType,
         NEW entry \in EntryType, entry.q = idle[i],
         held.items # <<>>, entry.head = held.items[1].id,
         gro_count >= MAX_GRO_SKBS,
         NEW last, last = gro_list[Len(gro_list)].q, NEW empty \in QueueType,
         NEW keep, keep = Front(gro_list), NEW list, list = <<entry>> \o keep,
         NEW rest, rest = <<last>> \o RemoveAt(idle, i),
         NEW new, new = [ofo EXCEPT ![idle[i]] = held, ![last] = empty]
  PROVE  GoodHold(list, rest, new, gro_count)
<1> DEFINE n == Len(gro_list)
<1>1. TypeOK /\ HeadIsQueueHead /\ PoolInv
  BY DEF IInv
<1>2. /\ gro_list \in Seq(EntryType) /\ idle \in Seq(Queues)
      /\ ofo \in [Queues -> QueueType] /\ idle[i] \in Queues
      /\ n \in Nat /\ Len(idle) \in Nat
      /\ \A j \in 1..Len(gro_list) : gro_list[j].q \in Queues
  BY <1>1, Basics
<1>3. QInj(gro_list) /\ Inj(idle)
  BY <1>1 DEF PoolInv, QInj, Inj
<1>4. gro_count = n /\ n = MAX_GRO_SKBS /\ n > 0 /\ n \in 1..n /\ Len(idle) = 1
  <2>1. gro_count = n /\ n <= MAX_GRO_SKBS /\ n + Len(idle) = MAX_GRO_SKBS + 1
    BY <1>1 DEF PoolInv
  <2> QED
    BY <1>2, <2>1, MaxGroSkbsAssumption
<1>5. last \in Queues /\ last # idle[i]
  BY <1>1, <1>2, <1>4 DEF PoolInv
<1>6. keep \in Seq(EntryType) /\ Len(keep) = n - 1 /\ QInj(keep) /\ Among(keep, gro_list, n)
  BY <1>2, <1>3, <1>4, FrontEntries
<1>8. \A j \in 1..Len(keep) : /\ keep[j].q \in Queues /\ keep[j].q # last
                              /\ keep[j].q # idle[i]
  <2> SUFFICES ASSUME NEW j \in 1..Len(keep)
               PROVE  keep[j].q \in Queues /\ keep[j].q # last /\ keep[j].q # idle[i]
    OBVIOUS
  <2>1. PICK m \in 1..Len(gro_list) : m # n /\ keep[j] = gro_list[m]
    BY <1>6 DEF Among
  <2> QED
    BY <1>1, <1>2, <1>3, <1>4, <2>1 DEF QInj, PoolInv
<1>9. Within(keep, gro_list)
  BY <1>6 DEF Within, Among
<1>10. new \in [Queues -> QueueType] /\ new[idle[i]] = held /\ SameQueues(keep, new)
  BY <1>2, <1>5, <1>8 DEF SameQueues
<1>11. /\ list \in Seq(EntryType) /\ Len(list) = Len(keep) + 1 /\ QInj(list)
       /\ Behind(list, entry, keep) /\ Headed(list, new)
  <2>1. \A j \in 1..Len(keep) : keep[j].q # entry.q
    BY <1>8
  <2>2. /\ list \in Seq(EntryType) /\ Len(list) = Len(keep) + 1 /\ QInj(list)
        /\ Behind(list, entry, keep)
    BY <1>6, <2>1, ConsEntry
  <2>3. new[entry.q].items # <<>> /\ entry.head = new[entry.q].items[1].id
    BY <1>10
  <2>4. Headed(list, new)
    BY <1>1, <1>9, <1>10, <2>2, <2>3, HeadedBehind
  <2> QED
    BY <2>2, <2>4
<1>12. PICK some : some = RemoveAt(idle, i)
  OBVIOUS
<1>13. some \in Seq(Queues) /\ Len(some) = Len(idle) - 1
  BY <1>2, <1>3, <1>12, RemoveAmong
<1>14. rest \in Seq(Queues) /\ Len(rest) = 1 /\ rest[1] = last
  <2>1. rest = <<last>> \o some
    BY <1>12
  <2> DEFINE u == <<last>> \o some
  <2>2. u \in Seq(Queues) /\ Len(u) = Len(some) + 1 /\ u[1] = last
    BY <1>5, <1>13, ConsProperties
  <2>3. rest = u
    BY <2>1
  <2>4. Len(some) + 1 = 1
    BY <1>4, <1>13
  <2> HIDE DEF u
  <2> QED
    BY <2>2, <2>3, <2>4
<1>15. \A j \in 1..Len(list) : \A k \in 1..Len(rest) : list[j].q # rest[k]
  <2> SUFFICES ASSUME NEW j \in 1..Len(list)
               PROVE  list[j].q # last
    BY <1>14
  <2>1. CASE j = 1
    BY <1>5, <1>11, <2>1 DEF Behind
  <2>2. CASE j # 1
    BY <1>8, <1>11, <2>2 DEF Behind
  <2> QED
    BY <2>1, <2>2
<1>16. Inj(rest)
  BY <1>14 DEF Inj
<1>17. Len(list) = gro_count /\ Len(list) <= MAX_GRO_SKBS
       /\ Len(list) + Len(rest) = MAX_GRO_SKBS + 1
  BY <1>2, <1>4, <1>6, <1>11, <1>14
<1> QED
  BY <1>10, <1>11, <1>14, <1>15, <1>16, <1>17 DEF PoolOf, GoodHold

LEMMA HoldKeeps ==
  ASSUME IInv, NEW p \in Packets, ReceiveHold(p)
  PROVE  IInv'
<1> DEFINE hash  == TcpHash[p.flow]
           i     == IdleIndex(hash)
           skb   == SkbOf(p, Len(rx) + 1)
           queue == TakenForData(napi_get_tcp_ofo_queue(hash), skb)
           one   == 1
           z     == 0
           items == <<skb>>
           held  == [queue EXCEPT !.items = items, !.skb_num = one, !.age = z, !.hash = hash]
           entry == [flow |-> p.flow, q |-> idle[i], head |-> skb.id]
           last  == gro_list[Len(gro_list)].q
           old   == ofo[last]
           empty == Complete(old, Len(old.items))
           keep  == Front(gro_list)
           pass  == PktsOf(old.items)
<1>1. TypeOK /\ ~Deleted /\ Receiving(p) /\ PoolInv
  BY DEF IInv, ReceiveHold, Receiving
<1>2. \/ /\ gro_count < MAX_GRO_SKBS
         /\ gro_list' = <<entry>> \o gro_list
         /\ gro_count' = gro_count + 1
         /\ idle' = RemoveAt(idle, i)
         /\ ofo' = [ofo EXCEPT ![idle[i]] = held]
         /\ out' = out
      \/ /\ gro_count >= MAX_GRO_SKBS
         /\ gro_list' = <<entry>> \o keep
         /\ idle' = <<last>> \o RemoveAt(idle, i)
         /\ ofo' = [ofo EXCEPT ![idle[i]] = held, ![last] = empty]
         /\ out' = out \o pass
         /\ gro_count' = gro_count
  BY DEF ReceiveHold
<1>3. /\ rx' \in Seq(Packets) /\ freed' = freed /\ ~Deleted'
      /\ cursor' = 0 /\ flush_old' = flush_old
      /\ skb \in SkbType
  BY <1>1, ReceivingType
<1>4. hash \in Nat /\ p.flow \in Flows
  BY HashType
<1>5. i \in 1..Len(idle) /\ idle[i] \in Queues
      /\ napi_get_tcp_ofo_queue(hash) \in QueueType
  BY <1>1, IdleNotEmpty, IdleIndexRange
<1>6. queue \in QueueType
  <2> DEFINE got == napi_get_tcp_ofo_queue(hash)
  <2>1. got \in QueueType
    BY <1>5
  <2> HIDE DEF got, skb
  <2>2. TakenForData(got, skb) \in QueueType
    BY <1>3, <2>1, TakenForDataType
  <2> QED
    BY <2>2 DEF got
<1>7. items \in Seq(SkbType) /\ items # <<>> /\ items[1] = skb /\ one \in Int /\ z \in Nat
      /\ skb.id \in Nat
  <2> HIDE DEF skb
  <2> QED
    BY <1>3 DEF SkbType
<1> HIDE DEF skb, items, queue, one, z, hash, i
<1>8. held \in QueueType /\ held.items = items
  BY <1>4, <1>6, <1>7 DEF QueueType
<1>9. entry \in EntryType /\ entry.q = idle[i] /\ entry.head = skb.id
  BY <1>4, <1>5, <1>7 DEF EntryType
<1> HIDE DEF held, entry
<1>10. held.items # <<>> /\ entry.head = held.items[1].id
  BY <1>7, <1>8, <1>9
<1>11. CASE gro_count < MAX_GRO_SKBS
  <2>1. PICK list, rest, new : /\ list = <<entry>> \o gro_list
                               /\ rest = RemoveAt(idle, i)
                               /\ new = [ofo EXCEPT ![idle[i]] = held]
    OBVIOUS
  <2>2. gro_list' = list /\ idle' = rest /\ ofo' = new /\ gro_count' = gro_count + 1
        /\ out' = out
    <3>1. gro_count \in Nat /\ MAX_GRO_SKBS \in Nat
      BY <1>1, MaxGroSkbsAssumption DEF TypeOK
    <3>2. ~(gro_count >= MAX_GRO_SKBS)
      BY <1>11, <3>1
    <3> QED
      BY <1>2, <2>1, <3>2
  <2>3. /\ new \in [Queues -> QueueType] /\ rest \in Seq(Queues)
        /\ list \in Seq(EntryType) /\ Len(list) = gro_count + 1
        /\ Headed(list, new) /\ PoolOf(list, rest)
    <3>1. GoodHold(list, rest, new, gro_count + 1)
      BY <1>1, <1>5, <1>8, <1>9, <1>10, <1>11, <2>1, HoldRoom
    <3> QED
      BY <3>1 DEF GoodHold
  <2>4. HeadIsQueueHead'
    BY <2>2, <2>3 DEF HeadIsQueueHead, Headed
  <2>5. PoolInv'
    BY <2>2, <2>3 DEF PoolInv, PoolOf, QInj, Inj
  <2>6. out' \in Seq(Seq(Nat)) /\ gro_count' \in Nat /\ cursor' \in 0..Len(gro_list')
        /\ flush_old' \in BOOLEAN
    BY <1>1, <1>3, <2>2, <2>3 DEF TypeOK
  <2>7. freed' \in Seq([queues : Seq(Queues), skbs : Seq(Seq(Seq(Nat)))])
    BY <1>1, <1>3 DEF TypeOK
  <2>8. TypeOK'
    BY <1>3, <2>2, <2>3, <2>6, <2>7 DEF TypeOK
  <2> QED
    BY <1>3, <2>4, <2>5, <2>8 DEF IInv
<1>12. CASE ~(gro_count < MAX_GRO_SKBS)
  <2>0. gro_count \in Nat /\ MAX_GRO_SKBS \in Nat /\ gro_count >= MAX_GRO_SKBS
        /\ gro_count = Len(gro_list) /\ MAX_GRO_SKBS > 0
    BY <1>1, <1>12, MaxGroSkbsAssumption DEF TypeOK, PoolInv
  <2>1. old \in QueueType
    <3>1. Len(gro_list) \in 1..Len(gro_list)
      BY <2>0
    <3> QED
      BY <1>1, <3>1, Basics
  <2>2. empty \in QueueType /\ pass \in Seq(Seq(Nat))
    <3> HIDE DEF old
    <3>1. old.items \in Seq(SkbType)
      BY <2>1 DEF QueueType
    <3>2. Len(old.items) \in 0..Len(old.items)
      BY <3>1, LenProperties
    <3> QED
      BY <2>1, <3>1, <3>2, CompleteType, PktsOfType
  <2> HIDE DEF empty, pass, last
  <2>3. PICK l, k, list, rest, new :
          /\ l = last /\ k = keep /\ list = <<entry>> \o k
          /\ rest = <<l>> \o RemoveAt(idle, i)
          /\ new = [ofo EXCEPT ![idle[i]] = held, ![l] = empty]
    OBVIOUS
  <2>4. gro_list' = list /\ idle' = rest /\ ofo' = new /\ gro_count' = gro_count
        /\ out' = out \o pass
    BY <1>2, <1>12, <2>3
  <2>5. /\ new \in [Queues -> QueueType] /\ rest \in Seq(Queues)
        /\ list \in Seq(EntryType) /\ Len(list) = gro_count
        /\ Headed(list, new) /\ PoolOf(list, rest)
    <3>1. l = gro_list[Len(gro_list)].q
      BY <2>3 DEF last
    <3>2. GoodHold(list, rest, new, gro_count)
      BY <1>1, <1>5, <1>8, <1>9, <1>10, <2>0, <2>2, <2>3, <3>1, HoldEvict
    <3> QED
      BY <3>2 DEF GoodHold
  <2>6. HeadIsQueueHead'
    BY <2>4, <2>5 DEF HeadIsQueueHead, Headed
  <2>7. PoolInv'
    BY <2>4, <2>5 DEF PoolInv, PoolOf, QInj, Inj
  <2>8. out' \in Seq(Seq(Nat))
    BY <1>1, <2>2, <2>4, Basics, ConcatProperties
  <2>9. gro_count' \in Nat /\ cursor' \in 0..Len(gro_list') /\ flush_old' \in BOOLEAN
        /\ freed' \in Seq([queues : Seq(Queues), skbs : Seq(Seq(Seq(Nat)))])
    BY <1>1, <1>3, <2>0, <2>4, <2>5 DEF TypeOK
  <2>10. TypeOK'
    BY <1>3, <2>4, <2>5, <2>8, <2>9 DEF TypeOK
  <2> QED
    BY <1>3, <2>6, <2>7, <2>10 DEF IInv
<1> QED
  BY <1>11, <1>12

LEMMA DelKeeps ==
  ASSUME IInv, netif_napi_del
  PROVE  IInv'
<1> DEFINE n     == Len(gro_list)
           skbs  == [i \in 1..n |-> PktsOf(HeldItems[i])]
           entry == [queues |-> PoolSeq, skbs |-> skbs]
<1>1. TypeOK /\ PoolInv /\ ~Deleted
  BY DEF IInv, netif_napi_del
<1>2. /\ freed' = <<entry>> /\ gro_list' = <<>> /\ gro_count' = 0 /\ idle' = <<>>
      /\ rx' = rx /\ out' = out /\ ofo' = ofo /\ cursor' = cursor
      /\ flush_old' = flush_old /\ cursor = 0
  BY DEF netif_napi_del, PoolSeq
<1>3. /\ PoolSeq \in Seq(Queues) /\ Len(PoolSeq) = MAX_GRO_SKBS + 1
      /\ \A i, j \in 1..Len(PoolSeq) : PoolSeq[i] = PoolSeq[j] => i = j
  BY <1>1, PoolSeqProperties
<1>4. skbs \in Seq(Seq(Seq(Nat)))
  <2>1. ASSUME NEW i \in 1..n PROVE PktsOf(HeldItems[i]) \in Seq(Seq(Nat))
    <3> DEFINE queue == ofo[gro_list[i].q]
    <3>1. queue \in QueueType
      BY <1>1, Basics
    <3>2. HeldItems[i] = queue.items
      BY DEF HeldItems
    <3> HIDE DEF queue
    <3>3. queue.items \in Seq(SkbType)
      BY <3>1 DEF QueueType
    <3> QED
      BY <3>2, <3>3, PktsOfType
  <2>2. n \in Nat /\ skbs \in [1..n -> Seq(Seq(Nat))]
    BY <1>1, <2>1, Basics
  <2> QED
    BY <2>2, SeqDef
<1> DEFINE pool == PoolSeq
           T    == [queues : Seq(Queues), skbs : Seq(Seq(Seq(Nat)))]
<1> HIDE DEF skbs
<1>5. entry \in T /\ entry.queues = pool
  BY <1>3, <1>4
<1> HIDE DEF entry, T, pool
<1>6. freed' \in Seq(T) /\ freed'[1] = entry /\ Deleted'
  BY <1>2, <1>5 DEF Deleted
<1>7. TypeOK'
  <2>1. gro_list' \in Seq(EntryType) /\ idle' \in Seq(Queues) /\ gro_count' \in Nat
        /\ cursor' \in 0..Len(gro_list')
    BY <1>2
  <2> QED
    BY <1>1, <1>2, <1>6, <2>1 DEF TypeOK, T
<1>8. HeadIsQueueHead'
  <2>1. Len(gro_list') = 0
    BY <1>2
  <2> QED
    BY <2>1 DEF HeadIsQueueHead
<1>9. FreedInv'
  <2>1. /\ Len(pool) = MAX_GRO_SKBS + 1
        /\ \A i, j \in 1..Len(pool) : pool[i] = pool[j] => i = j
    BY <1>3 DEF pool
  <2>2. freed'[1].queues = pool
    BY <1>5, <1>6
  <2> QED
    BY <1>2, <2>1, <2>2 DEF FreedInv
<1> QED
  BY <1>6, <1>7, <1>8, <1>9 DEF IInv

-----------------------------------------------------------------------------
(* The invariant holds initially and always.                               *)
LEMMA InitIInv ==
  ASSUME Init
  PROVE  IInv
<1> DEFINE n == MAX_GRO_SKBS + 1
<1>1. n \in Nat /\ MAX_GRO_SKBS \in Nat
  BY MaxGroSkbsAssumption
<1>2. \A b \in Garbage : FreshQueue(b) \in QueueType
  <2> SUFFICES ASSUME NEW b \in Garbage PROVE FreshQueue(b) \in QueueType
    OBVIOUS
  <2> DEFINE a == AgeMax
             z == 0
             e == <<>>
  <2>1. /\ a \in Nat /\ b \in BOOLEAN /\ z \in Nat /\ z \in Int
        /\ z \in 0..(SeqRange - 1) /\ e \in Seq(SkbType)
    BY AgeMaxType, GarbageAssumption, SeqRangeAssumption
  <2>2. FreshQueue(b) = [hash |-> z, seq_next |-> z, flushed |-> b, age |-> a,
                         skb_num |-> z, items |-> e]
    BY DEF FreshQueue
  <2> HIDE DEF a, z, e
  <2> QED
    BY <2>1, <2>2 DEF QueueType
<1>3. ofo \in [Queues -> QueueType]
  <2>1. PICK garbage \in [Queues -> Garbage] :
          ofo = [q \in Queues |-> FreshQueue(garbage[q])]
    BY DEF Init
  <2> QED
    BY <1>2, <2>1
<1>4. idle = [i \in 1..n |-> n - i]
  BY Zenon DEF Init
<1> HIDE DEF n
<1>5. idle \in Seq(Queues) /\ Len(idle) = n
  <2>1. idle \in [1..n -> Queues]
    BY <1>1, <1>4 DEF Queues, n
  <2>2. idle \in Seq(Queues)
    BY <1>1, <2>1, SeqDef
  <2> QED
    BY <1>1, <2>1, <2>2, LenProperties
<1>6. \A i, j \in 1..Len(idle) : idle[i] = idle[j] => i = j
  BY <1>1, <1>4, <1>5
<1>7. /\ rx = <<>> /\ out = <<>> /\ freed = <<>> /\ gro_list = <<>> /\ gro_count = 0
      /\ cursor = 0 /\ flush_old = FALSE /\ Len(gro_list) = 0
  BY DEF Init
<1>8. TypeOK
  <2>1. rx \in Seq(Packets) /\ out \in Seq(Seq(Nat)) /\ gro_list \in Seq(EntryType)
    BY <1>7
  <2>2. freed \in Seq([queues : Seq(Queues), skbs : Seq(Seq(Seq(Nat)))])
    <3> DEFINE T == [queues : Seq(Queues), skbs : Seq(Seq(Seq(Nat)))]
    <3>1. freed = <<>>
      BY <1>7
    <3> HIDE DEF T
    <3>2. freed \in Seq(T)
      BY <3>1
    <3> QED
      BY <3>2 DEF T
  <2>3. gro_count \in Nat /\ cursor \in 0..Len(gro_list) /\ flush_old \in BOOLEAN
    <3>1. gro_count = 0 /\ cursor = 0 /\ Len(gro_list) = 0
      BY <1>7
    <3>2. gro_count \in Nat /\ cursor \in 0..Len(gro_list)
      BY <3>1
    <3>3. flush_old \in BOOLEAN
      BY <1>7, Zenon
    <3> QED
      BY <3>2, <3>3
  <2> QED
    BY <1>3, <1>5, <2>1, <2>2, <2>3 DEF TypeOK
<1>9. HeadIsQueueHead
  BY <1>7 DEF HeadIsQueueHead
<1>10. PoolInv
  BY <1>1, <1>5, <1>6, <1>7 DEF PoolInv, n
<1>11. ~Deleted
  BY <1>7 DEF Deleted
<1> QED
  BY <1>8, <1>9, <1>10, <1>11 DEF IInv

LEMMA NextKeepsIInv ==
  ASSUME IInv, [Next]_vars
  PROVE  IInv'
<1>1. ASSUME NEW p \in Packets, napi_gro_receive(p) PROVE IInv'
  <2>1. CASE ReceiveBypass(p)
    BY <2>1, BypassKeeps
  <2>2. CASE ReceiveFound(p)
    BY <2>2, FoundKeeps
  <2>3. CASE ReceiveControl(p)
    BY <2>3, ControlKeeps
  <2>4. CASE ReceiveStale(p)
    BY <2>4, StaleKeeps
  <2>5. CASE ReceiveHold(p)
    BY <2>5, HoldKeeps
  <2> QED
    BY <1>1, <2>1, <2>2, <2>3, <2>4, <2>5 DEF napi_gro_receive
<1>2. ASSUME NEW old \in BOOLEAN, FlushBegin(old) PROVE IInv'
  BY <1>2, FlushBeginKeeps
<1>3. CASE FlushEntry
  BY <1>3, FlushEntryKeeps
<1>4. CASE napi_clean_tcp_ofo_queue
  BY <1>4, CleanKeeps
<1>5. CASE netif_napi_del
  BY <1>5, DelKeeps
<1>6. CASE Tick
  BY <1>6, TickKeeps
<1>7. CASE UNCHANGED vars
  BY <1>7 DEF vars, IInv, TypeOK, HeadIsQueueHead, PoolInv, FreedInv, Deleted
<1> QED
  BY <1>1, <1>2, <1>3, <1>4, <1>5, <1>6, <1>7 DEF Next

LEMMA Invariance == Spec => []IInv
<1>1. Init => IInv
  BY InitIInv
<1>2. IInv /\ [Next]_vars => IInv'
  BY NextKeepsIInv
<1> QED
  BY <1>1, <1>2, PTL DEF Spec

(* Every variable has the shape the code gives it, for any packets.        *)
THEOREM TypeCorrect == Spec => []TypeOK
<1>1. IInv => TypeOK
  BY DEF IInv
<1> QED
  BY <1>1, Invariance, PTL

(* The pool of queues: whatever packets arrive in whatever order, and      *)
(* however flushes, evictions and resets fall between them, each queue is  *)
(* idle or belongs to one flow, gro_list never outgrows MAX_GRO_SKBS, and  *)
(* netif_napi_del frees each queue once.                                   *)
THEOREM PoolCorrect == Spec => []PoolAccounting
<1>1. IInv => PoolAccounting
  BY IInvImplies
<1> QED
  BY <1>1, Invariance, PTL

(* gro_list always holds the first skb of each flow's queue, and the queue *)
(* of a flow in gro_list is never empty (tcp_offload.c:334).               *)
THEOREM HeadCorrect == Spec => []HeadIsQueueHead
<1>1. IInv => HeadIsQueueHead
  BY DEF IInv
<1> QED
  BY <1>1, Invariance, PTL
-----------------------------------------------------------------------------
(* Conservation.  The packets 1..n are spread over what was passed up and  *)
(* the queues of A, each in one place.                                     *)
Spread(passed, A, queues, n) ==
  /\ NoRepeats(passed)
  /\ \A q \in A :
       /\ Distinct(queues[q].items)
       /\ IdsOf(queues[q].items) \cap PacketsIn(passed) = {}
       /\ \A p \in A : p # q => IdsOf(queues[p].items) \cap IdsOf(queues[q].items) = {}
  /\ PacketsIn(passed) \cup UNION {IdsOf(queues[q].items) : q \in A} = 1..n

(* What the queue q accounts for, if it is one of A.                       *)
Share(A, queues, q) == IF q \in A THEN IdsOf(queues[q].items) ELSE {}

(* One step on one queue: more is passed up, N is what was received, and   *)
(* together with what the queue then holds they are what it held.          *)
Moves(passed, A, queues, n, more, B, next, m, q, N) ==
  /\ passed \in Seq(Seq(Nat)) /\ Spread(passed, A, queues, n)
  /\ more \in Seq(Seq(Nat)) /\ NoRepeats(more)
  /\ \A p : p # q => (p \in A <=> p \in B)
  /\ \A p \in A : p # q => next[p].items = queues[p].items
  /\ q \in B => Distinct(next[q].items)
  /\ PacketsIn(more) \cap Share(B, next, q) = {}
  /\ PacketsIn(more) \cup Share(B, next, q) = Share(A, queues, q) \cup N
  /\ N \cap 1..n = {} /\ 1..m = 1..n \cup N

LEMMA SpreadStep ==
  ASSUME NEW passed, NEW A, NEW queues, NEW n, NEW more, NEW B, NEW next, NEW m,
         NEW q, NEW N, Moves(passed, A, queues, n, more, B, next, m, q, N),
         NEW u, u = passed \o more
  PROVE  u \in Seq(Seq(Nat)) /\ Spread(u, B, next, m)
<1> USE DEF Moves
<1> DEFINE H(p) == IdsOf(queues[p].items)
           G(p) == IdsOf(next[p].items)
<1>1. PICK P, M, X, Y : /\ P = PacketsIn(passed) /\ M = PacketsIn(more)
                        /\ X = Share(A, queues, q) /\ Y = Share(B, next, q)
  OBVIOUS
<1>2. /\ NoRepeats(passed) /\ P \cup UNION {H(p) : p \in A} = 1..n
      /\ \A p \in A : Distinct(queues[p].items) /\ H(p) \cap P = {}
      /\ \A p, p2 \in A : p # p2 => H(p) \cap H(p2) = {}
  BY <1>1 DEF Spread
<1>3. \A p \in A : H(p) \subseteq 1..n
  BY <1>2
<1>4. P \subseteq 1..n
  BY <1>2
<1>5. /\ X = IF q \in A THEN H(q) ELSE {}
      /\ Y = IF q \in B THEN G(q) ELSE {}
  BY <1>1 DEF Share
<1>6. M \cap Y = {} /\ M \cup Y = X \cup N /\ N \cap 1..n = {}
  BY <1>1
<1>7. \A p \in A : p # q => G(p) = H(p) /\ p \in B
  OBVIOUS
<1>8. \A p \in B : p # q => p \in A
  OBVIOUS
<1> HIDE DEF H, G
<1>9. X \cap P = {} /\ X \subseteq 1..n /\ \A p \in A : p # q => H(p) \cap X = {}
  BY <1>2, <1>3, <1>5
<1>10. P \cap M = {} /\ P \cap Y = {}
  BY <1>4, <1>6, <1>9
<1>11. \A p \in A : p # q => H(p) \cap M = {} /\ H(p) \cap Y = {}
  BY <1>3, <1>6, <1>9
<1>13. u \in Seq(Seq(Nat)) /\ PacketsIn(u) = P \cup M
  BY <1>1, ConcatPlaces, ConcatPackets
<1>14. NoRepeats(u)
  BY <1>1, <1>2, <1>10, ConcatNoRepeats
<1>15. ASSUME NEW p \in B
       PROVE  /\ Distinct(next[p].items) /\ G(p) \cap PacketsIn(u) = {}
              /\ \A p2 \in B : p2 # p => G(p2) \cap G(p) = {}
  <2>1. CASE p = q
    <3>1. Y = G(p)
      BY <1>5, <2>1
    <3>2. G(p) \cap PacketsIn(u) = {}
      BY <1>6, <1>10, <1>13, <3>1
    <3>3. \A p2 \in B : p2 # p => G(p2) \cap G(p) = {}
      BY <1>7, <1>8, <1>11, <2>1, <3>1
    <3> QED
      BY <2>1, <3>2, <3>3
  <2>2. CASE p # q
    <3>1. p \in A /\ G(p) = H(p) /\ next[p].items = queues[p].items
      BY <1>7, <1>8, <2>2
    <3>2. Distinct(next[p].items) /\ G(p) \cap PacketsIn(u) = {}
      BY <1>2, <1>11, <1>13, <2>2, <3>1
    <3>3. ASSUME NEW p2 \in B, p2 # p PROVE G(p2) \cap G(p) = {}
      <4>1. CASE p2 = q
        BY <1>5, <1>11, <2>2, <3>1, <4>1
      <4>2. CASE p2 # q
        BY <1>2, <1>7, <1>8, <3>1, <3>3, <4>2
      <4> QED
        BY <4>1, <4>2
    <3> QED
      BY <3>2, <3>3
  <2> QED
    BY <2>1, <2>2
<1>16. PacketsIn(u) \cup UNION {G(p) : p \in B} = 1..m
  <2>1. 1..m = 1..n \cup N
    OBVIOUS
  <2>2. ASSUME NEW p \in B PROVE G(p) \subseteq 1..n \cup N
    <3>1. CASE p = q
      BY <1>5, <1>6, <1>9, <3>1
    <3>2. CASE p # q
      BY <1>3, <1>7, <1>8, <3>2
    <3> QED
      BY <3>1, <3>2
  <2>3. P \cup M \subseteq 1..n \cup N
    BY <1>4, <1>6, <1>9
  <2>4. ASSUME NEW x \in 1..n \cup N, x \notin P, x \notin M
        PROVE  \E p \in B : x \in G(p)
    <3>1. CASE x \in Y
      BY <1>5, <3>1
    <3>2. CASE x \notin Y
      <4>1. x \notin X /\ x \notin N
        BY <1>6, <2>4, <3>2
      <4>2. PICK p \in A : x \in H(p)
        BY <1>2, <2>4, <4>1
      <4>3. p # q
        BY <1>5, <4>1, <4>2
      <4> QED
        BY <1>7, <4>2, <4>3
    <3> QED
      BY <3>1, <3>2
  <2> HIDE DEF G
  <2>5. P \cup M \cup UNION {G(p) : p \in B} = 1..n \cup N
    BY <2>2, <2>3, <2>4
  <2> QED
    BY <1>13, <2>1, <2>5
<1>17. Spread(u, B, next, m)
  BY <1>14, <1>15, <1>16 DEF Spread, G
<1> QED
  BY <1>13, <1>17

(* Piles without a packet in two of them.                                  *)
LEMMA PilesEachOnce ==
  ASSUME NEW piles \in Seq(Seq(Seq(Nat))), NEW ids,
         \A i \in 1..Len(piles) : NoRepeats(piles[i]),
         \A i, j \in 1..Len(piles) :
           i # j => PacketsIn(piles[i]) \cap PacketsIn(piles[j]) = {},
         \A x : x \in ids <=> \E i \in 1..Len(piles) : x \in PacketsIn(piles[i])
  PROVE  EachInOnePlace(piles, ids)
<1> DEFINE at(p) == piles[p[1]][p[2]][p[3]]
           spot(i, j, k) == /\ i \in 1..Len(piles) /\ j \in 1..Len(piles[i])
                            /\ k \in 1..Len(piles[i][j])
<1>1. ASSUME NEW p \in Places(piles)
      PROVE  \E i, j, k : /\ i \in 1..Len(piles) /\ j \in 1..Len(piles[i])
                          /\ k \in 1..Len(piles[i][j]) /\ p = <<i, j, k>>
                          /\ at(p) = piles[i][j][k]
  <2>1. PICK i \in 1..Len(piles) :
          p \in UNION {{<<i, j, k>> : k \in 1..Len(piles[i][j])} : j \in 1..Len(piles[i])}
    BY Zenon DEF Places
  <2>2. PICK j \in 1..Len(piles[i]) : p \in {<<i, j, k>> : k \in 1..Len(piles[i][j])}
    BY <2>1, Zenon
  <2>3. PICK k \in 1..Len(piles[i][j]) : p = <<i, j, k>>
    BY <2>2, Zenon
  <2>4. p[1] = i /\ p[2] = j /\ p[3] = k
    BY <2>3
  <2> QED
    BY <2>3, <2>4
<1>2. ASSUME NEW i \in 1..Len(piles), NEW j \in 1..Len(piles[i]),
             NEW k \in 1..Len(piles[i][j])
      PROVE  <<i, j, k>> \in Places(piles) /\ at(<<i, j, k>>) = piles[i][j][k]
  <2> DEFINE row(a, b) == {<<a, b, c>> : c \in 1..Len(piles[a][b])}
             pile(a)   == UNION {row(a, b) : b \in 1..Len(piles[a])}
  <2>1. <<i, j, k>> \in row(i, j)
    OBVIOUS
  <2>2. Places(piles) = UNION {pile(a) : a \in 1..Len(piles)}
    BY DEF Places
  <2> HIDE DEF row
  <2>3. <<i, j, k>> \in pile(i)
    BY <2>1
  <2> HIDE DEF pile
  <2>4. <<i, j, k>> \in Places(piles)
    BY <2>2, <2>3
  <2> QED
    BY <2>4
<1>3. ASSUME NEW i \in 1..Len(piles), NEW j \in 1..Len(piles[i]),
             NEW k \in 1..Len(piles[i][j])
      PROVE  piles[i][j][k] \in PacketsIn(piles[i])
  <2>1. PICK pile : pile = piles[i]
    OBVIOUS
  <2>2. pile \in Seq(Seq(Nat))
    BY <2>1, ElementOfSeq
  <2>3. pile[j][k] \in PacketsIn(pile)
    BY <2>1, <2>2, PileType
  <2> QED
    BY <2>1, <2>3
<1>6. \A i, j, k : /\ i \in 1..Len(piles) /\ j \in 1..Len(piles[i])
                   /\ k \in 1..Len(piles[i][j])
                   => piles[i][j][k] \in PacketsIn(piles[i])
  BY <1>3
<1>7. \A i, j, k : spot(i, j, k) => \E p \in Places(piles) : at(p) = piles[i][j][k]
  <2> SUFFICES ASSUME NEW i, NEW j, NEW k, spot(i, j, k)
               PROVE  \E p \in Places(piles) : at(p) = piles[i][j][k]
    OBVIOUS
  <2>1. <<i, j, k>> \in Places(piles) /\ at(<<i, j, k>>) = piles[i][j][k]
    BY <1>2
  <2> HIDE DEF at
  <2> QED
    BY <2>1
<1> HIDE DEF at
<1>4. {at(p) : p \in Places(piles)} = ids
  <2>1. ASSUME NEW p \in Places(piles) PROVE at(p) \in ids
    <3>1. PICK i, j, k : /\ i \in 1..Len(piles) /\ j \in 1..Len(piles[i])
                         /\ k \in 1..Len(piles[i][j]) /\ p = <<i, j, k>>
                         /\ at(p) = piles[i][j][k]
      BY <1>1
    <3>2. piles[i][j][k] \in PacketsIn(piles[i])
      BY <1>6, <3>1
    <3> QED
      BY <3>1, <3>2
  <2>2. ASSUME NEW x \in ids PROVE \E p \in Places(piles) : x = at(p)
    <3>1. PICK i \in 1..Len(piles) : x \in PacketsIn(piles[i])
      OBVIOUS
    <3>2. PICK j \in 1..Len(piles[i]) : \E k \in 1..Len(piles[i][j]) : piles[i][j][k] = x
      BY <3>1, Zenon DEF PacketsIn
    <3>3. PICK k \in 1..Len(piles[i][j]) : piles[i][j][k] = x
      BY <3>2
    <3> QED
      <4>1. \E p \in Places(piles) : at(p) = piles[i][j][k]
        <5>1. spot(i, j, k)
          BY <3>1, <3>2, <3>3
        <5> HIDE DEF spot
        <5> QED
          BY <1>7, <5>1
      <4> QED
        BY <3>3, <4>1
  <2> QED
    BY <2>1, <2>2
<1>5. ASSUME NEW p \in Places(piles), NEW q \in Places(piles), at(p) = at(q)
      PROVE  p = q
  <2>1. PICK i, j, k : /\ i \in 1..Len(piles) /\ j \in 1..Len(piles[i])
                       /\ k \in 1..Len(piles[i][j]) /\ p = <<i, j, k>> /\ at(p) = piles[i][j][k]
    BY <1>1
  <2>2. PICK a, b, c : /\ a \in 1..Len(piles) /\ b \in 1..Len(piles[a])
                       /\ c \in 1..Len(piles[a][b]) /\ q = <<a, b, c>> /\ at(q) = piles[a][b][c]
    BY <1>1
  <2>3. at(p) \in PacketsIn(piles[i]) /\ at(p) \in PacketsIn(piles[a])
    <3>1. piles[i][j][k] \in PacketsIn(piles[i])
      BY <1>6, <2>1, Zenon
    <3>2. piles[a][b][c] \in PacketsIn(piles[a])
      BY <1>6, <2>2, Zenon
    <3> QED
      BY <1>5, <2>1, <2>2, <3>1, <3>2
  <2>4. i = a
    BY <2>1, <2>2, <2>3
  <2>5. PICK pile : pile = piles[i]
    OBVIOUS
  <2>6. NoRepeats(pile)
    BY <2>1, <2>5
  <2>7. /\ j \in 1..Len(pile) /\ b \in 1..Len(pile)
        /\ k \in 1..Len(pile[j]) /\ c \in 1..Len(pile[b])
    BY <2>1, <2>2, <2>4, <2>5
  <2>8. pile[j][k] = pile[b][c]
    BY <1>5, <2>1, <2>2, <2>4, <2>5
  <2>9. j = b /\ k = c
    BY <2>6, <2>7, <2>8, SamePlace
  <2> QED
    BY <2>1, <2>2, <2>4, <2>9
<1> QED
  BY <1>4, <1>5, Zenon DEF EachInOnePlace, at

(* A packet of its own.                                                    *)
LEMMA OwnPacket ==
  ASSUME NEW id \in Nat
  PROVE  /\ <<id>> \in Seq(Nat) /\ <<<<id>>>> \in Seq(Seq(Nat))
         /\ NoRepeats(<<<<id>>>>) /\ PacketsIn(<<<<id>>>>) = {id}
<1>1. PICK p : p = <<id>>
  OBVIOUS
<1>2. p \in Seq(Nat) /\ Len(p) = 1 /\ p[1] = id
  BY <1>1
<1>3. /\ <<p>> \in Seq(Seq(Nat))
      /\ PacketsIn(<<p>>) = {x \in Nat : \E k \in 1..Len(p) : p[k] = x}
      /\ NoRepeats(<<p>>) <=> \A k, l \in 1..Len(p) : p[k] = p[l] => k = l
  BY <1>2, OnePile
<1>4. 1..Len(p) = {1}
  BY <1>2
<1>5. NoRepeats(<<p>>) /\ PacketsIn(<<p>>) = {id}
  BY <1>2, <1>3, <1>4
<1> QED
  BY <1>1, <1>2, <1>3, <1>5

LEMMA SkbOfOwn ==
  ASSUME NEW p \in Packets, NEW id \in Nat, NEW skb, skb = SkbOf(p, id)
  PROVE  /\ skb \in SkbType /\ skb.pkts = <<id>>
         /\ Distinct(<<skb>>) /\ IdsOf(<<skb>>) = {id}
<1>1. skb \in SkbType /\ skb.pkts = <<id>>
  BY SkbOfType DEF SkbOf
<1>2. /\ IdsOf(<<skb>>) = PacketsIn(<<skb.pkts>>)
      /\ Distinct(<<skb>>) <=> NoRepeats(<<skb.pkts>>)
  BY <1>1, OneSkb
<1> QED
  BY <1>1, <1>2, OwnPacket

LEMMA NoPile ==
  /\ <<>> \in Seq(Seq(Nat)) /\ NoRepeats(<<>>) /\ PacketsIn(<<>>) = {}
<1>1. 1..Len(<<>>) = {}
  OBVIOUS
<1>2. NoRepeats(<<>>)
  BY <1>1 DEF NoRepeats
<1>3. PacketsIn(<<>>) = {}
  BY <1>1 DEF PacketsIn
<1> QED
  BY <1>2, <1>3

-----------------------------------------------------------------------------
(* The queues of the flows in a list of entries.                           *)
Attached(list) == {list[e].q : e \in 1..Len(list)}

LEMMA AttachedSame ==
  ASSUME NEW s, NEW t, Len(t) = Len(s), \A e \in 1..Len(s) : t[e].q = s[e].q
  PROVE  Attached(t) = Attached(s)
BY DEF Attached

LEMMA AttachedRemove ==
  ASSUME NEW s \in Seq(EntryType), QInj(s), NEW k \in 1..Len(s),
         NEW t, t = RemoveAt(s, k)
  PROVE  Attached(t) = Attached(s) \ {s[k].q}
<1>1. Len(s) \in Nat
  BY LenProperties
<1>2. /\ Len(t) = Len(s) - 1
      /\ \A j \in 1..(Len(s) - 1) : t[j] = IF j < k THEN s[j] ELSE s[j + 1]
  BY RemoveAtProperties
<1>3. ASSUME NEW j \in 1..Len(t) PROVE t[j].q \in Attached(s) \ {s[k].q}
  <2>1. PICK m \in 1..Len(s) : m # k /\ t[j] = s[m]
    <3>1. CASE j < k
      BY <1>1, <1>2, <3>1
    <3>2. CASE ~(j < k)
      <4>1. j + 1 \in 1..Len(s) /\ j + 1 # k /\ t[j] = s[j + 1]
        BY <1>1, <1>2, <3>2
      <4> QED
        BY <4>1
    <3> QED
      BY <3>1, <3>2
  <2>2. s[m].q # s[k].q
    BY <2>1 DEF QInj
  <2> QED
    BY <2>1, <2>2 DEF Attached
<1>4. ASSUME NEW m \in 1..Len(s), s[m].q # s[k].q PROVE \E j \in 1..Len(t) : t[j].q = s[m].q
  <2>1. m # k
    BY <1>4
  <2>2. CASE m < k
    <3>1. m \in 1..Len(t) /\ t[m] = s[m]
      BY <1>1, <1>2, <2>2
    <3> QED
      BY <3>1
  <2>3. CASE ~(m < k)
    <3>1. m - 1 \in 1..Len(t) /\ ~(m - 1 < k) /\ (m - 1) + 1 = m
      BY <1>1, <1>2, <2>1, <2>3
    <3>2. t[m - 1] = s[m]
      BY <1>2, <3>1
    <3> QED
      BY <3>1, <3>2
  <2> QED
    BY <2>2, <2>3
<1>5. Attached(t) \subseteq Attached(s) \ {s[k].q}
  BY <1>3 DEF Attached
<1>6. Attached(s) \ {s[k].q} \subseteq Attached(t)
  BY <1>4 DEF Attached
<1> QED
  BY <1>5, <1>6

LEMMA AttachedFront ==
  ASSUME NEW s \in Seq(EntryType), QInj(s), Len(s) > 0, NEW t, t = Front(s)
  PROVE  Attached(t) = Attached(s) \ {s[Len(s)].q}
<1>1. Len(s) \in Nat /\ Len(s) \in 1..Len(s)
  BY LenProperties
<1>2. /\ Len(t) = Len(s) - 1 /\ \A j \in 1..(Len(s) - 1) : t[j] = s[j]
  <2>1. t = SubSeq(s, 1, Len(s) - 1)
    BY DEF Front
  <2>2. PICK n : n = Len(s) - 1
    OBVIOUS
  <2>3. n \in Nat /\ n <= Len(s) /\ n + 1 - 1 = n /\ \A j \in 1..n : s[j] \in EntryType
    BY <1>1, <2>2, ElementOfSeq
  <2>4. /\ Len(SubSeq(s, 1, n)) = n /\ \A j \in 1..n : SubSeq(s, 1, n)[j] = s[j]
    BY <1>1, <2>3, SubSeqProperties
  <2> QED
    BY <2>1, <2>2, <2>4
<1>3. \A j \in 1..Len(t) : t[j] = s[j] /\ j \in 1..Len(s) /\ s[j].q # s[Len(s)].q
  BY <1>1, <1>2 DEF QInj
<1>4. \A m \in 1..Len(s) : s[m].q # s[Len(s)].q => m \in 1..Len(t) /\ t[m] = s[m]
  BY <1>1, <1>2
<1> QED
  BY <1>3, <1>4 DEF Attached

LEMMA AttachedCons ==
  ASSUME NEW s \in Seq(EntryType), NEW x \in EntryType, NEW t, t = <<x>> \o s
  PROVE  Attached(t) = Attached(s) \cup {x.q}
<1>1. Len(s) \in Nat
  BY LenProperties
<1>2. /\ Len(t) = Len(s) + 1 /\ t[1] = x
      /\ \A j \in 1..(Len(s) + 1) : j # 1 => t[j] = s[j - 1]
  BY ConsProperties
<1>3. \A j \in 1..Len(t) : j # 1 => j - 1 \in 1..Len(s) /\ t[j] = s[j - 1]
  BY <1>1, <1>2
<1>4. ASSUME NEW m \in 1..Len(s) PROVE m + 1 \in 1..Len(t) /\ t[m + 1] = s[m]
  <2>1. m + 1 \in 1..(Len(s) + 1) /\ m + 1 # 1 /\ (m + 1) - 1 = m
    BY <1>1
  <2> QED
    BY <1>2, <2>1
<1>5. Attached(t) \subseteq Attached(s) \cup {x.q}
  BY <1>2, <1>3 DEF Attached
<1>6. Attached(s) \subseteq Attached(t)
  BY <1>4 DEF Attached
<1>7. x.q \in Attached(t)
  <2>1. 1 \in 1..Len(t)
    BY <1>1, <1>2
  <2> QED
    BY <1>2, <2>1 DEF Attached
<1> QED
  BY <1>5, <1>6, <1>7

-----------------------------------------------------------------------------
(* Spread packets are each in one place, as Conservation says.             *)
LEMMA SpreadConserves ==
  ASSUME IInv, ~Deleted, Spread(out, Attached(gro_list), ofo, Len(rx))
  PROVE  Conservation
<1> DEFINE held == [i \in 1..Len(gro_list) |-> PktsOf(HeldItems[i])]
           m    == Len(gro_list)
           H(i) == ofo[gro_list[i].q].items
<1>1. /\ TypeOK /\ PoolInv /\ m \in Nat /\ out \in Seq(Seq(Nat))
      /\ \A i \in 1..m : gro_list[i].q \in Queues /\ ofo[gro_list[i].q] \in QueueType
  BY Basics DEF IInv
<1>2. \A i \in 1..m : held[i] = PktsOf(H(i))
  BY DEF HeldItems
<1>3. ASSUME NEW i \in 1..m
      PROVE  held[i] \in Seq(Seq(Nat)) /\ NoRepeats(held[i]) /\ PacketsIn(held[i]) = IdsOf(H(i))
  <2>1. H(i) \in Seq(SkbType)
    BY <1>1 DEF QueueType
  <2>2. Distinct(H(i))
    BY DEF Spread, Attached
  <2> QED
    BY <1>2, <2>1, <2>2, PktsOfType DEF Distinct, IdsOf
<1>4. held \in Seq(Seq(Seq(Nat))) /\ Len(held) = m
  <2>1. held \in [1..m -> Seq(Seq(Nat))]
    BY <1>3
  <2>2. held \in Seq(Seq(Seq(Nat)))
    BY <1>1, <2>1, SeqDef
  <2> QED
    BY <1>1, <2>1, <2>2, LenProperties
<1>5. Piles = (held \o <<>>) \o <<out>>
  BY DEF Piles
<1> HIDE DEF held
<1>6. held \o <<>> = held
  BY <1>4, ConcatEmptySeq
<1>7. PICK piles : piles = held \o <<out>>
  OBVIOUS
<1>8. /\ piles \in Seq(Seq(Seq(Nat))) /\ Len(piles) = m + 1
      /\ \A i \in 1..m : piles[i] = held[i]
      /\ piles[m + 1] = out
  <2>1. <<out>> \in Seq(Seq(Seq(Nat))) /\ Len(<<out>>) = 1 /\ <<out>>[1] = out
    BY <1>1
  <2>2. /\ piles \in Seq(Seq(Seq(Nat))) /\ Len(piles) = Len(held) + Len(<<out>>)
        /\ \A i \in 1..(Len(held) + Len(<<out>>)) :
             piles[i] = IF i <= Len(held) THEN held[i] ELSE <<out>>[i - Len(held)]
    BY <1>4, <1>7, <2>1, ConcatProperties
  <2>3. (m + 1) - m = 1 /\ m + 1 \in 1..(m + 1)
    BY <1>1
  <2> HIDE DEF m
  <2>4. \A i \in 1..m : i \in 1..(m + 1) /\ i <= m
    BY <1>1
  <2>5. \A i \in 1..(m + 1) : piles[i] = IF i <= m THEN held[i] ELSE <<out>>[i - m]
    BY <1>4, <2>1, <2>2
  <2>6. piles[m + 1] = <<out>>[(m + 1) - m]
    BY <1>1, <2>3, <2>5
  <2> QED
    BY <1>4, <2>1, <2>2, <2>3, <2>4, <2>5, <2>6
<1>9. Piles = piles
  BY <1>5, <1>6, <1>7
<1>10. /\ NoRepeats(out) /\ \A i \in 1..m : IdsOf(H(i)) \cap PacketsIn(out) = {}
       /\ \A i, j \in 1..m : i # j => IdsOf(H(i)) \cap IdsOf(H(j)) = {}
  <2>1. \A i, j \in 1..m : i # j => gro_list[i].q # gro_list[j].q
    BY <1>1 DEF PoolInv
  <2> QED
    BY <2>1 DEF Spread, Attached
<1>11. ASSUME NEW x
       PROVE  x \in Ids <=> x \in PacketsIn(out) \/ \E i \in 1..m : x \in IdsOf(H(i))
  BY DEF Spread, Attached, Ids
<1> HIDE DEF m, H
<1>12. \A i \in 1..(m + 1) : i \in 1..m \/ i = m + 1
  BY <1>1
<1>13. \A i \in 1..Len(piles) : NoRepeats(piles[i])
  BY <1>3, <1>8, <1>10, <1>12
<1>14. ASSUME NEW i \in 1..Len(piles), NEW j \in 1..Len(piles), i # j
       PROVE  PacketsIn(piles[i]) \cap PacketsIn(piles[j]) = {}
  <2>1. CASE i = m + 1
    <3>1. j \in 1..m
      BY <1>8, <1>12, <1>14, <2>1
    <3> QED
      BY <1>3, <1>8, <1>10, <2>1, <3>1
  <2>2. CASE j = m + 1
    <3>1. i \in 1..m
      BY <1>8, <1>12, <1>14, <2>2
    <3> QED
      BY <1>3, <1>8, <1>10, <2>2, <3>1
  <2>3. CASE i # m + 1 /\ j # m + 1
    <3>1. i \in 1..m /\ j \in 1..m
      BY <1>8, <1>12, <2>3
    <3> QED
      BY <1>3, <1>8, <1>10, <1>14, <3>1
  <2> QED
    BY <2>1, <2>2, <2>3
<1>15. ASSUME NEW x
       PROVE  x \in Ids <=> \E i \in 1..Len(piles) : x \in PacketsIn(piles[i])
  <2>1. m + 1 \in 1..Len(piles) /\ \A i \in 1..m : i \in 1..Len(piles)
    BY <1>1, <1>8
  <2> QED
    BY <1>3, <1>8, <1>11, <1>12, <2>1
<1>16. EachInOnePlace(piles, Ids)
  BY <1>8, <1>13, <1>14, <1>15, PilesEachOnce
<1> QED
  BY <1>9, <1>16 DEF Conservation

-----------------------------------------------------------------------------
(* The steps the engine takes, in these terms.                             *)
LEMMA Another ==
  ASSUME NEW n \in Nat
  PROVE  {n + 1} \cap 1..n = {} /\ 1..(n + 1) = 1..n \cup {n + 1} /\ n + 1 \in Nat
OBVIOUS

LEMMA SpreadSame ==
  ASSUME NEW passed, NEW A, NEW queues, NEW n, Spread(passed, A, queues, n), NEW next,
         \A q \in A : next[q].items = queues[q].items
  PROVE  Spread(passed, A, next, n)
BY DEF Spread

(* A packet is received and passed up at once.                             *)
LEMMA SpreadPass ==
  ASSUME NEW passed \in Seq(Seq(Nat)), NEW A, A \subseteq Nat, NEW queues, NEW n \in Nat,
         Spread(passed, A, queues, n), NEW next,
         \A q \in A : next[q].items = queues[q].items
  PROVE  Spread(Append(passed, <<n + 1>>), A, next, n + 1)
<1>1. PICK q, N, more : q = -1 /\ N = {n + 1} /\ more = <<<<n + 1>>>>
  OBVIOUS
<1>2. q \notin A
  BY <1>1
<1>3. Share(A, queues, q) = {} /\ Share(A, next, q) = {}
  BY <1>2 DEF Share
<1>4. more \in Seq(Seq(Nat)) /\ NoRepeats(more) /\ PacketsIn(more) = N
  BY <1>1, OwnPacket, Another
<1>5. N \cap 1..n = {} /\ 1..(n + 1) = 1..n \cup N
  BY <1>1, Another
<1>6. Append(passed, <<n + 1>>) = passed \o more
  <2>1. PICK x : x = <<n + 1>>
    OBVIOUS
  <2>2. x \in Seq(Nat)
    BY <2>1, OwnPacket, Another
  <2>3. Append(passed, x) = passed \o <<x>>
    BY <2>2, AppendIsConcat
  <2> QED
    BY <1>1, <2>1, <2>3
<1>7. PICK u, m : u = passed \o more /\ m = n + 1
  OBVIOUS
<1>9. PacketsIn(more) \cap Share(A, next, q) = {}
  BY <1>3
<1>10. PacketsIn(more) \cup Share(A, next, q) = Share(A, queues, q) \cup N
  BY <1>3, <1>4
<1>11. \A p \in A : p # q => next[p].items = queues[p].items
  OBVIOUS
<1>12. q \in A => Distinct(next[q].items)
  BY <1>2
<1>13. 1..m = 1..n \cup N
  BY <1>5, <1>7
<1>14. Moves(passed, A, queues, n, more, A, next, m, q, N)
  BY <1>4, <1>5, <1>9, <1>10, <1>11, <1>12, <1>13, Zenon DEF Moves
<1>15. Spread(u, A, next, m)
  BY <1>7, <1>14, SpreadStep, Zenon
<1> QED
  BY <1>6, <1>7, <1>15

(* A packet is received and held by a queue that held nothing.             *)
LEMMA SpreadJoin ==
  ASSUME NEW passed \in Seq(Seq(Nat)), NEW A, NEW queues, NEW n \in Nat,
         Spread(passed, A, queues, n), NEW next, NEW q, q \notin A,
         \A p \in A : next[p].items = queues[p].items,
         Distinct(next[q].items), IdsOf(next[q].items) = {n + 1}
  PROVE  Spread(passed, A \cup {q}, next, n + 1)
<1>1. PICK B, N, more, m : B = A \cup {q} /\ N = {n + 1} /\ more = <<>> /\ m = n + 1
  OBVIOUS
<1>2. Share(A, queues, q) = {} /\ Share(B, next, q) = N
  BY <1>1 DEF Share
<1>3. more \in Seq(Seq(Nat)) /\ NoRepeats(more) /\ PacketsIn(more) = {}
  BY <1>1, NoPile
<1>4. N \cap 1..n = {} /\ 1..m = 1..n \cup N
  BY <1>1, Another
<1>5. passed \o more = passed
  BY <1>1, ConcatEmptySeq
<1>6. \A p : p # q => (p \in A <=> p \in B)
  BY <1>1
<1>7. PacketsIn(more) \cap Share(B, next, q) = {}
  BY <1>3
<1>8. PacketsIn(more) \cup Share(B, next, q) = Share(A, queues, q) \cup N
  BY <1>2, <1>3
<1>9. \A p \in A : p # q => next[p].items = queues[p].items
  OBVIOUS
<1>10. q \in B => Distinct(next[q].items)
  OBVIOUS
<1>11. Moves(passed, A, queues, n, more, B, next, m, q, N)
  BY <1>3, <1>4, <1>6, <1>7, <1>8, <1>9, <1>10, Zenon DEF Moves
<1>12. Spread(passed, B, next, m)
  BY <1>5, <1>11, SpreadStep, Zenon
<1> QED
  BY <1>1, <1>12

CutInTwo(s, k, a, b) ==
  /\ s \in Seq(SkbType) /\ k \in 0..Len(s)
  /\ a = SubSeq(s, 1, k) /\ b = SubSeq(s, k + 1, Len(s))

LEMMA FrontAndRest ==
  ASSUME NEW s, NEW k, NEW a, NEW b, CutInTwo(s, k, a, b)
  PROVE  a \in Seq(SkbType) /\ b \in Seq(SkbType) /\ Line(a, b) = s
<1> USE DEF CutInTwo
<1>1. Len(s) \in Nat /\ k \in Nat
  BY LenProperties
<1>2. a \in Seq(SkbType)
  <2>1. 1 \in 1..(Len(s) + 1) /\ k \in (1 - 1)..Len(s)
    BY <1>1
  <2> QED
    BY <2>1, PartProperties
<1>3. b \in Seq(SkbType)
  <2>1. k + 1 \in 1..(Len(s) + 1) /\ Len(s) \in ((k + 1) - 1)..Len(s)
    BY <1>1
  <2> QED
    BY <2>1, PartProperties
<1>4. a \o b = s
  <2>1. 1 \in 1..(Len(s) + 1) /\ k \in (1 - 1)..Len(s) /\ Len(s) \in k..Len(s)
    BY <1>1
  <2>2. a \o b = SubSeq(s, 1, Len(s))
    BY <2>1, ConcatAdjacentSubSeq
  <2> QED
    BY <2>2, SubSeqFull
<1> QED
  BY <1>2, <1>3, <1>4 DEF Line

(* A queue passes a prefix up; it may leave when that is all it held.      *)
LEMMA SpreadFlush ==
  ASSUME NEW passed \in Seq(Seq(Nat)), NEW A, NEW queues, NEW n \in Nat,
         Spread(passed, A, queues, n), NEW next, NEW q \in A,
         queues[q].items \in Seq(SkbType), NEW k \in 0..Len(queues[q].items),
         next[q].items = SubSeq(queues[q].items, k + 1, Len(queues[q].items)),
         \A p \in A : p # q => next[p].items = queues[p].items,
         NEW B, B = A \/ (B = A \ {q} /\ next[q].items = <<>>),
         NEW u, u = passed \o PktsOf(SubSeq(queues[q].items, 1, k))
  PROVE  u \in Seq(Seq(Nat)) /\ Spread(u, B, next, n)
<1>1. PICK s, a, b, N, more : /\ s = queues[q].items /\ a = SubSeq(s, 1, k)
                              /\ b = SubSeq(s, k + 1, Len(s)) /\ N = {} /\ more = PktsOf(a)
  OBVIOUS
<1>2. s \in Seq(SkbType) /\ Len(s) \in Nat /\ k \in 0..Len(s) /\ next[q].items = b
  BY <1>1, LenProperties
<1>3. a \in Seq(SkbType) /\ b \in Seq(SkbType) /\ a \o b = s
  <2>2. CutInTwo(s, k, a, b)
    BY <1>1, <1>2, Zenon DEF CutInTwo
  <2> QED
    <3>1. a \in Seq(SkbType) /\ b \in Seq(SkbType) /\ Line(a, b) = s
      BY <2>2, FrontAndRest
    <3> QED
      BY <3>1 DEF Line
<1>5. Distinct(s)
  BY <1>1 DEF Spread
<1>6. /\ Distinct(a) /\ Distinct(b) /\ IdsOf(a) \cap IdsOf(b) = {}
      /\ IdsOf(s) = IdsOf(a) \cup IdsOf(b)
  BY <1>3, <1>5, ConcatIds
<1>7. more \in Seq(Seq(Nat)) /\ NoRepeats(more) /\ PacketsIn(more) = IdsOf(a)
  BY <1>1, <1>3, <1>6, PktsOfType DEF Distinct, IdsOf
<1>8. Share(A, queues, q) = IdsOf(s) /\ Share(B, next, q) = IdsOf(b)
  <2>1. CASE B = A
    BY <1>1, <1>2, <2>1 DEF Share
  <2>2. CASE B = A \ {q} /\ next[q].items = <<>>
    <3>1. b = <<>>
      BY <1>2, <2>2
    <3>2. IdsOf(b) = {}
      <4>1. Len(PktsOf(b)) = 0
        BY <1>3, <3>1, PktsOfType
      <4>2. 1..Len(PktsOf(b)) = {}
        BY <4>1
      <4> QED
        BY <4>2 DEF IdsOf, PacketsIn
    <3> QED
      BY <1>1, <2>2, <3>2 DEF Share
  <2> QED
    BY <2>1, <2>2
<1>9. N \cap 1..n = {} /\ 1..n = 1..n \cup N
  BY <1>1
<1>10. \A p : p # q => (p \in A <=> p \in B)
  OBVIOUS
<1>11. PacketsIn(more) \cap Share(B, next, q) = {}
  BY <1>6, <1>7, <1>8
<1>12. PacketsIn(more) \cup Share(B, next, q) = Share(A, queues, q) \cup N
  BY <1>1, <1>6, <1>7, <1>8
<1>13. q \in B => Distinct(next[q].items)
  BY <1>2, <1>6
<1>14. \A p \in A : p # q => next[p].items = queues[p].items
  OBVIOUS
<1>15. Moves(passed, A, queues, n, more, B, next, n, q, N)
  BY <1>7, <1>9, <1>10, <1>11, <1>12, <1>13, <1>14, Zenon DEF Moves
<1>16. u \in Seq(Seq(Nat)) /\ Spread(u, B, next, n)
  BY <1>1, <1>15, SpreadStep, Zenon
<1> QED
  BY <1>16

(* A queue takes a segment in or passes it up, with some of what it held.  *)
LEMMA SpreadReceive ==
  ASSUME NEW passed \in Seq(Seq(Nat)), NEW A, NEW queues, NEW n \in Nat,
         Spread(passed, A, queues, n), NEW next, NEW q \in A,
         \A p \in A : p # q => next[p].items = queues[p].items,
         NEW r, NEW h, Accounts(r, h, IdsOf(queues[q].items), {n + 1}),
         next[q].items = r.queue.items,
         NEW u, u = passed \o (PktsOf(r.out) \o (IF r.kept THEN <<>> ELSE <<<<n + 1>>>>))
  PROVE  u \in Seq(Seq(Nat)) /\ Spread(u, A, next, n + 1)
<1>1. PICK a, b, own, c, more, N, S, m :
        /\ a = r.out /\ b = r.queue.items /\ c = PktsOf(a)
        /\ own = IF r.kept THEN <<>> ELSE <<<<n + 1>>>>
        /\ more = c \o own /\ N = {n + 1} /\ S = IdsOf(queues[q].items) /\ m = n + 1
  OBVIOUS
<1>2. PICK T : T = IF r.kept THEN S \cup N ELSE S
  OBVIOUS
<1>3. Shares(r, h, T)
  BY <1>1, <1>2 DEF Accounts
<1>4. /\ a \in Seq(SkbType) /\ b \in Seq(SkbType) /\ Distinct(a \o b) /\ IdsOf(a \o b) = T
  BY <1>1, <1>3, SharesParts DEF Line
<1>5. /\ Distinct(a) /\ Distinct(b) /\ IdsOf(a) \cap IdsOf(b) = {}
      /\ T = IdsOf(a) \cup IdsOf(b)
  BY <1>4, ConcatIds
<1>6. c \in Seq(Seq(Nat)) /\ NoRepeats(c) /\ PacketsIn(c) = IdsOf(a)
  BY <1>1, <1>4, <1>5, PktsOfType DEF Distinct, IdsOf
<1>7. S \subseteq 1..n
  BY <1>1 DEF Spread
<1>8. N \cap 1..n = {} /\ 1..m = 1..n \cup N
  BY <1>1, Another
<1>9. Share(A, queues, q) = S /\ Share(A, next, q) = IdsOf(b)
  BY <1>1 DEF Share
<1>10. /\ more \in Seq(Seq(Nat)) /\ NoRepeats(more)
       /\ PacketsIn(more) \cap IdsOf(b) = {} /\ PacketsIn(more) \cup IdsOf(b) = S \cup N
  <2>1. CASE r.kept
    <3>1. more = c
      BY <1>1, <1>6, <2>1, ConcatEmptySeq
    <3> QED
      BY <1>2, <1>5, <1>6, <2>1, <3>1
  <2>2. CASE ~r.kept
    <3>1. own = <<<<n + 1>>>>
      BY <1>1, <2>2
    <3>2. own \in Seq(Seq(Nat)) /\ NoRepeats(own) /\ PacketsIn(own) = N
      <4>1. PICK id : id = n + 1
        OBVIOUS
      <4>2. id \in Nat /\ own = <<<<id>>>> /\ N = {id}
        <5>1. id \in Nat
          BY <4>1
        <5>2. own = <<<<id>>>> /\ N = {id}
          BY <1>1, <3>1, <4>1, Zenon
        <5> QED
          BY <5>1, <5>2
      <4>3. NoRepeats(<<<<id>>>>) /\ <<<<id>>>> \in Seq(Seq(Nat)) /\ PacketsIn(<<<<id>>>>) = {id}
        BY <4>2, OwnPacket, Zenon
      <4> QED
        BY <4>2, <4>3
    <3>3. T = S
      BY <1>2, <2>2
    <3>4. PacketsIn(c) \cap PacketsIn(own) = {} /\ IdsOf(b) \cap N = {}
      BY <1>5, <1>6, <1>7, <1>8, <3>2, <3>3
    <3>5. more \in Seq(Seq(Nat)) /\ PacketsIn(more) = PacketsIn(c) \cup PacketsIn(own)
      BY <1>1, <1>6, <3>2, ConcatPlaces, ConcatPackets
    <3>6. NoRepeats(more)
      BY <1>1, <1>6, <3>2, <3>4, ConcatNoRepeats
    <3> QED
      BY <1>5, <1>6, <3>2, <3>3, <3>4, <3>5, <3>6
  <2> QED
    BY <2>1, <2>2
<1>11. PacketsIn(more) \cap Share(A, next, q) = {}
  BY <1>9, <1>10
<1>12. PacketsIn(more) \cup Share(A, next, q) = Share(A, queues, q) \cup N
  BY <1>9, <1>10
<1>13. q \in A => Distinct(next[q].items)
  BY <1>1, <1>5
<1>14. \A p \in A : p # q => next[p].items = queues[p].items
  OBVIOUS
<1>15. Moves(passed, A, queues, n, more, A, next, m, q, N)
  BY <1>8, <1>10, <1>11, <1>12, <1>13, <1>14, Zenon DEF Moves
<1>16. u \in Seq(Seq(Nat)) /\ Spread(u, A, next, m)
  BY <1>1, <1>15, SpreadStep, Zenon
<1> QED
  BY <1>1, <1>16

-----------------------------------------------------------------------------
(* The invariant behind Conservation, and that every action keeps it.      *)
Accounted == Spread(out, Attached(gro_list), ofo, Len(rx))

CInv ==
  /\ IInv
  /\ ~Deleted => Accounted
  /\ Deleted => Conservation

LEMMA CountsOf ==
  ASSUME CInv, ~Deleted
  PROVE  /\ IInv /\ TypeOK /\ PoolInv /\ HeadIsQueueHead
         /\ Spread(out, Attached(gro_list), ofo, Len(rx))
         /\ out \in Seq(Seq(Nat)) /\ Len(rx) \in Nat
         /\ gro_list \in Seq(EntryType) /\ Len(gro_list) \in Nat /\ QInj(gro_list)
         /\ Attached(gro_list) \subseteq Queues /\ Queues \subseteq Nat
         /\ ofo \in [Queues -> QueueType]
<1>1. IInv /\ TypeOK /\ PoolInv /\ HeadIsQueueHead /\ Accounted
  BY DEF CInv, IInv
<1>2. /\ out \in Seq(Seq(Nat)) /\ gro_list \in Seq(EntryType) /\ Len(gro_list) \in Nat
      /\ ofo \in [Queues -> QueueType] /\ \A e \in 1..Len(gro_list) : gro_list[e].q \in Queues
  BY <1>1, Basics
<1>3. Len(rx) \in Nat
  BY <1>1, LenProperties DEF TypeOK
<1>4. Attached(gro_list) \subseteq Queues
  BY <1>2 DEF Attached
<1>5. Queues \subseteq Nat
  BY MaxGroSkbsAssumption DEF Queues
<1>6. QInj(gro_list)
  BY <1>1 DEF PoolInv, QInj
<1> QED
  BY <1>1, <1>2, <1>3, <1>4, <1>5, <1>6 DEF Accounted

LEMMA AnotherReceived ==
  ASSUME CInv, NEW p \in Packets, Receiving(p)
  PROVE  /\ ~Deleted /\ ~Deleted' /\ Len(rx') = Len(rx) + 1 /\ Len(rx) + 1 \in Nat
         /\ SkbOf(p, Len(rx) + 1) \in SkbType
         /\ SkbOf(p, Len(rx) + 1).pkts = <<Len(rx) + 1>>
         /\ Distinct(<<SkbOf(p, Len(rx) + 1)>>)
         /\ IdsOf(<<SkbOf(p, Len(rx) + 1)>>) = {Len(rx) + 1}
<1>1. ~Deleted
  BY DEF Receiving
<1>2. TypeOK /\ Len(rx) \in Nat /\ Len(rx) + 1 \in Nat
  BY <1>1, CountsOf
<1>3. ~Deleted'
  BY <1>2, ReceivingType
<1>4. Len(rx') = Len(rx) + 1
  <2>1. rx \in Seq(Packets) /\ rx' = Append(rx, p)
    BY <1>2 DEF TypeOK, Receiving
  <2> QED
    BY <2>1, AppendProperties
<1>5. PICK skb, id : id = Len(rx) + 1 /\ skb = SkbOf(p, id)
  OBVIOUS
<1>6. skb \in SkbType /\ skb.pkts = <<id>> /\ Distinct(<<skb>>) /\ IdsOf(<<skb>>) = {id}
  BY <1>2, <1>5, SkbOfOwn
<1> QED
  BY <1>1, <1>2, <1>3, <1>4, <1>5, <1>6

LEMMA AccountedNext ==
  ASSUME NEW u, NEW t, NEW next, NEW m, u = out', t = gro_list', next = ofo', m = Len(rx'),
         Spread(u, Attached(t), next, m)
  PROVE  Accounted'
BY DEF Accounted

LEMMA PassAccounts ==
  ASSUME CInv, NEW p \in Packets, Receiving(p), gro_list' = gro_list,
         out' = Append(out, <<Len(rx) + 1>>),
         \A e \in 1..Len(gro_list) : ofo'[gro_list[e].q].items = ofo[gro_list[e].q].items
  PROVE  Accounted'
<1>1. ~Deleted /\ Len(rx') = Len(rx) + 1
  BY AnotherReceived
<1>2. PICK passed, A, n, next :
        /\ passed = out /\ A = Attached(gro_list) /\ n = Len(rx) /\ next = ofo'
  OBVIOUS
<1>3. /\ passed \in Seq(Seq(Nat)) /\ A \subseteq Nat /\ n \in Nat /\ Spread(passed, A, ofo, n)
  BY <1>1, <1>2, CountsOf
<1>4. \A q \in A : next[q].items = ofo[q].items
  BY <1>2 DEF Attached
<1>5. Spread(Append(passed, <<n + 1>>), A, next, n + 1)
  BY <1>3, <1>4, SpreadPass
<1>6. PICK u, m : u = Append(passed, <<n + 1>>) /\ m = n + 1
  OBVIOUS
<1>7. Spread(u, A, next, m) /\ u = out' /\ m = Len(rx')
  BY <1>1, <1>2, <1>5, <1>6
<1>8. PICK t : t = gro_list'
  OBVIOUS
<1>9. A = Attached(t)
  BY <1>2, <1>8
<1> QED
  BY <1>2, <1>7, <1>8, <1>9, AccountedNext

LEMMA BypassAccounts ==
  ASSUME CInv, NEW p \in Packets, ReceiveBypass(p)
  PROVE  Accounted'
<1>1. /\ Receiving(p) /\ gro_list' = gro_list /\ ofo' = ofo
      /\ out' = Append(out, <<Len(rx) + 1>>)
  BY DEF ReceiveBypass, engine_vars
<1>2. \A e \in 1..Len(gro_list) : ofo'[gro_list[e].q].items = ofo[gro_list[e].q].items
  BY <1>1
<1> QED
  BY <1>1, <1>2, PassAccounts

LEMMA IdleAccounts ==
  ASSUME CInv, NEW p \in Packets, Receiving(p), gro_list' = gro_list,
         NEW i \in 1..Len(idle), NEW queue, ofo' = [ofo EXCEPT ![idle[i]] = queue],
         out' = Append(out, SkbOf(p, Len(rx) + 1).pkts)
  PROVE  Accounted'
<1>1. ~Deleted /\ SkbOf(p, Len(rx) + 1).pkts = <<Len(rx) + 1>>
  BY AnotherReceived
<1>2. TypeOK /\ PoolInv /\ ofo \in [Queues -> QueueType]
  BY <1>1, CountsOf
<1>3. \A e \in 1..Len(gro_list) : gro_list[e].q \in Queues /\ gro_list[e].q # idle[i]
  BY <1>2, Basics DEF PoolInv
<1>4. \A e \in 1..Len(gro_list) : ofo'[gro_list[e].q].items = ofo[gro_list[e].q].items
  BY <1>2, <1>3
<1>5. out' = Append(out, <<Len(rx) + 1>>)
  BY <1>1
<1> QED
  BY <1>4, <1>5, PassAccounts

LEMMA ControlAccounts ==
  ASSUME CInv, NEW p \in Packets, ReceiveControl(p)
  PROVE  Accounted'
<1> DEFINE hash == TcpHash[p.flow]
           i    == IdleIndex(hash)
<1>1. /\ Receiving(p) /\ gro_list' = gro_list
      /\ out' = Append(out, SkbOf(p, Len(rx) + 1).pkts)
      /\ \E queue : ofo' = [ofo EXCEPT ![idle[i]] = queue]
  BY DEF ReceiveControl
<1>2. i \in 1..Len(idle)
  BY <1>1, AnotherReceived, CountsOf, IdleNotEmpty, IdleIndexRange
<1> HIDE DEF i
<1> QED
  BY <1>1, <1>2, IdleAccounts

LEMMA StaleAccounts ==
  ASSUME CInv, NEW p \in Packets, ReceiveStale(p)
  PROVE  Accounted'
<1> DEFINE hash == TcpHash[p.flow]
           i    == IdleIndex(hash)
<1>1. /\ Receiving(p) /\ gro_list' = gro_list
      /\ out' = Append(out, SkbOf(p, Len(rx) + 1).pkts)
      /\ \E queue : ofo' = [ofo EXCEPT ![idle[i]] = queue]
  BY DEF ReceiveStale
<1>2. i \in 1..Len(idle)
  BY <1>1, AnotherReceived, CountsOf, IdleNotEmpty, IdleIndexRange
<1> HIDE DEF i
<1> QED
  BY <1>1, <1>2, IdleAccounts

LEMMA SameItemsAccount ==
  ASSUME CInv, ~Deleted, rx' = rx, out' = out, gro_list' = gro_list,
         \A e \in 1..Len(gro_list) : ofo'[gro_list[e].q].items = ofo[gro_list[e].q].items
  PROVE  Accounted'
<1>1. PICK passed, A, n, next :
        /\ passed = out /\ A = Attached(gro_list) /\ n = Len(rx) /\ next = ofo'
  OBVIOUS
<1>2. Spread(passed, A, ofo, n)
  BY <1>1, CountsOf
<1>3. \A q \in A : next[q].items = ofo[q].items
  BY <1>1 DEF Attached
<1>4. Spread(passed, A, next, n)
  BY <1>2, <1>3, SpreadSame
<1>5. PICK t : t = gro_list'
  OBVIOUS
<1>6. A = Attached(t) /\ passed = out' /\ n = Len(rx')
  BY <1>1, <1>5
<1> QED
  BY <1>1, <1>4, <1>5, <1>6, AccountedNext

LEMMA CleanAccounts ==
  ASSUME CInv, napi_clean_tcp_ofo_queue
  PROVE  Accounted'
<1> DEFINE old(q) == (\E i \in 1..Len(idle) : idle[i] = q) /\ ofo[q].age > CleanTimeout
<1>1. /\ ~Deleted /\ rx' = rx /\ out' = out /\ gro_list' = gro_list
      /\ ofo' = [q \in Queues |-> IF old(q) THEN ResetQueue(ofo[q]) ELSE ofo[q]]
  BY DEF napi_clean_tcp_ofo_queue
<1>2. \A e \in 1..Len(gro_list) : ~old(gro_list[e].q) /\ gro_list[e].q \in Queues
  <2>1. TypeOK /\ PoolInv
    BY <1>1, CountsOf
  <2> QED
    BY <2>1, Basics DEF PoolInv
<1> HIDE DEF old
<1>3. \A e \in 1..Len(gro_list) : ofo'[gro_list[e].q] = ofo[gro_list[e].q]
  BY <1>1, <1>2
<1> QED
  BY <1>1, <1>3, SameItemsAccount

LEMMA TickAccounts ==
  ASSUME CInv, Tick
  PROVE  Accounted'
<1> DEFINE older(a) == IF a < AgeMax THEN a + 1 ELSE a
<1>1. /\ ~Deleted /\ rx' = rx /\ out' = out /\ gro_list' = gro_list
      /\ ofo' = [q \in Queues |-> [ofo[q] EXCEPT !.age = older(ofo[q].age)]]
  BY DEF Tick
<1>2. ofo \in [Queues -> QueueType] /\ \A e \in 1..Len(gro_list) : gro_list[e].q \in Queues
  BY <1>1, CountsOf, Basics
<1> HIDE DEF older
<1>3. ASSUME NEW q \in Queues PROVE ofo'[q].items = ofo[q].items
  <2> DEFINE queue == ofo[q]
             a     == older(queue.age)
  <2>1. queue \in QueueType /\ ofo'[q] = [queue EXCEPT !.age = a]
    BY <1>1, <1>2
  <2> HIDE DEF queue, a
  <2>2. ofo'[q].items = queue.items
    BY <2>1 DEF QueueType
  <2> QED
    BY <2>2 DEF queue
<1> QED
  BY <1>1, <1>2, <1>3, SameItemsAccount

(* The flow's queue takes the segment in, or it is passed up.              *)
LEMMA FoundAccounts ==
  ASSUME CInv, NEW p \in Packets, ReceiveFound(p)
  PROVE  Accounted'
<1> DEFINE e     == EntryOf(p.flow)
           q     == gro_list[e].q
           skb   == SkbOf(p, Len(rx) + 1)
           ctl   == p.kind = "ctl"
           r     == tcp_gro_receive(ofo[q], gro_list[e].head, skb, ctl)
           queue == IF r.kept THEN r.queue ELSE Advance(r.queue, skb)
           tail  == IF r.kept THEN <<>> ELSE <<skb.pkts>>
<1>1. /\ Receiving(p) /\ e # 0
      /\ gro_list' = [gro_list EXCEPT ![e].head = r.head]
      /\ ofo' = [ofo EXCEPT ![q] = queue]
      /\ out' = out \o PktsOf(r.out) \o tail
  BY Zenon DEF ReceiveFound
<1>2. /\ ~Deleted /\ Len(rx') = Len(rx) + 1 /\ skb \in SkbType /\ skb.pkts = <<Len(rx) + 1>>
      /\ Distinct(<<skb>>) /\ IdsOf(<<skb>>) = {Len(rx) + 1}
  BY <1>1, AnotherReceived
<1>3. /\ TypeOK /\ HeadIsQueueHead /\ out \in Seq(Seq(Nat)) /\ Len(rx) \in Nat
      /\ Spread(out, Attached(gro_list), ofo, Len(rx))
      /\ gro_list \in Seq(EntryType) /\ ofo \in [Queues -> QueueType]
      /\ Attached(gro_list) \subseteq Queues
  BY <1>2, CountsOf
<1>4. e \in 1..Len(gro_list)
  BY <1>1, <1>3, EntryOfRange
<1> HIDE DEF e, skb
<1>5. ofo[q] \in QueueType /\ ofo[q].items # <<>> /\ gro_list[e].head = ofo[q].items[1].id
  BY <1>3, <1>4, Basics DEF HeadIsQueueHead
<1>6. q \in Attached(gro_list)
  BY <1>4 DEF Attached
<1>7. Accounts(r, ofo[q].hash, IdsOf(ofo[q].items), {Len(rx) + 1})
  <2>1. PICK old, x, N, S : /\ old = ofo[q] /\ x = gro_list[e].head
                            /\ N = IdsOf(<<skb>>) /\ S = IdsOf(old.items)
    OBVIOUS
  <2>2. old \in QueueType /\ old.items # <<>> /\ x = old.items[1].id
    BY <1>5, <2>1
  <2>3. ctl \in BOOLEAN
    OBVIOUS
  <2>4. Distinct(old.items) /\ S \subseteq 1..Len(rx)
    BY <1>3, <1>6, <2>1 DEF Spread
  <2>5. N \cap S = {}
    BY <1>2, <1>3, <2>1, <2>4
  <2> HIDE DEF ctl
  <2>6. N \cap IdsOf(old.items) = {}
    BY <2>1, <2>5
  <2>7. IdsOf(<<skb>>) \cap IdsOf(old.items) = {}
    BY <2>1, <2>6
  <2>8. Accounts(tcp_gro_receive(old, x, skb, ctl), old.hash, IdsOf(old.items), IdsOf(<<skb>>))
    BY <1>2, <2>2, <2>3, <2>4, <2>7, ReceiveKeepsPackets
  <2> QED
    BY <1>2, <2>1, <2>8
<1> HIDE DEF r
<1>8. r.queue \in QueueType /\ r.out \in Seq(SkbType)
  <2>1. PICK h, T : Shares(r, h, T)
    BY <1>7 DEF Accounts
  <2>2. GoodOutcome(r, h)
    BY <2>1, SharesParts
  <2> QED
    BY <2>2, GoodParts DEF GoodOutcome
<1>9. queue.items = r.queue.items
  BY <1>2, <1>8, AdvanceType
<1> HIDE DEF queue
<1>10. PICK passed, A, n, next, h, x :
         /\ passed = out /\ A = Attached(gro_list) /\ n = Len(rx) /\ next = ofo'
         /\ h = ofo[q].hash /\ x = r.head
  OBVIOUS
<1> HIDE DEF q
<1>11. /\ passed \in Seq(Seq(Nat)) /\ n \in Nat /\ Spread(passed, A, ofo, n) /\ q \in A
       /\ Accounts(r, h, IdsOf(ofo[q].items), {n + 1})
  BY <1>3, <1>6, <1>7, <1>10
<1>12. next[q].items = r.queue.items /\ \A j \in A : j # q => next[j].items = ofo[j].items
  BY <1>1, <1>3, <1>6, <1>9, <1>10
<1>13. PICK u, m : /\ u = passed \o (PktsOf(r.out) \o (IF r.kept THEN <<>> ELSE <<<<n + 1>>>>))
                   /\ m = n + 1
  OBVIOUS
<1>14. Spread(u, A, next, m)
  BY <1>11, <1>12, <1>13, SpreadReceive
<1>15. u = out'
  <2>1. PktsOf(r.out) \in Seq(Seq(Nat))
    BY <1>8, PktsOfType
  <2>2. tail \in Seq(Seq(Nat)) /\ tail = IF r.kept THEN <<>> ELSE <<<<n + 1>>>>
    <3>1. <<skb.pkts>> = <<<<n + 1>>>> /\ skb.pkts \in Seq(Nat)
      BY <1>2, <1>10 DEF SkbType
    <3> QED
      BY <3>1
  <2> HIDE DEF tail
  <2>3. PICK c : c = PktsOf(r.out)
    OBVIOUS
  <2>4. out' = passed \o c \o tail /\ u = passed \o (c \o tail) /\ c \in Seq(Seq(Nat))
    BY <1>1, <1>10, <1>13, <2>1, <2>2, <2>3
  <2>5. PICK d : d = tail
    OBVIOUS
  <2>6. passed \in Seq(Seq(Nat)) /\ c \in Seq(Seq(Nat)) /\ d \in Seq(Seq(Nat))
    BY <1>11, <2>2, <2>4, <2>5
  <2>7. (passed \o c) \o d = passed \o (c \o d)
    BY <2>6, SMTT(30)
  <2> QED
    BY <2>4, <2>5, <2>7, Zenon
<1>16. PICK t : t = gro_list'
  OBVIOUS
<1>17. A = Attached(t)
  <2>1. t = [gro_list EXCEPT ![e].head = x]
    BY <1>1, <1>10, <1>16
  <2>2. Len(t) = Len(gro_list) /\ \A j \in 1..Len(gro_list) : t[j].q = gro_list[j].q
    <3>1. ASSUME NEW j \in 1..Len(gro_list) PROVE t[j].q = gro_list[j].q
      <4>1. gro_list[j] \in EntryType
        BY <1>3, ElementOfSeq
      <4> QED
        BY <1>3, <2>1, <4>1 DEF EntryType
    <3> QED
      BY <1>3, <2>1, <3>1
  <2> QED
    BY <1>10, <2>2, AttachedSame
<1>18. m = Len(rx')
  BY <1>2, <1>10, <1>13
<1> QED
  BY <1>10, <1>14, <1>15, <1>16, <1>17, <1>18, AccountedNext

(* napi_gro_flush passes up a prefix of one flow's queue.                  *)
LEMMA FlushEntryAccounts ==
  ASSUME CInv, FlushEntry
  PROVE  Accounted'
<1> DEFINE q     == gro_list[cursor].q
           old   == ofo[q]
           k     == CompleteCount(old, flush_old)
           queue == Complete(old, k)
<1>1. TypeOK /\ IInv /\ cursor > 0 /\ rx' = rx
  BY DEF CInv, IInv, FlushEntry
<1>2. cursor \in 1..Len(gro_list) /\ flush_old \in BOOLEAN
  <2>1. cursor \in 0..Len(gro_list) /\ flush_old \in BOOLEAN /\ Len(gro_list) \in Nat
    BY <1>1, Basics DEF TypeOK
  <2> QED
    BY <1>1, <2>1
<1>3. ~Deleted
  <2>1. Len(gro_list) # 0
    BY <1>1, <1>2, Basics
  <2> QED
    BY <1>1, <2>1 DEF IInv, FreedInv
<1>4. /\ out \in Seq(Seq(Nat)) /\ Len(rx) \in Nat
      /\ Spread(out, Attached(gro_list), ofo, Len(rx))
      /\ gro_list \in Seq(EntryType) /\ Len(gro_list) \in Nat /\ QInj(gro_list)
      /\ Attached(gro_list) \subseteq Queues /\ ofo \in [Queues -> QueueType]
  BY <1>3, CountsOf
<1>5. /\ ofo' = [ofo EXCEPT ![q] = queue]
      /\ out' = out \o PktsOf(SubSeq(old.items, 1, k))
      /\ \/ /\ queue.items = <<>>
            /\ gro_list' = RemoveAt(gro_list, cursor)
         \/ gro_list' = [gro_list EXCEPT ![cursor].head = queue.items[1].id]
  BY DEF FlushEntry
<1>6. q \in Attached(gro_list)
  BY <1>2 DEF Attached
<1>7. old \in QueueType /\ old.items \in Seq(SkbType)
  BY <1>4, <1>6 DEF QueueType
<1> HIDE DEF old
<1>8. k \in 0..Len(old.items)
  BY <1>2, <1>7, CompleteCountRange
<1> HIDE DEF k
<1>9. queue.items = SubSeq(old.items, k + 1, Len(old.items))
  BY <1>7, <1>8, CompleteType
<1> HIDE DEF queue
<1>10. PICK passed, A, n, next, t :
         /\ passed = out /\ A = Attached(gro_list) /\ n = Len(rx) /\ next = ofo'
         /\ t = gro_list'
  OBVIOUS
<1>11. next[q] = queue /\ \A j \in A : j # q => next[j].items = ofo[j].items
  BY <1>4, <1>5, <1>6, <1>10
<1>12. old = ofo[q]
  BY DEF old
<1>13. Attached(t) = A \/ (Attached(t) = A \ {q} /\ next[q].items = <<>>)
  <2>1. CASE queue.items = <<>> /\ gro_list' = RemoveAt(gro_list, cursor)
    BY <1>2, <1>4, <1>10, <1>11, <2>1, AttachedRemove
  <2>2. CASE gro_list' = [gro_list EXCEPT ![cursor].head = queue.items[1].id]
    <3> DEFINE x == queue.items[1].id
    <3>1. t = [gro_list EXCEPT ![cursor].head = x]
      BY <1>10, <2>2
    <3> HIDE DEF x
    <3>2. ASSUME NEW j \in 1..Len(gro_list) PROVE t[j].q = gro_list[j].q
      <4>1. gro_list[j] \in EntryType
        BY <1>4, ElementOfSeq
      <4> QED
        BY <1>4, <3>1, <4>1 DEF EntryType
    <3>3. Len(t) = Len(gro_list)
      BY <1>4, <3>1
    <3> QED
      BY <1>10, <3>2, <3>3, AttachedSame
  <2> QED
    BY <1>5, <2>1, <2>2
<1> HIDE DEF q
<1>14. PICK B, u : B = Attached(t) /\ u = out'
  OBVIOUS
<1>15. u = passed \o PktsOf(SubSeq(ofo[q].items, 1, k))
  BY <1>5, <1>10, <1>12, <1>14
<1>16. Spread(u, B, next, n)
  <2>1. /\ passed \in Seq(Seq(Nat)) /\ n \in Nat /\ Spread(passed, A, ofo, n) /\ q \in A
    BY <1>4, <1>6, <1>10
  <2>2. /\ ofo[q].items \in Seq(SkbType) /\ k \in 0..Len(ofo[q].items)
        /\ next[q].items = SubSeq(ofo[q].items, k + 1, Len(ofo[q].items))
    BY <1>7, <1>8, <1>9, <1>11, <1>12
  <2>3. B = A \/ (B = A \ {q} /\ next[q].items = <<>>)
    BY <1>13, <1>14
  <2>4. \A j \in A : j # q => next[j].items = ofo[j].items
    BY <1>11
  <2> QED
    BY <1>15, <2>1, <2>2, <2>3, <2>4, SpreadFlush
<1>17. n = Len(rx')
  BY <1>1, <1>10
<1> QED
  BY <1>10, <1>14, <1>16, <1>17, AccountedNext

LEMMA HoldAccounts ==
  ASSUME CInv, NEW p \in Packets, ReceiveHold(p)
  PROVE  Accounted'
<1> DEFINE hash  == TcpHash[p.flow]
           i     == IdleIndex(hash)
           x     == idle[i]
           skb   == SkbOf(p, Len(rx) + 1)
           queue == TakenForData(napi_get_tcp_ofo_queue(hash), skb)
           one   == 1
           z     == 0
           items == <<skb>>
           held  == [queue EXCEPT !.items = items, !.skb_num = one, !.age = z, !.hash = hash]
           entry == [flow |-> p.flow, q |-> x, head |-> skb.id]
           l     == gro_list[Len(gro_list)].q
           old   == ofo[l]
           empty == Complete(old, Len(old.items))
           keep  == Front(gro_list)
<1>1. /\ Receiving(p) /\ p.kind = "data" /\ EntryOf(p.flow) = 0
  BY DEF ReceiveHold
<1>2. /\ ~Deleted /\ Len(rx') = Len(rx) + 1 /\ skb \in SkbType
      /\ Distinct(items) /\ IdsOf(items) = {Len(rx) + 1}
  BY <1>1, AnotherReceived
<1>3. /\ IInv /\ TypeOK /\ PoolInv /\ out \in Seq(Seq(Nat)) /\ Len(rx) \in Nat
      /\ Spread(out, Attached(gro_list), ofo, Len(rx))
      /\ gro_list \in Seq(EntryType) /\ Len(gro_list) \in Nat /\ QInj(gro_list)
      /\ Attached(gro_list) \subseteq Queues /\ ofo \in [Queues -> QueueType]
  BY <1>2, CountsOf
<1>4. PICK list, new : list = gro_list' /\ new = ofo'
  OBVIOUS
<1>5. \/ /\ list = <<entry>> \o gro_list
         /\ new = [ofo EXCEPT ![x] = held]
         /\ out' = out
      \/ /\ gro_count >= MAX_GRO_SKBS
         /\ list = <<entry>> \o keep
         /\ new = [ofo EXCEPT ![x] = held, ![l] = empty]
         /\ out' = out \o PktsOf(old.items)
  BY <1>4 DEF ReceiveHold
<1>6. /\ i \in 1..Len(idle) /\ napi_get_tcp_ofo_queue(hash) \in QueueType /\ x \in Queues
      /\ p.flow \in Flows
  <2> HIDE DEF hash, skb
  <2> QED
    BY <1>2, <1>3, IdleNotEmpty, IdleIndexRange, HashType
<1>7. queue \in QueueType
  <2> DEFINE got == napi_get_tcp_ofo_queue(hash)
  <2>1. got \in QueueType
    BY <1>6
  <2> HIDE DEF got, skb
  <2>2. TakenForData(got, skb) \in QueueType
    BY <1>2, <2>1, TakenForDataType
  <2> QED
    BY <2>2 DEF got
<1> HIDE DEF i, items, queue, one, z, hash
<1>8. held.items = items
  BY <1>7 DEF QueueType
<1> HIDE DEF held
<1>9. x \notin Attached(gro_list)
  BY <1>3, <1>6 DEF PoolInv, Attached
<1>10. entry \in EntryType /\ entry.q = x
  <2>1. skb.id \in Nat
    BY <1>2 DEF SkbType
  <2> HIDE DEF skb, x
  <2> QED
    BY <1>6, <2>1 DEF EntryType
<1> HIDE DEF entry, x, skb
<1>11. PICK passed, A, n : passed = out /\ A = Attached(gro_list) /\ n = Len(rx)
  OBVIOUS
<1>12. /\ passed \in Seq(Seq(Nat)) /\ n \in Nat /\ Spread(passed, A, ofo, n)
       /\ x \notin A /\ A \subseteq Queues
  BY <1>3, <1>9, <1>11
<1>13. Distinct(held.items) /\ IdsOf(held.items) = {n + 1}
  BY <1>2, <1>8, <1>11
<1>14. CASE /\ list = <<entry>> \o gro_list
            /\ new = [ofo EXCEPT ![x] = held]
            /\ out' = out
  <2>1. new[x] = held /\ \A j \in A : new[j].items = ofo[j].items
    BY <1>3, <1>6, <1>12, <1>14
  <2>2. Distinct(new[x].items) /\ IdsOf(new[x].items) = {n + 1}
    BY <1>13, <2>1
  <2>3. PICK B, m : B = A \cup {x} /\ m = n + 1
    OBVIOUS
  <2>4. Spread(passed, B, new, m)
    BY <1>12, <2>1, <2>2, <2>3, SpreadJoin
  <2>5. Attached(list) = B
    BY <1>3, <1>10, <1>11, <1>14, <2>3, AttachedCons
  <2>6. passed = out' /\ m = Len(rx')
    BY <1>2, <1>11, <1>14, <2>3
  <2> QED
    BY <1>4, <2>4, <2>5, <2>6, AccountedNext
<1>15. CASE /\ gro_count >= MAX_GRO_SKBS
            /\ list = <<entry>> \o keep
            /\ new = [ofo EXCEPT ![x] = held, ![l] = empty]
            /\ out' = out \o PktsOf(old.items)
  <2>1. Len(gro_list) > 0 /\ Len(gro_list) \in 1..Len(gro_list)
    <3>1. gro_count = Len(gro_list) /\ gro_count >= MAX_GRO_SKBS
      BY <1>3, <1>15 DEF PoolInv
    <3> QED
      BY <1>3, <3>1, MaxGroSkbsAssumption
  <2>2. l \in A
    BY <1>11, <2>1 DEF Attached
  <2>3. PICK s, k : s = ofo[l].items /\ k = Len(s)
    OBVIOUS
  <2>4. old \in QueueType /\ s \in Seq(SkbType) /\ k \in Nat /\ k \in 0..Len(s)
    <3>1. old \in QueueType
      BY <1>3, <1>12, <2>2
    <3>2. s \in Seq(SkbType)
      BY <2>3, <3>1 DEF QueueType
    <3> QED
      BY <2>3, <3>1, <3>2, LenProperties
  <2>5. empty.items = SubSeq(s, k + 1, k) /\ SubSeq(s, k + 1, k) = <<>> /\ SubSeq(s, 1, k) = s
    <3>1. Len(old.items) \in 0..Len(old.items)
      BY <2>3, <2>4
    <3>2. empty.items = SubSeq(old.items, Len(old.items) + 1, Len(old.items))
      BY <2>4, <3>1, CompleteType
    <3>3. SubSeq(s, 1, Len(s)) = s
      BY <2>4, SubSeqFull
    <3>4. SubSeq(s, k + 1, k) = <<>>
      BY <2>3, <2>4, SubSeqEmpty
    <3> QED
      BY <2>3, <3>2, <3>3, <3>4
  <2> HIDE DEF empty
  <2>6. PICK B, mid, u : /\ B = A \ {l} /\ mid = [ofo EXCEPT ![l] = empty]
                         /\ u = passed \o PktsOf(SubSeq(s, 1, k))
    OBVIOUS
  <2>7. u \in Seq(Seq(Nat)) /\ Spread(u, B, mid, n)
    <3> HIDE DEF l
    <3>1. mid[l] = empty /\ \A j \in A : j # l => mid[j].items = ofo[j].items
      BY <1>3, <1>12, <2>2, <2>6
    <3>2. /\ mid[l].items = SubSeq(ofo[l].items, k + 1, Len(ofo[l].items))
          /\ B = A \ {l} /\ mid[l].items = <<>>
      BY <2>3, <2>5, <2>6, <3>1
    <3>3. /\ ofo[l].items \in Seq(SkbType) /\ k \in 0..Len(ofo[l].items)
          /\ u = passed \o PktsOf(SubSeq(ofo[l].items, 1, k))
      BY <2>3, <2>4, <2>6
    <3>4. B = A \/ (B = A \ {l} /\ mid[l].items = <<>>)
      BY <3>2
    <3>5. /\ passed \in Seq(Seq(Nat)) /\ n \in Nat /\ Spread(passed, A, ofo, n) /\ l \in A
      BY <1>12, <2>2
    <3>6. /\ ofo[l].items \in Seq(SkbType) /\ k \in 0..Len(ofo[l].items)
          /\ mid[l].items = SubSeq(ofo[l].items, k + 1, Len(ofo[l].items))
      BY <3>2, <3>3
    <3>7. \A j \in A : j # l => mid[j].items = ofo[j].items
      BY <3>1
    <3>8. u = passed \o PktsOf(SubSeq(ofo[l].items, 1, k))
      BY <3>3
    <3> HIDE DEF old
    <3>9. u \in Seq(Seq(Nat))
      <4>1. PICK c : c = PktsOf(s)
        OBVIOUS
      <4>2. c \in Seq(Seq(Nat)) /\ u = passed \o c
        BY <2>4, <2>5, <2>6, <4>1, PktsOfType
      <4> QED
        BY <3>5, <4>2, ConcatPlaces
    <3>10. Spread(u, B, mid, n)
      BY <3>4, <3>5, <3>6, <3>7, <3>8, SpreadFlush
    <3> QED
      BY <3>9, <3>10
  <2>8. l # x /\ l \in Queues
    BY <1>12, <2>2
  <2> HIDE DEF l, old
  <2>9. new[x] = held /\ \A j \in B : new[j].items = mid[j].items
    BY <1>3, <1>6, <1>12, <1>15, <2>6, <2>8
  <2>10. x \notin B /\ Distinct(new[x].items) /\ IdsOf(new[x].items) = {n + 1}
    BY <1>12, <1>13, <2>6, <2>9
  <2>11. PICK C, m : C = B \cup {x} /\ m = n + 1
    OBVIOUS
  <2>12. Spread(u, C, new, m)
    BY <1>12, <2>7, <2>9, <2>10, <2>11, SpreadJoin
  <2>13. Attached(list) = C
    <3>1. PICK rest : rest = keep
      OBVIOUS
    <3>2. rest \in Seq(EntryType)
      BY <1>3, <2>1, <3>1, FrontEntries
    <3>3. Attached(rest) = B
      BY <1>3, <1>11, <2>1, <2>6, <3>1, AttachedFront DEF l
    <3>4. list = <<entry>> \o rest
      BY <1>15, <3>1
    <3>5. Attached(list) = Attached(rest) \cup {entry.q}
      BY <1>10, <3>2, <3>4, AttachedCons
    <3> QED
      BY <1>10, <2>11, <3>3, <3>5
  <2>14. u = out' /\ m = Len(rx')
    BY <1>2, <1>11, <1>15, <2>3, <2>5, <2>6, <2>11 DEF old
  <2> QED
    BY <1>4, <2>12, <2>13, <2>14, AccountedNext
<1> QED
  BY <1>5, <1>14, <1>15

(* netif_napi_del frees what the flows hold, pile by pile.                 *)
LEMMA DelConserves ==
  ASSUME CInv, netif_napi_del
  PROVE  Conservation' /\ Deleted'
<1> DEFINE held == [i \in 1..Len(gro_list) |-> PktsOf(HeldItems[i])]
           gone == [queues |-> [i \in 1..Len(gro_list) |-> gro_list[i].q] \o idle,
                    skbs   |-> held]
<1>1. /\ ~Deleted /\ freed' = <<gone>> /\ gro_list' = <<>> /\ rx' = rx /\ out' = out
  BY DEF netif_napi_del
<1>2. Conservation
  BY <1>1, CountsOf, SpreadConserves
<1>3. \A i \in 1..Len(gro_list) : held[i] = held[i]
  OBVIOUS
<1>4. Piles = (held \o <<>>) \o <<out>>
  BY <1>1 DEF Piles
<1>5. gone.skbs = held
  OBVIOUS
<1> HIDE DEF held, gone
<1>6. Deleted' /\ freed'[1].skbs = held
  BY <1>1, <1>5 DEF Deleted
<1>7. Piles' = (<<>> \o held) \o <<out>>
  <2> DEFINE none == [i \in 1..Len(gro_list') |-> PktsOf(HeldItems'[i])]
  <2>1. none = <<>>
    <3>1. 1..Len(gro_list') = {}
      BY <1>1
    <3> QED
      BY <3>1
  <2>2. Piles' = none \o freed'[1].skbs \o <<out'>>
    BY <1>6 DEF Piles
  <2> HIDE DEF none
  <2> QED
    BY <1>1, <1>6, <2>1, <2>2
<1>8. held \in Seq(Seq(Seq(Nat)))
  <2>1. /\ Len(gro_list) \in Nat
        /\ \A i \in 1..Len(gro_list) : ofo[gro_list[i].q] \in QueueType
    BY <1>1, CountsOf, Basics
  <2>2. ASSUME NEW i \in 1..Len(gro_list) PROVE PktsOf(HeldItems[i]) \in Seq(Seq(Nat))
    <3>1. PICK s : s = ofo[gro_list[i].q].items
      OBVIOUS
    <3>2. s \in Seq(SkbType) /\ HeldItems[i] = s
      BY <2>1, <3>1 DEF QueueType, HeldItems
    <3> QED
      BY <3>2, PktsOfType
  <2>3. held \in [1..Len(gro_list) -> Seq(Seq(Nat))]
    BY <2>2 DEF held
  <2> QED
    BY <2>1, <2>3, SeqDef
<1>9. held \o <<>> = held /\ <<>> \o held = held
  BY <1>8, ConcatEmptySeq
<1>10. Piles' = Piles /\ Ids' = Ids
  BY <1>1, <1>4, <1>7, <1>9 DEF Ids
<1>11. Conservation'
  BY <1>2, <1>10 DEF Conservation
<1> QED
  BY <1>6, <1>11

LEMMA InitCInv ==
  ASSUME Init
  PROVE  CInv
<1>1. IInv /\ ~Deleted
  BY InitIInv DEF Init, Deleted
<1>2. out = <<>> /\ rx = <<>> /\ gro_list = <<>>
  BY DEF Init
<1>3. Attached(gro_list) = {}
  BY <1>2 DEF Attached
<1>4. 1..Len(rx) = {}
  BY <1>2
<1>5. Spread(<<>>, {}, ofo, Len(rx))
  BY <1>4, NoPile DEF Spread
<1> QED
  BY <1>1, <1>2, <1>3, <1>5 DEF CInv, Accounted

LEMMA NextKeepsCInv ==
  ASSUME CInv, [Next]_vars
  PROVE  CInv'
<1>1. IInv'
  BY NextKeepsIInv DEF CInv
<1>2. (~Deleted' => Accounted') /\ (Deleted' => Conservation')
  <2>1. ASSUME NEW p \in Packets, napi_gro_receive(p)
        PROVE  ~Deleted' /\ Accounted'
    <3>1. Accounted'
      <4>1. CASE ReceiveBypass(p)
        BY <4>1, BypassAccounts
      <4>2. CASE ReceiveFound(p)
        BY <4>2, FoundAccounts
      <4>3. CASE ReceiveControl(p)
        BY <4>3, ControlAccounts
      <4>4. CASE ReceiveStale(p)
        BY <4>4, StaleAccounts
      <4>5. CASE ReceiveHold(p)
        BY <4>5, HoldAccounts
      <4> QED
        BY <2>1, <4>1, <4>2, <4>3, <4>4, <4>5 DEF napi_gro_receive
    <3>2. Receiving(p)
      BY <2>1 DEF napi_gro_receive, ReceiveBypass, ReceiveFound, ReceiveControl,
                  ReceiveStale, ReceiveHold
    <3> QED
      BY <3>1, <3>2, AnotherReceived
  <2>2. ASSUME NEW old \in BOOLEAN, FlushBegin(old)
        PROVE  ~Deleted' /\ Accounted'
    <3>1. /\ gro_list # <<>> /\ rx' = rx /\ out' = out /\ freed' = freed
          /\ gro_list' = gro_list /\ ofo' = ofo
      BY <2>2 DEF FlushBegin, engine_vars
    <3>2. ~Deleted /\ ~Deleted'
      BY <3>1 DEF CInv, IInv, FreedInv, Deleted
    <3> QED
      BY <3>1, <3>2, SameItemsAccount
  <2>3. CASE FlushEntry
    <3>1. freed' = freed
      BY <2>3 DEF FlushEntry
    <3>2. Accounted'
      BY <2>3, FlushEntryAccounts
    <3>3. ~Deleted
      <4>1. TypeOK /\ cursor > 0 /\ (Deleted => gro_list = <<>>)
        BY <2>3 DEF CInv, IInv, FreedInv, FlushEntry
      <4>2. cursor \in 0..Len(gro_list)
        BY <4>1 DEF TypeOK
      <4> QED
        BY <4>1, <4>2
    <3> QED
      BY <3>1, <3>2, <3>3 DEF Deleted
  <2>4. CASE napi_clean_tcp_ofo_queue
    <3>1. ~Deleted /\ freed' = freed
      BY <2>4 DEF napi_clean_tcp_ofo_queue
    <3> QED
      BY <2>4, <3>1, CleanAccounts DEF Deleted
  <2>5. CASE netif_napi_del
    BY <2>5, DelConserves
  <2>6. CASE Tick
    <3>1. ~Deleted /\ freed' = freed
      BY <2>6 DEF Tick
    <3> QED
      BY <2>6, <3>1, TickAccounts DEF Deleted
  <2>7. CASE UNCHANGED vars
    <3>1. /\ rx' = rx /\ out' = out /\ freed' = freed /\ gro_list' = gro_list /\ ofo' = ofo
      BY <2>7 DEF vars
    <3>2. Deleted' = Deleted /\ Accounted' = Accounted
      BY <3>1 DEF Deleted, Accounted
    <3>3. Conservation' = Conservation
      BY <3>1, <3>2 DEF Conservation, Piles, Ids, HeldItems, Deleted
    <3> QED
      BY <3>2, <3>3 DEF CInv
  <2> QED
    BY <2>1, <2>2, <2>3, <2>4, <2>5, <2>6, <2>7 DEF Next
<1> QED
  BY <1>1, <1>2 DEF CInv

(* Every packet the driver hands over is held by the queue of a flow in    *)
(* gro_list, was passed up once, or was freed once by netif_napi_del: no   *)
(* merge, flush, eviction or deletion loses or repeats one.                *)
THEOREM ConservationCorrect == Spec => []Conservation
<1>1. Init => CInv
  BY InitCInv
<1>2. CInv /\ [Next]_vars => CInv'
  BY NextKeepsCInv
<1>3. CInv => Conservation
  <2>1. CASE Deleted
    BY <2>1 DEF CInv
  <2>2. CASE ~Deleted
    BY <2>2, CountsOf, SpreadConserves
  <2> QED
    BY <2>1, <2>2
<1> QED
  BY <1>1, <1>2, <1>3, PTL DEF Spec
=============================================================================
