---------------------------- MODULE GroFlowProofs ----------------------------
(***************************************************************************)
(* What the engine promises each flow, for any MAX_GRO_SKBS, any packets   *)
(* and any timeouts.  First, that one queue remembers it.  Then what that  *)
(* queue holds and what is passed up of it: every skb is made of packets   *)
(* of the flow that follow one another in the sequence space and can be    *)
(* cut apart again, and, when the flow's sequence numbers lie in a part of *)
(* the space on which before is an order, the queue is in order.  These    *)
(* last two share one inductive invariant.                                 *)
(***************************************************************************)
EXTENDS GroEngineProofs, FiniteSetTheorems

-----------------------------------------------------------------------------
(* The idle list is in order of age, unused queues are at its end, and a   *)
(* queue in gro_list remembers the port pair of its flow.                  *)
Aged(list, queues) ==
  /\ \A i \in 1..Len(list) : queues[list[i]].age <= AgeMax
  /\ \A i, j \in 1..Len(list) :
       i < j => /\ queues[list[i]].age <= queues[list[j]].age
                /\ queues[list[i]].hash = 0 => queues[list[j]].hash = 0

Remembered(list, queues) ==
  \A i \in 1..Len(list) : queues[list[i].q].hash = TcpHash[list[i].flow]

Unique(queues) ==
  \A p, q \in Queues : queues[p].hash = queues[q].hash /\ queues[p].hash # 0 => p = q

FlowInv == Aged(idle, ofo) /\ Remembered(gro_list, ofo) /\ Unique(ofo)

FInv == IInv /\ (~Deleted => FlowInv)

PortPairsDiffer == \A f, g \in Flows : TcpHash[f] = TcpHash[g] => f = g

(* A queue that just changed goes in front of queues that did not.         *)
LEMMA FrontAged ==
  ASSUME NEW s \in Seq(Queues), NEW old, Aged(s, old), NEW x \in Queues, NEW new,
         new[x].age = 0, new[x].hash # 0,
         \A j \in 1..Len(s) : new[s[j]] = old[s[j]] /\ old[s[j]].age \in Nat,
         NEW t, t = <<x>> \o s
  PROVE  Aged(t, new)
<1>1. /\ Len(t) = Len(s) + 1 /\ t[1] = x
      /\ \A j \in 1..(Len(s) + 1) : j # 1 => t[j] = s[j - 1]
  <2> DEFINE u == <<x>> \o s
  <2>1. /\ Len(u) = Len(s) + 1 /\ u[1] = x
        /\ \A j \in 1..(Len(s) + 1) : j # 1 => u[j] = s[j - 1]
    BY ConsProperties
  <2>2. t = u
    OBVIOUS
  <2> HIDE DEF u
  <2> QED
    BY <2>1, <2>2
<1>2. Len(s) \in Nat /\ AgeMax \in Nat
  BY LenProperties, AgeMaxType
<1>3. ASSUME NEW j \in 1..Len(t), j # 1
      PROVE  j - 1 \in 1..Len(s) /\ new[t[j]] = old[s[j - 1]]
  BY <1>1, <1>2, <1>3
<1>4. \A j \in 1..Len(t) : new[t[j]].age <= AgeMax
  <2> SUFFICES ASSUME NEW j \in 1..Len(t) PROVE new[t[j]].age <= AgeMax
    OBVIOUS
  <2>1. CASE j = 1
    BY <1>1, <1>2, <2>1
  <2>2. CASE j # 1
    BY <1>3, <2>2 DEF Aged
  <2> QED
    BY <2>1, <2>2
<1>5. ASSUME NEW i \in 1..Len(t), NEW j \in 1..Len(t), i < j
      PROVE  /\ new[t[i]].age <= new[t[j]].age
             /\ new[t[i]].hash = 0 => new[t[j]].hash = 0
  <2>1. j # 1 /\ j - 1 \in 1..Len(s) /\ new[t[j]] = old[s[j - 1]]
    BY <1>1, <1>3, <1>5
  <2>2. CASE i = 1
    BY <1>1, <2>1, <2>2
  <2>3. CASE i # 1
    <3>1. i - 1 \in 1..Len(s) /\ new[t[i]] = old[s[i - 1]]
      BY <1>3, <2>3
    <3>2. PICK a, b : a = i - 1 /\ b = j - 1
      OBVIOUS
    <3>3. a \in 1..Len(s) /\ b \in 1..Len(s) /\ a < b
      BY <1>1, <1>2, <1>5, <2>1, <3>1, <3>2
    <3>4. new[t[i]] = old[s[a]] /\ new[t[j]] = old[s[b]]
      BY <2>1, <3>1, <3>2
    <3> QED
      BY <3>3, <3>4 DEF Aged
  <2> QED
    BY <2>2, <2>3
<1> QED
  BY <1>4, <1>5 DEF Aged

LEMMA RemoveAged ==
  ASSUME NEW s \in Seq(Queues), Inj(s), NEW old, Aged(s, old), NEW i \in 1..Len(s), NEW t,
         t = RemoveAt(s, i)
  PROVE  Aged(t, old)
<1> DEFINE at(j) == IF j < i THEN j ELSE j + 1
<1>1. /\ Len(t) = Len(s) - 1
      /\ \A j \in 1..(Len(s) - 1) : t[j] = IF j < i THEN s[j] ELSE s[j + 1]
  BY RemoveAtProperties
<1>2. Len(s) \in Nat
  BY LenProperties
<1>3. \A j \in 1..Len(t) : at(j) \in 1..Len(s) /\ t[j] = s[at(j)]
  BY <1>1, <1>2
<1>4. \A j, k \in 1..Len(t) : j < k => at(j) < at(k)
  BY <1>1, <1>2
<1> HIDE DEF at
<1>5. \A j \in 1..Len(t) : old[t[j]].age <= AgeMax
  BY <1>3 DEF Aged
<1>6. ASSUME NEW j \in 1..Len(t), NEW k \in 1..Len(t), j < k
      PROVE  /\ old[t[j]].age <= old[t[k]].age
             /\ old[t[j]].hash = 0 => old[t[k]].hash = 0
  <2>1. at(j) < at(k) /\ at(j) \in 1..Len(s) /\ at(k) \in 1..Len(s)
        /\ t[j] = s[at(j)] /\ t[k] = s[at(k)]
    BY <1>3, <1>4, <1>6
  <2> QED
    BY <2>1 DEF Aged
<1> QED
  BY <1>5, <1>6 DEF Aged

(* The queue at i is removed, and put back in front once it changed.       *)
LEMMA RequeueAged ==
  ASSUME NEW s \in Seq(Queues), Inj(s), NEW old \in [Queues -> QueueType], Aged(s, old),
         NEW i \in 1..Len(s), NEW queue, queue.age = 0, queue.hash # 0,
         NEW new, new = [old EXCEPT ![s[i]] = queue],
         NEW t, t = <<s[i]>> \o RemoveAt(s, i)
  PROVE  Aged(t, new)
<1> DEFINE x == s[i]
<1>1. PICK u : u = RemoveAt(s, i)
  OBVIOUS
<1>2. u \in Seq(Queues) /\ Inj(u) /\ Among(u, s, i) /\ Aged(u, old)
  BY <1>1, RemoveAmong, RemoveAged
<1>3. x \in Queues
  BY ElementOfSeq
<1>4. t = <<x>> \o u /\ new[x].age = 0 /\ new[x].hash # 0
  BY <1>1, <1>3
<1>5. \A j \in 1..Len(u) : new[u[j]] = old[u[j]] /\ old[u[j]].age \in Nat
  <2> SUFFICES ASSUME NEW j \in 1..Len(u)
               PROVE  new[u[j]] = old[u[j]] /\ old[u[j]].age \in Nat
    OBVIOUS
  <2>1. u[j] \in Queues
    BY <1>2, ElementOfSeq
  <2>2. u[j] # x
    BY <1>2 DEF Among, Inj
  <2>3. old[u[j]] \in QueueType
    BY <2>1
  <2>4. old[u[j]].age \in Nat
    BY <2>3 DEF QueueType
  <2> QED
    BY <2>1, <2>2, <2>4
<1> HIDE DEF x
<1> QED
  BY ONLY <1>2, <1>3, <1>4, <1>5, FrontAged, Zenon

-----------------------------------------------------------------------------
(* Every queue of the pool is idle or in gro_list: there are as many       *)
(* places as queues, and no queue is in two of them.                       *)
LEMMA PoolCovers ==
  ASSUME IInv, ~Deleted, NEW q \in Queues
  PROVE  \/ \E i \in 1..Len(gro_list) : gro_list[i].q = q
         \/ \E i \in 1..Len(idle) : idle[i] = q
<1> DEFINE n == MAX_GRO_SKBS + 1
           m == Len(gro_list)
<1>1. TypeOK /\ PoolInv
  BY DEF IInv
<1>2. PICK pool : pool = PoolSeq
  OBVIOUS
<1>3. /\ pool \in Seq(Queues) /\ Len(pool) = n
      /\ \A i, j \in 1..Len(pool) : pool[i] = pool[j] => i = j
  BY <1>1, <1>2, PoolSeqProperties
<1>4. pool \in Injection(1..n, Queues)
  BY <1>3, LenProperties DEF Injection, IsInjective
<1>5. /\ IsFiniteSet(Queues) /\ Cardinality(Queues) = n
      /\ IsFiniteSet(1..n) /\ Cardinality(1..n) = n
  BY MaxGroSkbsAssumption, FS_Interval DEF Queues
<1>6. pool \in Surjection(1..n, Queues)
  <2> HIDE DEF n
  <2> QED
    BY <1>4, <1>5, FS_Injection
<1>7. PICK k \in 1..n : pool[k] = q
  <2> HIDE DEF n
  <2> QED
    BY <1>6 DEF Surjection
<1> DEFINE a == [i \in 1..m |-> gro_list[i].q]
<1>8. m \in Nat /\ Len(idle) \in Nat /\ idle \in Seq(Queues) /\ m + Len(idle) = n
  BY <1>1, Basics DEF PoolInv
<1>9. a \in Seq(Queues) /\ Len(a) = m /\ \A i \in 1..m : a[i] = gro_list[i].q
  <2>1. a \in [1..m -> Queues]
    BY <1>1, Basics
  <2>2. a \in Seq(Queues)
    BY <1>8, <2>1, SeqDef
  <2> QED
    BY <1>8, <2>1, <2>2, LenProperties
<1>10. pool = a \o idle
  BY <1>2 DEF PoolSeq
<1> HIDE DEF a, m, n
<1>11. \A i \in 1..(m + Len(idle)) : pool[i] = IF i <= m THEN a[i] ELSE idle[i - m]
  <2>1. \A i \in 1..(Len(a) + Len(idle)) :
          (a \o idle)[i] = IF i <= Len(a) THEN a[i] ELSE idle[i - Len(a)]
    BY <1>8, <1>9, ConcatProperties
  <2> QED
    BY <1>9, <1>10, <2>1
<1>12. CASE k <= m
  <2>1. k \in 1..m /\ gro_list[k].q = q
    BY <1>7, <1>8, <1>9, <1>11, <1>12
  <2> QED
    BY <2>1 DEF m
<1>13. CASE ~(k <= m)
  <2>1. k - m \in 1..Len(idle) /\ idle[k - m] = q
    BY <1>7, <1>8, <1>11, <1>13
  <2> QED
    BY <2>1
<1> QED
  BY <1>12, <1>13

-----------------------------------------------------------------------------
(* What the operations do to the port pair and the age of a queue.         *)
LEMMA CompleteRemembers ==
  ASSUME NEW queue \in QueueType, NEW k \in 0..Len(queue.items)
  PROVE  /\ Complete(queue, k).hash = queue.hash
         /\ k # 0 => Complete(queue, k).age = 0
         /\ Complete(queue, k).items # queue.items => k # 0
<1> DEFINE items == SubSeq(queue.items, k + 1, Len(queue.items))
           s     == SeqNextAfter(queue)[k]
           n     == queue.skb_num - k
           z     == 0
           t     == [queue EXCEPT !.items = items, !.seq_next = s, !.age = z,
                                  !.flushed = TRUE, !.skb_num = n]
<1>1. Complete(queue, k) = IF k = 0 THEN queue ELSE t
  BY DEF Complete
<1> HIDE DEF items, s, n
<1>2. t.hash = queue.hash /\ t.age = 0
  BY DEF QueueType
<1> HIDE DEF t
<1> QED
  BY <1>1, <1>2, Zenon

LEMMA AdvanceRemembers ==
  ASSUME NEW queue \in QueueType, NEW skb
  PROVE  /\ Advance(queue, skb).hash = queue.hash
         /\ queue.age = 0 => Advance(queue, skb).age = 0
<1> DEFINE s == max_seq(queue.seq_next, SeqEnd(skb))
           z == 0
           t == [queue EXCEPT !.seq_next = s, !.age = z, !.flushed = TRUE]
<1>1. Advance(queue, skb) = IF s = queue.seq_next THEN queue ELSE t
  BY DEF Advance
<1> HIDE DEF s
<1>2. t.hash = queue.hash /\ t.age = 0
  BY DEF QueueType
<1> HIDE DEF t
<1> QED
  BY <1>1, <1>2, Zenon

(* The port pair of a flow that holds no packets is remembered by no queue *)
(* but the one napi_get_tcp_ofo_queue chooses.                             *)
LEMMA OnlyChosen ==
  ASSUME FInv, ~Deleted, PortPairsDiffer, NEW p \in Packets, EntryOf(p.flow) = 0,
         NEW h, h = TcpHash[p.flow]
  PROVE  /\ IdleIndex(h) \in 1..Len(idle) /\ h # 0
         /\ napi_get_tcp_ofo_queue(h) \in QueueType
         /\ napi_get_tcp_ofo_queue(h).hash \in {h, 0}
         /\ \A q \in Queues : q # idle[IdleIndex(h)] => ofo[q].hash # h
<1> DEFINE i == IdleIndex(h)
           T == {j \in 1..Len(idle) : ofo[idle[j]].hash \in {h, 0}}
           E == {e \in 1..Len(gro_list) : gro_list[e].flow = p.flow}
           queue == ofo[idle[i]]
<1>1. IInv /\ TypeOK /\ FlowInv /\ Len(idle) > 0 /\ Len(idle) \in Nat
  BY IdleNotEmpty DEF FInv, IInv
<1>2. i \in 1..Len(idle) /\ napi_get_tcp_ofo_queue(h) \in QueueType /\ queue \in QueueType
  BY <1>1, IdleIndexRange, Basics
<1>3. p.flow \in Flows /\ h \in Nat /\ h # 0
  BY HashType, TcpHashAssumption
<1>4. i = IF T = {} THEN Len(idle) ELSE Min(T)
  BY DEF IdleIndex
<1>5. napi_get_tcp_ofo_queue(h) = IF queue.hash \in {h, 0} THEN queue ELSE ResetQueue(queue)
  BY DEF napi_get_tcp_ofo_queue
<1>6. ResetQueue(queue).hash = 0
  <2> HIDE DEF queue
  <2> QED
    BY <1>2 DEF ResetQueue, QueueType
<1>7. napi_get_tcp_ofo_queue(h).hash \in {h, 0}
  <2> HIDE DEF queue
  <2> QED
    BY <1>5, <1>6
<1>8. T \subseteq Nat /\ T \subseteq 1..Len(idle)
  BY <1>1
<1>9. T # {} => i \in T /\ \A j \in T : i <= j
  <2> HIDE DEF T, i
  <2> QED
    BY <1>4, <1>8, MinNat
<1>10. ASSUME NEW e \in 1..Len(gro_list) PROVE ofo[gro_list[e].q].hash # h
  <2>1. EntryOf(p.flow) = IF E = {} THEN 0 ELSE Min(E)
    BY DEF EntryOf
  <2>2. E = {}
    <3>1. E \subseteq Nat /\ E \subseteq 1..Len(gro_list)
      BY <1>1, Basics
    <3> HIDE DEF E
    <3> SUFFICES ASSUME E # {} PROVE FALSE
      OBVIOUS
    <3>2. Min(E) \in 1..Len(gro_list)
      BY <3>1, MinNat
    <3> QED
      BY <1>1, <2>1, <3>2, Basics
  <2>3. gro_list[e].flow # p.flow /\ gro_list[e].flow \in Flows
    BY <1>1, <2>2, Basics
  <2>4. TcpHash[gro_list[e].flow] # h
    BY <1>3, <2>3 DEF PortPairsDiffer
  <2> QED
    BY <1>1, <2>4 DEF FlowInv, Remembered
<1>11. ASSUME NEW j \in 1..Len(idle), j # i PROVE ofo[idle[j]].hash # h
  <2> SUFFICES ASSUME ofo[idle[j]].hash = h PROVE FALSE
    OBVIOUS
  <2>1. j \in T
    OBVIOUS
  <2>2. i \in T /\ i < j
    <3> HIDE DEF T, i
    <3> QED
      BY <1>1, <1>2, <1>9, <1>11, <2>1
  <2>3. idle[i] # idle[j] /\ idle[i] \in Queues /\ idle[j] \in Queues
    BY <1>1, <1>2, <2>2, Basics DEF IInv, PoolInv
  <2>4. ofo[idle[i]].hash \in {h, 0}
    BY <2>2
  <2> HIDE DEF i, T
  <2>5. ofo[idle[i]].hash # h
    BY <1>1, <1>3, <2>3 DEF FlowInv, Unique
  <2>6. ofo[idle[j]].hash = 0
    BY <1>1, <1>2, <2>2, <2>4, <2>5 DEF FlowInv, Aged
  <2> QED
    BY <1>3, <2>6
<1>12. ASSUME NEW q \in Queues, q # idle[i] PROVE ofo[q].hash # h
  <2>1. CASE \E e \in 1..Len(gro_list) : gro_list[e].q = q
    BY <1>10, <2>1
  <2>2. CASE \E j \in 1..Len(idle) : idle[j] = q
    BY <1>11, <1>12, <2>2
  <2> QED
    BY <1>1, <2>1, <2>2, PoolCovers
<1> QED
  BY <1>2, <1>3, <1>7, <1>12

LEMMA TakenUnique ==
  ASSUME Unique(ofo), NEW x \in Queues, NEW h, NEW new, new[x].hash = h,
         \A q \in Queues : q # x => ofo[q].hash # h /\ new[q].hash = ofo[q].hash
  PROVE  Unique(new)
BY DEF Unique

-----------------------------------------------------------------------------
(* Every action keeps the invariant.                                       *)

(* The state that a step reaches, by the names the proofs give its parts.  *)
LEMMA FlowInvOf ==
  ASSUME NEW list, list = gro_list', NEW rest, rest = idle', NEW new, new = ofo',
         Aged(rest, new), Remembered(list, new), Unique(new)
  PROVE  FlowInv'
BY DEF FlowInv, Aged, AgeMax, Remembered, Unique, Queues

(* A queue of gro_list changes, but not the port pair it remembers.        *)
LEMMA EntryRemembers ==
  ASSUME FInv, ~Deleted, NEW e \in 1..Len(gro_list), NEW x, NEW queue,
         queue.hash = ofo[gro_list[e].q].hash,
         gro_list' = [gro_list EXCEPT ![e].head = x],
         ofo' = [ofo EXCEPT ![gro_list[e].q] = queue], idle' = idle
  PROVE  FlowInv'
<1> DEFINE q == gro_list[e].q
<1>1. /\ IInv /\ TypeOK /\ PoolInv /\ FlowInv /\ q \in Queues
      /\ gro_list \in Seq(EntryType) /\ ofo \in [Queues -> QueueType]
  BY Basics DEF FInv, IInv
<1>2. /\ \A k \in Queues : ofo'[k].hash = ofo[k].hash
      /\ \A k \in Queues : k # q => ofo'[k] = ofo[k]
  BY <1>1
<1>3. \A i \in 1..Len(idle) : idle[i] \in Queues /\ idle[i] # q
  BY <1>1, Basics DEF PoolInv
<1>4. Len(gro_list') = Len(gro_list)
      /\ \A i \in 1..Len(gro_list) : /\ gro_list'[i].q = gro_list[i].q
                                     /\ gro_list'[i].flow = gro_list[i].flow
  <2> DEFINE entry == [gro_list[e] EXCEPT !.head = x]
  <2>1. \A i \in 1..Len(gro_list) : gro_list[i] \in EntryType
    BY <1>1, ElementOfSeq
  <2>2. entry.q = gro_list[e].q /\ entry.flow = gro_list[e].flow
    BY <2>1 DEF EntryType
  <2>3. gro_list' = [gro_list EXCEPT ![e] = entry] /\ DOMAIN gro_list = 1..Len(gro_list)
        /\ Len(gro_list) \in Nat
    BY <1>1, LenProperties
  <2> HIDE DEF entry
  <2>4. DOMAIN gro_list' = 1..Len(gro_list)
    BY <2>3
  <2>5. Len(gro_list') = Len(gro_list)
    <3>1. PICK t, n : t = gro_list' /\ n = Len(gro_list)
      OBVIOUS
    <3> DEFINE S == {t[i] : i \in 1..n}
    <3>2. t = [gro_list EXCEPT ![e] = entry] /\ n \in Nat /\ DOMAIN t = 1..n
      BY <2>3, <3>1
    <3>3. t \in [1..n -> S]
      BY <3>2
    <3> HIDE DEF S
    <3>4. t \in Seq(S)
      BY <3>2, <3>3, SeqDef
    <3>5. Len(t) = n
      BY <3>2, <3>4, LenProperties
    <3> QED
      BY <3>1, <3>5
  <2> QED
    BY <2>2, <2>3, <2>5
<1> HIDE DEF q
<1>5. PICK list, rest, new : list = gro_list' /\ rest = idle' /\ new = ofo'
  OBVIOUS
<1>6. Aged(rest, new)
  <2>1. rest = idle /\ \A i \in 1..Len(idle) : new[idle[i]] = ofo[idle[i]]
    BY <1>2, <1>3, <1>5
  <2> QED
    BY <1>1, <2>1 DEF FlowInv, Aged
<1>7. Remembered(list, new)
  BY <1>1, <1>2, <1>4, <1>5, Basics DEF FlowInv, Remembered
<1>8. Unique(new)
  BY <1>1, <1>2, <1>5 DEF FlowInv, Unique
<1> QED
  BY <1>5, <1>6, <1>7, <1>8, FlowInvOf

(* A chosen idle queue remembers the flow and goes to the front.           *)
LEMMA ChosenRemembers ==
  ASSUME FInv, ~Deleted, PortPairsDiffer, NEW p \in Packets, EntryOf(p.flow) = 0,
         NEW h, h = TcpHash[p.flow], NEW queue, queue.hash = h, queue.age = 0,
         ofo' = [ofo EXCEPT ![idle[IdleIndex(h)]] = queue],
         Requeue(IdleIndex(h)), gro_list' = gro_list
  PROVE  FlowInv'
<1> DEFINE i == IdleIndex(h)
           x == idle[i]
<1>1. /\ IInv /\ TypeOK /\ PoolInv /\ FlowInv /\ Inj(idle)
      /\ idle \in Seq(Queues) /\ ofo \in [Queues -> QueueType]
  BY Basics DEF FInv, IInv, PoolInv, Inj
<1>2. i \in 1..Len(idle) /\ h # 0
      /\ \A q \in Queues : q # x => ofo[q].hash # h
  BY OnlyChosen
<1>3. x \in Queues
  BY <1>1, <1>2, ElementOfSeq
<1>4. ofo' = [ofo EXCEPT ![x] = queue] /\ idle' = <<x>> \o RemoveAt(idle, i)
  BY DEF Requeue
<1>5. /\ ofo'[x] = queue /\ \A q \in Queues : q # x => ofo'[q] = ofo[q]
  BY <1>1, <1>3, <1>4
<1>9. PICK t, new : t = idle' /\ new = ofo'
  OBVIOUS
<1>6. Aged(t, new)
  <2> HIDE DEF i
  <2>2. new = [ofo EXCEPT ![idle[i]] = queue] /\ t = <<idle[i]>> \o RemoveAt(idle, i)
    BY <1>4, <1>9
  <2>3. Aged(idle, ofo)
    BY <1>1 DEF FlowInv
  <2> QED
    BY <1>1, <1>2, <2>2, <2>3, RequeueAged
<1> HIDE DEF x
<1>7. Remembered(gro_list, new)
  <2> SUFFICES ASSUME NEW j \in 1..Len(gro_list)
               PROVE  new[gro_list[j].q].hash = TcpHash[gro_list[j].flow]
    BY DEF Remembered
  <2>1. gro_list[j].q \in Queues /\ gro_list[j].q # x
    BY <1>1, <1>2, Basics DEF PoolInv, x
  <2> QED
    BY <1>1, <1>5, <1>9, <2>1 DEF FlowInv, Remembered
<1>8. Unique(new)
  <2>1. Unique(ofo) /\ new[x].hash = h
        /\ \A q \in Queues : q # x => ofo[q].hash # h /\ new[q].hash = ofo[q].hash
    BY <1>1, <1>2, <1>5, <1>9 DEF FlowInv, x
  <2> QED
    BY <1>3, <2>1, TakenUnique
<1> QED
  BY <1>6, <1>7, <1>8, <1>9, FlowInvOf

LEMMA FoundRemembers ==
  ASSUME FInv, NEW p \in Packets, ReceiveFound(p)
  PROVE  FlowInv'
<1> DEFINE e     == EntryOf(p.flow)
           q     == gro_list[e].q
           skb   == SkbOf(p, Len(rx) + 1)
           ctl   == p.kind = "ctl"
           r     == tcp_gro_receive(ofo[q], gro_list[e].head, skb, ctl)
           queue == IF r.kept THEN r.queue ELSE Advance(r.queue, skb)
<1>1. TypeOK /\ HeadIsQueueHead /\ ~Deleted
  BY DEF FInv, IInv, ReceiveFound, Receiving
<1>2. /\ Receiving(p) /\ e # 0 /\ idle' = idle
      /\ gro_list' = [gro_list EXCEPT ![e].head = r.head]
      /\ ofo' = [ofo EXCEPT ![q] = queue]
  BY Zenon DEF ReceiveFound
<1>3. skb \in SkbType
  BY <1>1, <1>2, ReceivingType
<1>4. e \in 1..Len(gro_list)
  BY <1>1, <1>2, EntryOfRange
<1> HIDE DEF e, skb
<1>5. ofo[q] \in QueueType /\ ofo[q].items # <<>> /\ gro_list[e].head = ofo[q].items[1].id
  BY <1>1, <1>4, Basics DEF HeadIsQueueHead
<1>6. r.queue \in QueueType /\ r.queue.hash = ofo[q].hash
  <2> DEFINE old == ofo[q]
             x   == gro_list[e].head
  <2>1. old \in QueueType /\ old.items # <<>> /\ x = old.items[1].id /\ ctl \in BOOLEAN
    BY <1>5
  <2> HIDE DEF old, x, ctl
  <2>2. GoodOutcome(tcp_gro_receive(old, x, skb, ctl), old.hash)
    BY <1>3, <2>1, ReceiveKeepsHead
  <2> QED
    BY <2>2, GoodParts DEF old, x
<1> HIDE DEF r
<1>7. queue.hash = ofo[q].hash
  BY <1>3, <1>6, AdvanceRemembers
<1> DEFINE x == r.head
<1>8. gro_list' = [gro_list EXCEPT ![e].head = x]
  BY <1>2
<1> HIDE DEF queue, x
<1> QED
  BY <1>1, <1>2, <1>4, <1>7, <1>8, EntryRemembers

LEMMA ControlRemembers ==
  ASSUME FInv, PortPairsDiffer, NEW p \in Packets, ReceiveControl(p)
  PROVE  FlowInv'
<1> DEFINE hash  == TcpHash[p.flow]
           skb   == SkbOf(p, Len(rx) + 1)
           old   == napi_get_tcp_ofo_queue(hash)
           s     == IF old.hash = 0 THEN skb.seq ELSE old.seq_next
           z     == 0
           taken == [old EXCEPT !.seq_next = s, !.age = z, !.hash = hash]
           queue == Advance(taken, skb)
<1>1. TypeOK /\ ~Deleted /\ Receiving(p) /\ EntryOf(p.flow) = 0
  BY DEF FInv, IInv, ReceiveControl, Receiving
<1>2. /\ ofo' = [ofo EXCEPT ![idle[IdleIndex(hash)]] = queue]
      /\ Requeue(IdleIndex(hash)) /\ gro_list' = gro_list
  BY DEF ReceiveControl
<1>3. skb \in SkbType /\ hash \in Nat
  BY <1>1, ReceivingType, HashType
<1>4. old \in QueueType
  BY <1>1, OnlyChosen
<1>5. s \in 0..(SeqRange - 1) /\ z \in Nat
  <2>1. skb.seq \in 0..(SeqRange - 1)
    BY <1>3 DEF SkbType
  <2>2. old.seq_next \in 0..(SeqRange - 1)
    BY <1>4 DEF QueueType
  <2> QED
    BY <2>1, <2>2
<1> HIDE DEF skb, old, s
<1>6. taken \in QueueType /\ taken.age = 0 /\ taken.hash = hash
  <2> HIDE DEF hash
  <2> QED
    BY <1>3, <1>4, <1>5 DEF QueueType
<1> HIDE DEF taken
<1>7. queue.hash = hash /\ queue.age = 0
  BY <1>6, AdvanceRemembers
<1> HIDE DEF queue
<1> QED
  BY <1>1, <1>2, <1>7, ChosenRemembers

(* Only a queue that remembers the flow can find a segment stale.          *)
LEMMA StaleRemembers ==
  ASSUME FInv, PortPairsDiffer, NEW p \in Packets, ReceiveStale(p)
  PROVE  FlowInv'
<1> DEFINE hash  == TcpHash[p.flow]
           skb   == SkbOf(p, Len(rx) + 1)
           old   == napi_get_tcp_ofo_queue(hash)
           z     == 0
           taken == TakenForData(old, skb)
           aged  == [taken EXCEPT !.age = z]
           queue == Advance(aged, skb)
<1>1. TypeOK /\ ~Deleted /\ Receiving(p) /\ EntryOf(p.flow) = 0
  BY DEF FInv, IInv, ReceiveStale, Receiving
<1>2. /\ ofo' = [ofo EXCEPT ![idle[IdleIndex(hash)]] = queue]
      /\ Requeue(IdleIndex(hash)) /\ gro_list' = gro_list
      /\ before(skb.seq, taken.seq_next)
  BY DEF ReceiveStale
<1>3. skb \in SkbType
  BY <1>1, ReceivingType
<1>4. old \in QueueType /\ old.hash \in {hash, 0}
  BY <1>1, OnlyChosen
<1> HIDE DEF skb, hash, old
<1>5. old.hash = hash /\ taken = old
  <2>1. ASSUME old.hash = 0 PROVE FALSE
    <3>1. taken = [old EXCEPT !.seq_next = skb.seq, !.flushed = FALSE]
      BY <2>1 DEF TakenForData
    <3>2. taken.seq_next = skb.seq /\ skb.seq \in Int
      BY <1>3, <1>4, <3>1 DEF QueueType, SkbType
    <3>3. before(skb.seq, skb.seq)
      BY <1>2, <3>2
    <3> QED
      BY <3>2, <3>3, SeqRangeAssumption DEF before
  <2> QED
    BY <1>4, <2>1 DEF TakenForData
<1> HIDE DEF taken
<1>6. aged \in QueueType /\ aged.hash = hash /\ aged.age = 0
  BY <1>4, <1>5 DEF QueueType
<1> HIDE DEF aged
<1>7. queue.hash = hash /\ queue.age = 0
  BY <1>6, AdvanceRemembers
<1> HIDE DEF queue
<1> QED
  BY <1>1, <1>2, <1>7, ChosenRemembers DEF hash

(* napi_clean_tcp_ofo_queue resets a suffix of the idle list.              *)
LEMMA CleanRemembers ==
  ASSUME FInv, napi_clean_tcp_ofo_queue
  PROVE  FlowInv'
<1> DEFINE old(q) == (\E i \in 1..Len(idle) : idle[i] = q) /\ ofo[q].age > CleanTimeout
<1>1. /\ IInv /\ TypeOK /\ PoolInv /\ FlowInv /\ ofo \in [Queues -> QueueType]
      /\ idle' = idle /\ gro_list' = gro_list
  BY Basics DEF FInv, IInv, napi_clean_tcp_ofo_queue
<1>2. PICK new : new = ofo'
  OBVIOUS
<1>3. new = [q \in Queues |-> IF old(q) THEN ResetQueue(ofo[q]) ELSE ofo[q]]
  BY <1>2 DEF napi_clean_tcp_ofo_queue
<1>4. CleanTimeout \in Nat /\ AgeMax \in Nat
  BY AgeMaxType, TimeoutAssumption
<1>5. \A i \in 1..Len(idle) : old(idle[i]) <=> ofo[idle[i]].age > CleanTimeout
  OBVIOUS
<1>6. \A i \in 1..Len(gro_list) : ~old(gro_list[i].q) /\ gro_list[i].q \in Queues
  BY <1>1, Basics DEF PoolInv
<1> HIDE DEF old
<1>7. ASSUME NEW q \in Queues
      PROVE  /\ ~old(q) => new[q] = ofo[q]
             /\ old(q) => new[q].hash = 0 /\ new[q].age = AgeMax
             /\ ofo[q].age \in Nat
  <2> DEFINE queue == ofo[q]
             a == AgeMax
             z == 0
  <2>1. queue \in QueueType
    BY <1>1
  <2>2. new[q] = IF old(q) THEN ResetQueue(queue) ELSE queue
    BY <1>3
  <2>3. ResetQueue(queue) = [queue EXCEPT !.age = a, !.hash = z, !.skb_num = z, !.seq_next = z]
    BY DEF ResetQueue
  <2> HIDE DEF queue, a, z
  <2>4. ResetQueue(queue).age = a /\ ResetQueue(queue).hash = z /\ queue.age \in Nat
    BY <2>1, <2>3 DEF QueueType
  <2> QED
    BY <2>2, <2>4 DEF queue, a, z
<1>8. Aged(idle, new)
  <2>1. \A i \in 1..Len(idle) : idle[i] \in Queues
    BY <1>1, Basics
  <2>2. ASSUME NEW i \in 1..Len(idle) PROVE new[idle[i]].age <= AgeMax
    <3>1. ofo[idle[i]].age <= AgeMax
      BY <1>1 DEF FlowInv, Aged
    <3> QED
      BY <1>4, <1>7, <2>1, <3>1
  <2>3. ASSUME NEW i \in 1..Len(idle), NEW j \in 1..Len(idle), i < j
        PROVE  /\ new[idle[i]].age <= new[idle[j]].age
               /\ new[idle[i]].hash = 0 => new[idle[j]].hash = 0
    <3> DEFINE p == idle[i]
               q == idle[j]
    <3>1. /\ ofo[p].age <= ofo[q].age /\ ofo[p].age <= AgeMax
          /\ ofo[p].hash = 0 => ofo[q].hash = 0
      BY <1>1, <2>3 DEF FlowInv, Aged
    <3>2. /\ p \in Queues /\ q \in Queues
          /\ old(p) <=> ofo[p].age > CleanTimeout
          /\ old(q) <=> ofo[q].age > CleanTimeout
      BY <1>5, <2>1
    <3> HIDE DEF p, q
    <3>3. CASE old(p)
      <4>1. old(q)
        BY <1>4, <1>7, <3>1, <3>2, <3>3
      <4> QED
        BY <1>4, <1>7, <3>2, <3>3, <4>1 DEF p, q
    <3>4. CASE ~old(p) /\ old(q)
      BY <1>4, <1>7, <3>1, <3>2, <3>4 DEF p, q
    <3>5. CASE ~old(p) /\ ~old(q)
      BY <1>4, <1>7, <3>1, <3>2, <3>5 DEF p, q
    <3> QED
      BY <3>3, <3>4, <3>5
  <2> QED
    BY <2>2, <2>3 DEF Aged
<1>9. Remembered(gro_list, new)
  BY <1>1, <1>6, <1>7 DEF FlowInv, Remembered
<1>10. Unique(new)
  <2> SUFFICES ASSUME NEW p \in Queues, NEW q \in Queues,
                      new[p].hash = new[q].hash, new[p].hash # 0
               PROVE  p = q
    BY DEF Unique
  <2>1. ~old(p) /\ ~old(q)
    BY <1>7
  <2> QED
    BY <1>1, <1>7, <2>1 DEF FlowInv, Unique
<1> QED
  BY <1>1, <1>2, <1>8, <1>9, <1>10, FlowInvOf

LEMMA TickRemembers ==
  ASSUME FInv, ~Deleted, Tick
  PROVE  FlowInv'
<1> DEFINE older(a) == IF a < AgeMax THEN a + 1 ELSE a
<1>1. /\ IInv /\ TypeOK /\ FlowInv /\ ofo \in [Queues -> QueueType]
      /\ idle' = idle /\ gro_list' = gro_list
  BY Basics DEF FInv, IInv, Tick
<1>2. PICK new : new = ofo'
  OBVIOUS
<1>3. new = [q \in Queues |-> [ofo[q] EXCEPT !.age = older(ofo[q].age)]]
  BY <1>2 DEF Tick
<1>4. AgeMax \in Nat
  BY AgeMaxType
<1>5. ASSUME NEW q \in Queues
      PROVE  /\ new[q].hash = ofo[q].hash /\ ofo[q].age \in Nat
             /\ new[q].age = older(ofo[q].age)
  <2> DEFINE queue == ofo[q]
             a     == older(queue.age)
  <2>1. queue \in QueueType /\ queue.age \in Nat
    BY <1>1 DEF QueueType
  <2>2. new[q] = [queue EXCEPT !.age = a]
    BY <1>3
  <2> HIDE DEF queue, a
  <2>3. new[q].hash = queue.hash /\ new[q].age = a
    BY <2>1, <2>2 DEF QueueType
  <2> QED
    BY <2>1, <2>3 DEF queue, a
<1>6. \A a, b \in Nat : a <= b /\ b <= AgeMax => older(a) <= older(b) /\ older(b) <= AgeMax
  BY <1>4
<1> HIDE DEF older
<1>7. Aged(idle, new)
  <2>1. \A i \in 1..Len(idle) : idle[i] \in Queues
    BY <1>1, Basics
  <2>2. ASSUME NEW i \in 1..Len(idle) PROVE new[idle[i]].age <= AgeMax
    <3>1. ofo[idle[i]].age <= AgeMax /\ ofo[idle[i]].age \in Nat
      BY <1>1, <1>5, <2>1 DEF FlowInv, Aged
    <3>2. ofo[idle[i]].age <= ofo[idle[i]].age
      BY <3>1
    <3> QED
      BY <1>5, <1>6, <2>1, <3>1, <3>2
  <2>3. ASSUME NEW i \in 1..Len(idle), NEW j \in 1..Len(idle), i < j
        PROVE  /\ new[idle[i]].age <= new[idle[j]].age
               /\ new[idle[i]].hash = 0 => new[idle[j]].hash = 0
    <3>1. /\ ofo[idle[i]].age <= ofo[idle[j]].age /\ ofo[idle[j]].age <= AgeMax
          /\ ofo[idle[i]].hash = 0 => ofo[idle[j]].hash = 0
      BY <1>1, <2>3 DEF FlowInv, Aged
    <3> QED
      BY <1>5, <1>6, <2>1, <3>1
  <2> QED
    BY <2>2, <2>3 DEF Aged
<1>8. Remembered(gro_list, new)
  BY <1>1, <1>5, Basics DEF FlowInv, Remembered
<1>9. Unique(new)
  BY <1>1, <1>5 DEF FlowInv, Unique
<1> QED
  BY <1>1, <1>2, <1>7, <1>8, <1>9, FlowInvOf

(* A flow whose last packets are flushed leaves its queue in front of the  *)
(* idle list, and the queue still remembers it.                            *)
LEMMA FlushEntryRemembers ==
  ASSUME FInv, FlushEntry
  PROVE  FlowInv'
<1> DEFINE q     == gro_list[cursor].q
           k     == CompleteCount(ofo[q], flush_old)
           queue == Complete(ofo[q], k)
<1>1. TypeOK /\ HeadIsQueueHead /\ cursor > 0 /\ cursor \in 1..Len(gro_list)
      /\ flush_old \in BOOLEAN /\ IInv
  <2>1. TypeOK /\ HeadIsQueueHead /\ cursor > 0 /\ IInv
    BY DEF FInv, IInv, FlushEntry
  <2>2. cursor \in 0..Len(gro_list) /\ flush_old \in BOOLEAN /\ Len(gro_list) \in Nat
    BY <2>1, Basics DEF TypeOK
  <2> QED
    BY <2>1, <2>2
<1>2. ~Deleted /\ PoolInv /\ FlowInv
  <2>1. Len(gro_list) # 0
    BY <1>1, Basics
  <2> QED
    BY <1>1, <2>1 DEF FInv, IInv, FreedInv
<1>3. /\ ofo' = [ofo EXCEPT ![q] = queue]
      /\ \/ /\ queue.items = <<>>
            /\ gro_list' = RemoveAt(gro_list, cursor)
            /\ idle' = <<q>> \o idle
         \/ /\ queue.items # <<>>
            /\ gro_list' = [gro_list EXCEPT ![cursor].head = queue.items[1].id]
            /\ idle' = idle
  BY DEF FlushEntry
<1>4. /\ q \in Queues /\ ofo[q] \in QueueType /\ ofo \in [Queues -> QueueType]
      /\ ofo[q].items # <<>> /\ gro_list[cursor].flow \in Flows
      /\ gro_list \in Seq(EntryType) /\ idle \in Seq(Queues)
  BY <1>1, Basics DEF HeadIsQueueHead
<1>5. k \in 0..Len(ofo[q].items)
  <2> DEFINE old == ofo[q]
  <2>1. old \in QueueType
    BY <1>4
  <2> HIDE DEF old
  <2>2. CompleteCount(old, flush_old) \in 0..Len(old.items)
    BY <1>1, <2>1, CompleteCountRange
  <2> QED
    BY <2>2 DEF old
<1>6. /\ queue.hash = ofo[q].hash
      /\ queue.items = <<>> => queue.age = 0
  <2> DEFINE old == ofo[q]
  <2>1. old \in QueueType /\ old.items # <<>> /\ k \in 0..Len(old.items)
    BY <1>4, <1>5
  <2> HIDE DEF old, k
  <2>2. Complete(old, k).hash = old.hash
        /\ (Complete(old, k).items = <<>> => Complete(old, k).age = 0)
    BY <2>1, CompleteRemembers
  <2> QED
    BY <2>2 DEF old
<1> HIDE DEF queue, k
<1>7. CASE queue.items # <<>>
  <2> DEFINE x == queue.items[1].id
  <2>1. gro_list' = [gro_list EXCEPT ![cursor].head = x] /\ idle' = idle
    BY <1>3, <1>7
  <2> HIDE DEF x
  <2> QED
    BY <1>1, <1>2, <1>3, <1>6, <2>1, EntryRemembers
<1>8. CASE queue.items = <<>>
  <2>1. PICK list, rest, new :
          /\ list = gro_list' /\ rest = idle' /\ new = ofo'
          /\ list = RemoveAt(gro_list, cursor) /\ rest = <<q>> \o idle
          /\ new = [ofo EXCEPT ![q] = queue]
    BY <1>3, <1>8
  <2>2. QInj(gro_list) /\ \A j \in 1..Len(idle) : idle[j] # q /\ idle[j] \in Queues
    BY <1>1, <1>2, Basics DEF QInj, PoolInv
  <2>3. queue.hash = TcpHash[gro_list[cursor].flow] /\ queue.hash # 0
    BY <1>1, <1>2, <1>4, <1>6, TcpHashAssumption DEF FlowInv, Remembered
  <2>4. /\ new[q] = queue /\ \A j \in Queues : j # q => new[j] = ofo[j]
        /\ \A j \in Queues : new[j].hash = ofo[j].hash
    BY <1>4, <1>6, <2>1
  <2>5. Aged(rest, new)
    <3>1. \A j \in 1..Len(idle) : new[idle[j]] = ofo[idle[j]] /\ ofo[idle[j]].age \in Nat
      <4>1. \A j \in Queues : ofo[j].age \in Nat
        <5> SUFFICES ASSUME NEW j \in Queues PROVE ofo[j].age \in Nat
          OBVIOUS
        <5>1. ofo[j] \in QueueType
          BY <1>4
        <5> QED
          BY <5>1 DEF QueueType
      <4> QED
        BY <2>2, <2>4, <4>1
    <3>2. new[q].age = 0 /\ new[q].hash # 0 /\ Aged(idle, ofo)
      BY <1>2, <1>6, <1>8, <2>3, <2>4 DEF FlowInv
    <3>3. rest = <<q>> \o idle
      BY <2>1
    <3> HIDE DEF q
    <3> QED
      BY <1>4, <3>1, <3>2, <3>3, FrontAged
  <2>6. Remembered(list, new)
    <3>1. list \in Seq(EntryType) /\ Among(list, gro_list, cursor)
      BY <1>1, <1>4, <2>1, <2>2, RemoveEntry
    <3> SUFFICES ASSUME NEW j \in 1..Len(list)
                 PROVE  new[list[j].q].hash = TcpHash[list[j].flow]
      BY DEF Remembered
    <3>2. PICK m \in 1..Len(gro_list) : m # cursor /\ list[j] = gro_list[m]
      BY <3>1 DEF Among
    <3> QED
      BY <1>1, <1>2, <2>4, <3>2, Basics DEF FlowInv, Remembered
  <2>7. Unique(new)
    BY <1>2, <2>4 DEF FlowInv, Unique
  <2> QED
    BY <2>1, <2>5, <2>6, <2>7, FlowInvOf
<1> QED
  BY <1>7, <1>8

(* A flow that starts to hold packets takes the chosen queue; when gro_list*)
(* is full the oldest flow's queue goes to the front of the idle list.     *)
LEMMA HoldRemembers ==
  ASSUME FInv, PortPairsDiffer, NEW p \in Packets, ReceiveHold(p)
  PROVE  FlowInv'
<1> DEFINE hash  == TcpHash[p.flow]
           i     == IdleIndex(hash)
           x     == idle[i]
           skb   == SkbOf(p, Len(rx) + 1)
           queue == TakenForData(napi_get_tcp_ofo_queue(hash), skb)
           one   == 1
           z     == 0
           items == <<skb>>
           held  == [queue EXCEPT !.items = items, !.skb_num = one, !.age = z, !.hash = hash]
           entry == [flow |-> p.flow, q |-> x, head |-> skb.id]
           l     == gro_list[Len(gro_list)].q
           old   == ofo[l]
           empty == Complete(old, Len(old.items))
           keep  == Front(gro_list)
<1>1. /\ TypeOK /\ ~Deleted /\ Receiving(p) /\ PoolInv /\ IInv /\ FlowInv
      /\ HeadIsQueueHead /\ EntryOf(p.flow) = 0
  BY DEF FInv, IInv, ReceiveHold, Receiving
<1>2. PICK list, rest, new : list = gro_list' /\ rest = idle' /\ new = ofo'
  OBVIOUS
<1>3. \/ /\ list = <<entry>> \o gro_list
         /\ rest = RemoveAt(idle, i)
         /\ new = [ofo EXCEPT ![x] = held]
      \/ /\ gro_count >= MAX_GRO_SKBS
         /\ list = <<entry>> \o keep
         /\ rest = <<l>> \o RemoveAt(idle, i)
         /\ new = [ofo EXCEPT ![x] = held, ![l] = empty]
  BY <1>2 DEF ReceiveHold
<1>4. skb \in SkbType /\ hash \in Nat /\ p.flow \in Flows
  BY <1>1, ReceivingType, HashType
<1>5. /\ i \in 1..Len(idle) /\ hash # 0
      /\ napi_get_tcp_ofo_queue(hash) \in QueueType
      /\ \A q \in Queues : q # x => ofo[q].hash # hash
  BY <1>1, OnlyChosen
<1>6. queue \in QueueType
  <2> DEFINE got == napi_get_tcp_ofo_queue(hash)
  <2>1. got \in QueueType
    BY <1>5
  <2> HIDE DEF got, skb
  <2>2. TakenForData(got, skb) \in QueueType
    BY <1>4, <2>1, TakenForDataType
  <2> QED
    BY <2>2 DEF got
<1>7. items \in Seq(SkbType) /\ one \in Int /\ z \in Nat /\ skb.id \in Nat
  <2> HIDE DEF skb
  <2> QED
    BY <1>4 DEF SkbType
<1> HIDE DEF skb, items, queue, one, i
<1>8. held.hash = hash
  <2> HIDE DEF hash
  <2> QED
    BY <1>6 DEF QueueType
<1>9. /\ gro_list \in Seq(EntryType) /\ idle \in Seq(Queues) /\ Inj(idle)
      /\ ofo \in [Queues -> QueueType] /\ QInj(gro_list) /\ Len(gro_list) \in Nat
      /\ \A q \in Queues : ofo[q].age \in Nat
  <2>1. ofo \in [Queues -> QueueType]
    BY <1>1, Basics
  <2>2. ASSUME NEW q \in Queues PROVE ofo[q].age \in Nat
    <3>1. ofo[q] \in QueueType
      BY <2>1
    <3> QED
      BY <3>1 DEF QueueType
  <2> QED
    BY <1>1, <2>1, <2>2, Basics DEF PoolInv, Inj, QInj
<1>10. x \in Queues /\ \A j \in 1..Len(gro_list) : gro_list[j].q # x /\ gro_list[j].q \in Queues
  BY <1>1, <1>5, <1>9, ElementOfSeq, Basics DEF PoolInv
<1>11. entry \in EntryType /\ entry.q = x /\ entry.flow = p.flow
  BY <1>4, <1>7, <1>10 DEF EntryType
<1> HIDE DEF held, entry, x
<1>12. PICK some : some = RemoveAt(idle, i)
  OBVIOUS
<1>13. /\ some \in Seq(Queues) /\ Aged(some, ofo)
       /\ \A j \in 1..Len(some) : some[j] \in Queues /\ some[j] # x
                                  /\ \E m \in 1..Len(idle) : some[j] = idle[m]
  <2>1. Aged(idle, ofo)
    BY <1>1 DEF FlowInv
  <2>2. some \in Seq(Queues) /\ Aged(some, ofo) /\ Among(some, idle, i)
    BY <1>5, <1>9, <1>12, <2>1, RemoveAged, RemoveAmong
  <2>3. \A j \in 1..Len(some) : some[j] \in Queues
    BY <2>2, ElementOfSeq
  <2>4. ASSUME NEW j \in 1..Len(some)
        PROVE  some[j] # x /\ \E m \in 1..Len(idle) : some[j] = idle[m]
    <3>1. PICK m \in 1..Len(idle) : m # i /\ some[j] = idle[m]
      BY <2>2 DEF Among
    <3> QED
      BY <1>5, <1>9, <3>1 DEF Inj, x
  <2> QED
    BY <2>2, <2>3, <2>4
<1>14. CASE /\ list = <<entry>> \o gro_list
            /\ rest = some
            /\ new = [ofo EXCEPT ![x] = held]
  <2>1. new[x] = held /\ \A q \in Queues : q # x => new[q] = ofo[q]
    BY <1>9, <1>10, <1>14
  <2>2. Aged(rest, new)
    <3>1. \A j \in 1..Len(some) : new[some[j]] = ofo[some[j]]
      BY <1>13, <2>1
    <3> QED
      BY <1>13, <1>14, <3>1 DEF Aged
  <2>3. Remembered(list, new)
    <3>1. Behind(list, entry, gro_list)
      BY <1>9, <1>10, <1>11, <1>14, ConsEntry
    <3> SUFFICES ASSUME NEW j \in 1..Len(list)
                 PROVE  new[list[j].q].hash = TcpHash[list[j].flow]
      BY DEF Remembered
    <3>2. CASE j = 1
      BY <1>8, <1>11, <2>1, <3>1, <3>2 DEF Behind
    <3>3. CASE j # 1
      <4>1. PICK m \in 1..Len(gro_list) : list[j] = gro_list[m]
        BY <3>1, <3>3 DEF Behind
      <4> QED
        BY <1>1, <1>10, <2>1, <4>1 DEF FlowInv, Remembered
    <3> QED
      BY <3>2, <3>3
  <2>4. Unique(new)
    BY <1>1, <1>5, <1>8, <1>10, <2>1, TakenUnique DEF FlowInv
  <2> QED
    BY <1>2, <2>2, <2>3, <2>4, FlowInvOf
<1>15. CASE /\ gro_count >= MAX_GRO_SKBS
            /\ list = <<entry>> \o keep
            /\ rest = <<l>> \o some
            /\ new = [ofo EXCEPT ![x] = held, ![l] = empty]
  <2>0. Len(gro_list) \in 1..Len(gro_list)
    <3>1. gro_count = Len(gro_list) /\ gro_count >= MAX_GRO_SKBS
      BY <1>1, <1>15 DEF PoolInv
    <3> QED
      BY <1>9, <3>1, MaxGroSkbsAssumption
  <2>1. /\ l \in Queues /\ l # x /\ old \in QueueType /\ old.items # <<>>
        /\ old.hash = TcpHash[gro_list[Len(gro_list)].flow]
        /\ gro_list[Len(gro_list)].flow \in Flows
    BY <1>1, <1>10, <2>0, Basics DEF HeadIsQueueHead, FlowInv, Remembered
  <2>2. old.hash # 0
    BY <2>1, TcpHashAssumption
  <2>3. empty.hash = old.hash /\ empty.age = 0
    <3> HIDE DEF old
    <3>1. old.items \in Seq(SkbType)
      BY <2>1 DEF QueueType
    <3>2. Len(old.items) \in 0..Len(old.items) /\ Len(old.items) # 0
      BY <2>1, <3>1, LenProperties, EmptySeq
    <3> QED
      BY <2>1, <3>2, CompleteRemembers
  <2> HIDE DEF empty, l, old
  <2>4. /\ new[x] = held /\ new[l] = empty
        /\ \A q \in Queues : q # x /\ q # l => new[q] = ofo[q]
    BY <1>9, <1>10, <1>15, <2>1
  <2>5. \A q \in Queues : q # x => new[q].hash = ofo[q].hash
    BY <2>3, <2>4 DEF old
  <2>6. Aged(rest, new)
    <3>1. \A j \in 1..Len(some) : some[j] # l
      BY <1>1, <1>13, <2>0 DEF PoolInv, l
    <3>2. \A j \in 1..Len(some) : new[some[j]] = ofo[some[j]] /\ ofo[some[j]].age \in Nat
      BY <1>9, <1>13, <2>4, <3>1
    <3>3. new[l].age = 0 /\ new[l].hash # 0 /\ rest = <<l>> \o some
      BY <1>15, <2>2, <2>3, <2>4
    <3> QED
      BY <1>13, <2>1, <3>2, <3>3, FrontAged
  <2>7. Remembered(list, new)
    <3>1. PICK k : k = keep
      OBVIOUS
    <3>2. k \in Seq(EntryType) /\ QInj(k) /\ Among(k, gro_list, Len(gro_list))
      BY <1>9, <2>0, <3>1, FrontEntries
    <3>3. \A j \in 1..Len(k) : k[j].q # entry.q
      BY <1>10, <1>11, <3>2 DEF Among
    <3>4. list = <<entry>> \o k
      BY <1>15, <3>1
    <3>5. Behind(list, entry, k)
      BY <1>11, <3>2, <3>3, <3>4, ConsEntry
    <3> SUFFICES ASSUME NEW j \in 1..Len(list)
                 PROVE  new[list[j].q].hash = TcpHash[list[j].flow]
      BY DEF Remembered
    <3>6. CASE j = 1
      BY <1>8, <1>11, <2>4, <3>5, <3>6 DEF Behind
    <3>7. CASE j # 1
      <4>1. PICK n \in 1..Len(k) : list[j] = k[n]
        BY <3>5, <3>7 DEF Behind
      <4>2. PICK m \in 1..Len(gro_list) : k[n] = gro_list[m]
        BY <3>2 DEF Among
      <4>3. new[gro_list[m].q].hash = ofo[gro_list[m].q].hash
        BY <1>10, <2>5
      <4> QED
        BY <1>1, <4>1, <4>2, <4>3 DEF FlowInv, Remembered
    <3> QED
      BY <3>6, <3>7
  <2>8. Unique(new)
    BY <1>1, <1>5, <1>8, <1>10, <2>4, <2>5, TakenUnique DEF FlowInv
  <2> QED
    BY <1>2, <2>6, <2>7, <2>8, FlowInvOf
<1> QED
  BY <1>3, <1>12, <1>14, <1>15

LEMMA InitFInv ==
  ASSUME Init
  PROVE  FInv
<1> DEFINE a == AgeMax
<1>1. /\ IInv /\ ~Deleted /\ TypeOK /\ gro_list = <<>> /\ AgeMax \in Nat
  BY InitIInv, AgeMaxType DEF Init, Deleted, IInv
<1>2. \A q \in Queues : ofo[q].age = AgeMax /\ ofo[q].hash = 0
  <2>1. PICK garbage : ofo = [q \in Queues |-> FreshQueue(garbage[q])]
    BY DEF Init
  <2>2. ASSUME NEW b PROVE FreshQueue(b).age = a /\ FreshQueue(b).hash = 0
    <3>1. FreshQueue(b) = [hash |-> 0, seq_next |-> 0, flushed |-> b, age |-> a,
                           skb_num |-> 0, items |-> <<>>]
      BY DEF FreshQueue
    <3> HIDE DEF a
    <3> QED
      BY <3>1
  <2> QED
    BY <2>1, <2>2
<1>3. \A i \in 1..Len(idle) : idle[i] \in Queues
  BY <1>1, Basics
<1>4. Aged(idle, ofo)
  <2> HIDE DEF a
  <2> QED
    BY <1>1, <1>2, <1>3 DEF Aged
<1>5. Remembered(gro_list, ofo) /\ Unique(ofo)
  BY <1>1, <1>2 DEF Remembered, Unique
<1> QED
  BY <1>1, <1>4, <1>5 DEF FInv, FlowInv

LEMMA NextKeepsFInv ==
  ASSUME FInv, PortPairsDiffer, [Next]_vars
  PROVE  FInv'
<1>0. IInv'
  BY NextKeepsIInv DEF FInv
<1>1. ASSUME Deleted PROVE Deleted'
  BY <1>1 DEF Next, Deleted, napi_gro_receive, ReceiveBypass, ReceiveFound, ReceiveControl,
     ReceiveStale, ReceiveHold, Receiving, FlushBegin, FlushEntry, napi_clean_tcp_ofo_queue,
     netif_napi_del, Tick, vars
<1>2. SUFFICES ASSUME ~Deleted, ~Deleted' PROVE FlowInv'
  BY <1>0, <1>1 DEF FInv
<1>3. CASE /\ UNCHANGED <<ofo, idle, gro_list>>
  BY <1>2, <1>3 DEF FInv, FlowInv, Aged, AgeMax, Remembered, Unique, Queues
<1>4. ASSUME NEW p \in Packets, napi_gro_receive(p) PROVE FlowInv'
  <2>1. CASE ReceiveBypass(p)
    BY <1>3, <2>1 DEF ReceiveBypass, engine_vars
  <2>2. CASE ReceiveFound(p)
    BY <2>2, FoundRemembers
  <2>3. CASE ReceiveControl(p)
    BY <2>3, ControlRemembers
  <2>4. CASE ReceiveStale(p)
    BY <2>4, StaleRemembers
  <2>5. CASE ReceiveHold(p)
    BY <2>5, HoldRemembers
  <2> QED
    BY <1>4, <2>1, <2>2, <2>3, <2>4, <2>5 DEF napi_gro_receive
<1>5. ASSUME NEW old \in BOOLEAN, FlushBegin(old) PROVE FlowInv'
  BY <1>3, <1>5 DEF FlushBegin, engine_vars
<1>6. CASE FlushEntry
  BY <1>6, FlushEntryRemembers
<1>7. CASE napi_clean_tcp_ofo_queue
  BY <1>7, CleanRemembers
<1>8. CASE netif_napi_del
  BY <1>2, <1>8 DEF netif_napi_del, Deleted
<1>9. CASE Tick
  BY <1>2, <1>9, TickRemembers
<1>10. CASE UNCHANGED vars
  BY <1>3, <1>10 DEF vars
<1> QED
  BY <1>4, <1>5, <1>6, <1>7, <1>8, <1>9, <1>10 DEF Next

(* No two queues remember the same port pair, provided that no two flows   *)
(* have the same one: a flow is never split over two queues, whichever     *)
(* queues were taken from others, reset by napi_clean_tcp_ofo_queue or     *)
(* given back by flushes and evictions in between.  The lookup compares    *)
(* the port pair alone (dev.c:4172), so without the proviso it is false.   *)
THEOREM OneQueueCorrect ==
  ASSUME PortPairsDiffer
  PROVE  Spec => []OneQueuePerHash
<1>1. Init => FInv
  BY InitFInv
<1>2. FInv /\ [Next]_vars => FInv'
  BY NextKeepsFInv
<1>3. FInv => OneQueuePerHash
  BY DEF FInv, FlowInv, Unique, OneQueuePerHash
<1> QED
  BY <1>1, <1>2, <1>3, PTL DEF Spec

-----------------------------------------------------------------------------
(* Merging and order.                                                      *)

(* The packets of pkts were received, and follow one another in log as     *)
(* Resegmentable demands of rx.                                            *)
Whole(log, pkts) ==
  /\ pkts \in Seq(1..Len(log))
  /\ \A k \in 1..(Len(pkts) - 1) :
       LET a == log[pkts[k]]
           b == log[pkts[k + 1]]
       IN  /\ SeqEnd(a) = b.seq
           /\ a.hdr = b.hdr
           /\ a.len = log[pkts[1]].len
           /\ b.len <= a.len
           /\ ~a.psh

(* The fields of an skb are those of its first packet, except for its end  *)
(* and PSH, which are those of its last one; gso_end is set as soon as the *)
(* last one is shorter than the first.                                     *)
Ends(s, first, last) ==
  /\ s.seq = first.seq /\ s.gso = first.len
  /\ SeqEnd(s) = SeqEnd(last) /\ s.psh = last.psh
  /\ ~s.gso_end => last.len = s.gso

Built(log, f, s) ==
  /\ Whole(log, s.pkts) /\ Len(s.pkts) > 0
  /\ \A k \in 1..Len(s.pkts) : log[s.pkts[k]].flow = f /\ log[s.pkts[k]].hdr = s.hdr
  /\ Ends(s, log[s.pkts[1]], log[s.pkts[Len(s.pkts)]])

Spans(s, W) == s.seq \in W /\ SeqEnd(s) \in W /\ before(s.seq, SeqEnd(s))

Skbs(log, f, W) == {s \in SkbType : Built(log, f, s) /\ (W # {} => Spans(s, W))}

LEMMA LogElement ==
  ASSUME NEW log \in Seq(Packets), NEW i \in 1..Len(log)
  PROVE  log[i] \in PacketType /\ log[i].len \in Nat /\ log[i].seq \in SeqNumbers
<1>1. log[i] \in PacketType
  BY ElementOfSeq, PacketsAssumption
<1> QED
  BY <1>1 DEF PacketType, SeqNumbers

(* A merge that skb_gro_merge allows of two such skbs makes another one.   *)
LEMMA MergedBuilt ==
  ASSUME NEW log \in Seq(Packets), NEW f, NEW p \in SkbType, NEW s \in SkbType,
         Built(log, f, p), Built(log, f, s), Chains(p, s), NEW m, m = Merged(p, s)
  PROVE  Built(log, f, m)
<1> DEFINE a == Len(p.pkts)
           b == Len(s.pkts)
           I == 1..Len(log)
           pl == log[p.pkts[a]]
           sf == log[s.pkts[1]]
           sl == log[s.pkts[b]]
           pf == log[p.pkts[1]]
<1>1. /\ p.pkts \in Seq(I) /\ s.pkts \in Seq(I) /\ a \in Nat /\ b \in Nat /\ a > 0 /\ b > 0
      /\ p.gso \in Nat /\ s.gso \in Nat
  BY LenProperties DEF Built, Whole, SkbType
<1>0. Len(p.pkts) = a /\ Len(s.pkts) = b
  OBVIOUS
<1>2. /\ m.seq = p.seq /\ m.hdr = p.hdr /\ m.gso = p.gso /\ m.psh = s.psh
      /\ m.gso_end = (s.gso_end \/ p.gso > s.gso) /\ m.pkts = p.pkts \o s.pkts
      /\ SeqEnd(m) = SeqEnd(s)
  BY MergedEnds DEF Chains
<1>3. /\ ~p.psh /\ p.hdr = s.hdr /\ ~p.gso_end /\ SeqEnd(p) = s.seq
      /\ s.gso <= p.gso /\ (b > 1 => p.gso = s.gso)
  BY <1>1 DEF Chains, Mergeable, MergeFail
<1>4. /\ m.pkts \in Seq(I) /\ Len(m.pkts) = a + b
      /\ \A k \in 1..(a + b) : m.pkts[k] = IF k <= a THEN p.pkts[k] ELSE s.pkts[k - a]
  <2>1. PICK u, v, w : u = p.pkts /\ v = s.pkts /\ w = m.pkts
    OBVIOUS
  <2>2. u \in Seq(I) /\ v \in Seq(I) /\ w = u \o v /\ Len(u) = a /\ Len(v) = b
    BY <1>1, <1>2, <2>1
  <2>3. /\ w \in Seq(I) /\ Len(w) = Len(u) + Len(v)
        /\ \A k \in 1..(Len(u) + Len(v)) : w[k] = IF k <= Len(u) THEN u[k] ELSE v[k - Len(u)]
    BY <2>2, ConcatProperties
  <2> HIDE DEF a, b
  <2> QED
    BY <2>1, <2>2, <2>3
<1>5. /\ p.seq = pf.seq /\ p.gso = pf.len /\ SeqEnd(p) = SeqEnd(pl) /\ p.psh = pl.psh
      /\ ~p.gso_end => pl.len = p.gso
      /\ s.seq = sf.seq /\ s.gso = sf.len /\ SeqEnd(s) = SeqEnd(sl) /\ s.psh = sl.psh
      /\ ~s.gso_end => sl.len = s.gso
  BY DEF Built, Ends
<1>6. /\ \A k \in 1..a : log[p.pkts[k]].flow = f /\ log[p.pkts[k]].hdr = p.hdr
      /\ \A k \in 1..b : log[s.pkts[k]].flow = f /\ log[s.pkts[k]].hdr = s.hdr
  BY DEF Built
<1>8. Ends(m, pf, sl)
  <2> HIDE DEF pf, sl, pl, sf
  <2>1. m.seq = pf.seq /\ m.gso = pf.len /\ SeqEnd(m) = SeqEnd(sl) /\ m.psh = sl.psh
    BY <1>2, <1>5
  <2>2. ~m.gso_end => ~s.gso_end /\ ~(p.gso > s.gso)
    BY <1>2
  <2>3. ~m.gso_end => sl.len = m.gso
    BY <1>1, <1>2, <1>3, <1>5, <2>2
  <2> QED
    BY <2>1, <2>3 DEF Ends
<1> HIDE DEF a, b, I
<1>7. m.pkts[1] = p.pkts[1] /\ m.pkts[a + b] = s.pkts[b]
  <2>1. 1 \in 1..(a + b) /\ a + b \in 1..(a + b) /\ (a + b) - a = b /\ ~(a + b <= a) /\ 1 <= a
    BY <1>1
  <2> QED
    BY <1>4, <2>1
<1>9. ASSUME NEW k \in 1..(a + b)
      PROVE  log[m.pkts[k]].flow = f /\ log[m.pkts[k]].hdr = m.hdr
  <2>1. CASE k <= a
    <3>1. k \in 1..a /\ m.pkts[k] = p.pkts[k]
      BY <1>1, <1>4, <2>1
    <3> QED
      BY <1>2, <1>6, <3>1
  <2>2. CASE ~(k <= a)
    <3>1. k - a \in 1..b /\ m.pkts[k] = s.pkts[k - a]
      BY <1>1, <1>4, <2>2
    <3> QED
      BY <1>2, <1>3, <1>6, <3>1
  <2> QED
    BY <2>1, <2>2
<1>10. ASSUME NEW k \in 1..(a + b - 1)
       PROVE  LET x == log[m.pkts[k]]
                  y == log[m.pkts[k + 1]]
              IN  /\ SeqEnd(x) = y.seq /\ x.hdr = y.hdr /\ x.len = log[m.pkts[1]].len
                  /\ y.len <= x.len /\ ~x.psh
  <2>0. /\ k \in 1..(a + b) /\ k + 1 \in 1..(a + b)
        /\ log[m.pkts[k]].hdr = log[m.pkts[k + 1]].hdr
    <3>1. k \in 1..(a + b) /\ k + 1 \in 1..(a + b)
      BY <1>1
    <3> QED
      BY <1>9, <3>1
  <2>1. CASE k < a
    <3>1. m.pkts[k] = p.pkts[k] /\ m.pkts[k + 1] = p.pkts[k + 1] /\ k \in 1..(a - 1)
      BY <1>1, <1>4, <2>0, <2>1
    <3> QED
      BY <1>7, <2>0, <3>1 DEF Built, Whole, a
  <2>2. CASE k = a
    <3>1. m.pkts[k] = p.pkts[a] /\ m.pkts[k + 1] = s.pkts[1]
      BY <1>1, <1>4, <2>0, <2>2
    <3> QED
      BY <1>3, <1>5, <1>7, <2>0, <3>1
  <2>3. CASE k > a
    <3>1. /\ m.pkts[k] = s.pkts[k - a] /\ m.pkts[k + 1] = s.pkts[(k - a) + 1]
          /\ k - a \in 1..(b - 1) /\ b > 1
      <4>1. (k + 1) - a = (k - a) + 1 /\ ~(k <= a) /\ ~(k + 1 <= a)
        BY <1>1, <2>3
      <4>2. m.pkts[k] = s.pkts[k - a] /\ m.pkts[k + 1] = s.pkts[(k + 1) - a]
        BY <1>4, <2>0, <4>1
      <4>3. k - a \in 1..(b - 1) /\ b > 1
        BY <1>1, <2>3
      <4> QED
        BY <4>1, <4>2, <4>3
    <3>2. /\ SeqEnd(log[s.pkts[k - a]]) = log[s.pkts[(k - a) + 1]].seq
          /\ log[s.pkts[k - a]].len = sf.len
          /\ log[s.pkts[(k - a) + 1]].len <= log[s.pkts[k - a]].len
          /\ ~log[s.pkts[k - a]].psh
      BY <3>1 DEF Built, Whole, b
    <3>3. sf.len = pf.len
      BY <1>3, <1>5, <3>1
    <3> QED
      BY <1>7, <2>0, <3>1, <3>2, <3>3
  <2> QED
    BY <1>1, <2>1, <2>2, <2>3
<1>11. Whole(log, m.pkts)
  <2>1. PICK w : w = m.pkts
    OBVIOUS
  <2>0. w \in Seq(I) /\ Len(w) = a + b /\ a + b \in Nat
    BY <1>1, <1>4, <2>1
  <2>2. PICK n : n = Len(w) - 1 /\ w \in Seq(I)
    BY <2>0
  <2>5. n = (a + b) - 1
    BY <2>0, <2>2
  <2>3. ASSUME NEW k \in 1..n
        PROVE  /\ SeqEnd(log[w[k]]) = log[w[k + 1]].seq /\ log[w[k]].hdr = log[w[k + 1]].hdr
               /\ log[w[k]].len = log[w[1]].len /\ log[w[k + 1]].len <= log[w[k]].len
               /\ ~log[w[k]].psh
    <3>1. k \in 1..(a + b - 1)
      BY <1>1, <2>5
    <3> QED
      BY <1>10, <2>1, <3>1
  <2>4. Whole(log, w)
    BY <2>2, <2>3, <2>5 DEF Whole, I
  <2> QED
    BY <2>1, <2>4
<1>12. Ends(m, log[m.pkts[1]], log[m.pkts[Len(m.pkts)]]) /\ Len(m.pkts) > 0
  BY <1>1, <1>4, <1>7, <1>8
<1> QED
  BY <1>4, <1>9, <1>11, <1>12 DEF Built

LEMMA SkbsSpace ==
  ASSUME NEW log \in Seq(Packets), NEW f, NEW W, W # {} => Linear(W)
  PROVE  Space(Skbs(log, f, W), W)
<1> DEFINE G == Skbs(log, f, W)
<1>1. G \subseteq SkbType
  BY DEF Skbs
<1>2. ASSUME NEW p \in G, NEW s \in G, Chains(p, s) PROVE Merged(p, s) \in G
  <2>1. PICK m : m = Merged(p, s)
    OBVIOUS
  <2>2. /\ p \in SkbType /\ s \in SkbType /\ Built(log, f, p) /\ Built(log, f, s)
        /\ W # {} => Spans(p, W) /\ Spans(s, W)
    BY DEF Skbs
  <2> HIDE DEF G
  <2>3. m \in SkbType /\ Built(log, f, m)
    BY <1>2, <2>1, <2>2, MergedType, MergedBuilt
  <2>4. m.seq = p.seq /\ SeqEnd(m) = SeqEnd(s) /\ SeqEnd(p) = s.seq
    BY <1>2, <2>1, <2>2, MergedEnds DEF Chains
  <2>5. W # {} => Spans(m, W)
    <3>1. PICK a, b, c : a = p.seq /\ b = s.seq /\ c = SeqEnd(s)
      OBVIOUS
    <3>2. W # {} => Linear(W) /\ a \in W /\ b \in W /\ c \in W /\ before(a, b) /\ before(b, c)
      BY <2>2, <2>4, <3>1 DEF Spans
    <3>3. W # {} => before(a, c)
      BY <3>2 DEF Linear
    <3> QED
      BY <2>4, <3>1, <3>2, <3>3 DEF Spans
  <2> QED
    BY <2>1, <2>3, <2>5 DEF G, Skbs
<1>3. W # {} => InOrderedSpace(G, W)
  BY DEF InOrderedSpace, Skbs, Spans
<1> QED
  BY <1>1, <1>2, <1>3 DEF Space, Closed

(* What was received stays in the log.                                     *)
LEMMA Grows ==
  ASSUME NEW log \in Seq(Packets), NEW p \in Packets, NEW more, more = Append(log, p)
  PROVE  /\ more \in Seq(Packets) /\ Len(more) = Len(log) + 1 /\ Len(log) \in Nat
         /\ \A i \in 1..Len(log) : more[i] = log[i]
         /\ more[Len(log) + 1] = p
<1>1. Len(log) \in Nat
  BY LenProperties
<1> QED
  BY <1>1, AppendProperties

LEMMA WholeGrows ==
  ASSUME NEW log \in Seq(Packets), NEW p \in Packets, NEW more, more = Append(log, p),
         NEW pkts, Whole(log, pkts)
  PROVE  Whole(more, pkts)
<1>1. /\ Len(more) = Len(log) + 1 /\ Len(log) \in Nat
      /\ \A i \in 1..Len(log) : more[i] = log[i]
  BY Grows
<1>2. pkts \in Seq(1..Len(log)) /\ Len(pkts) \in Nat
  BY LenProperties DEF Whole
<1>3. ASSUME NEW k \in 1..Len(pkts)
      PROVE  pkts[k] \in 1..Len(more) /\ more[pkts[k]] = log[pkts[k]]
  <2>1. pkts[k] \in 1..Len(log)
    BY <1>2, ElementOfSeq
  <2> QED
    BY <1>1, <2>1
<1>4. pkts \in Seq(1..Len(more))
  BY <1>2, <1>3, SeqIn
<1>5. ASSUME NEW k \in 1..(Len(pkts) - 1)
      PROVE  /\ more[pkts[k]] = log[pkts[k]] /\ more[pkts[k + 1]] = log[pkts[k + 1]]
             /\ more[pkts[1]] = log[pkts[1]]
  <2>1. k \in 1..Len(pkts) /\ k + 1 \in 1..Len(pkts) /\ 1 \in 1..Len(pkts)
    BY <1>2
  <2> QED
    BY <1>3, <2>1
<1> QED
  BY <1>4, <1>5 DEF Whole

LEMMA SkbsGrow ==
  ASSUME NEW log \in Seq(Packets), NEW p \in Packets, NEW more, more = Append(log, p),
         NEW f, NEW W
  PROVE  Skbs(log, f, W) \subseteq Skbs(more, f, W)
<1> SUFFICES ASSUME NEW s \in Skbs(log, f, W) PROVE s \in Skbs(more, f, W)
  OBVIOUS
<1>1. s \in SkbType /\ Built(log, f, s) /\ (W # {} => Spans(s, W))
  BY DEF Skbs
<1>2. Whole(log, s.pkts) /\ Len(s.pkts) > 0 /\ Len(s.pkts) \in Nat
  BY <1>1, LenProperties DEF Built, Whole
<1>3. Whole(more, s.pkts) /\ \A k \in 1..Len(s.pkts) : more[s.pkts[k]] = log[s.pkts[k]]
  <2>1. PICK t : t = s.pkts
    OBVIOUS
  <2>2. Whole(log, t)
    BY <1>2, <2>1
  <2>4. Whole(more, t)
    BY <2>2, WholeGrows
  <2>5. \A k \in 1..Len(t) : more[t[k]] = log[t[k]]
    <3>1. Len(log) \in Nat /\ \A i \in 1..Len(log) : more[i] = log[i]
      BY Grows
    <3>2. \A k \in 1..Len(t) : t[k] \in 1..Len(log)
      BY <2>2, ElementOfSeq DEF Whole
    <3> QED
      BY <3>1, <3>2
  <2>3. Whole(more, t) /\ \A k \in 1..Len(t) : more[t[k]] = log[t[k]]
    BY <2>4, <2>5
  <2> QED
    BY <2>1, <2>3
<1>4. 1 \in 1..Len(s.pkts) /\ Len(s.pkts) \in 1..Len(s.pkts)
  BY <1>2
<1>5. Built(more, f, s)
  BY <1>1, <1>2, <1>3, <1>4 DEF Built
<1> QED
  BY <1>1, <1>5 DEF Skbs

-----------------------------------------------------------------------------
(* The invariant.  win gives each flow a part of the sequence space on     *)
(* which before is an order and in which its segments lie; for a flow with *)
(* win[f] = {} nothing is claimed about order.                             *)
Fits(W, f) ==
  W # {} => /\ Linear(W)
            /\ \A p \in Packets : p.flow = f /\ p.kind = "data" => Spans(p, W)

Windows(win) == \A f \in Flows : Fits(win[f], f)

Orderly(log, W, f, queue) ==
  /\ queue.items \in Seq(Skbs(log, f, W))
  /\ queue.skb_num = Len(queue.items)
  /\ W # {} => Rising(queue.items)

AllOrderly(log, list, queues, win) ==
  \A e \in 1..Len(list) : Orderly(log, win[list[e].flow], list[e].flow, queues[list[e].q])

AllWhole(log, passed) == \A i \in 1..Len(passed) : Whole(log, passed[i])

OInv(win) == IInv /\ AllWhole(rx, out) /\ AllOrderly(rx, gro_list, ofo, win)

(* The log after a step is the one before it, or has one more packet.      *)
More(log, more) == more = log \/ \E p \in Packets : more = Append(log, p)

LEMMA MoreGrows ==
  ASSUME NEW log \in Seq(Packets), NEW more, More(log, more)
  PROVE  /\ more \in Seq(Packets)
         /\ \A f, W : Skbs(log, f, W) \subseteq Skbs(more, f, W)
         /\ \A pkts : Whole(log, pkts) => Whole(more, pkts)
<1>1. CASE more = log
  BY <1>1
<1>2. CASE more # log
  <2>1. PICK p \in Packets : more = Append(log, p)
    BY <1>2 DEF More
  <2>2. more \in Seq(Packets)
    BY <2>1, Grows
  <2>3. \A f, W : Skbs(log, f, W) \subseteq Skbs(more, f, W)
    BY <2>1, SkbsGrow
  <2>4. \A pkts : Whole(log, pkts) => Whole(more, pkts)
    BY <2>1, WholeGrows
  <2> QED
    BY <2>2, <2>3, <2>4
<1> QED
  BY <1>1, <1>2

LEMMA SubSeqOf ==
  ASSUME NEW S, NEW T, S \subseteq T, NEW s \in Seq(S)
  PROVE  s \in Seq(T)
<1>1. \A i \in 1..Len(s) : s[i] \in T
  BY ElementOfSeq
<1> QED
  BY <1>1, SeqIn

LEMMA OrderlyGrows ==
  ASSUME NEW log \in Seq(Packets), NEW more, More(log, more), NEW W, NEW f, NEW queue,
         Orderly(log, W, f, queue)
  PROVE  Orderly(more, W, f, queue)
<1>1. Skbs(log, f, W) \subseteq Skbs(more, f, W) /\ queue.items \in Seq(Skbs(log, f, W))
  BY MoreGrows DEF Orderly
<1>2. queue.items \in Seq(Skbs(more, f, W))
  BY <1>1, SubSeqOf
<1> QED
  BY <1>2 DEF Orderly

LEMMA AllWholeGrows ==
  ASSUME NEW log \in Seq(Packets), NEW more, More(log, more), NEW passed, AllWhole(log, passed)
  PROVE  AllWhole(more, passed)
BY MoreGrows DEF AllWhole

LEMMA ConcatWhole ==
  ASSUME NEW log, NEW s \in Seq(Seq(Nat)), NEW t \in Seq(Seq(Nat)),
         AllWhole(log, s), AllWhole(log, t)
  PROVE  s \o t \in Seq(Seq(Nat)) /\ AllWhole(log, s \o t)
<1>0. Len(s) \in Nat /\ Len(t) \in Nat
  BY LenProperties
<1>1. /\ s \o t \in Seq(Seq(Nat)) /\ Len(s \o t) = Len(s) + Len(t)
      /\ \A i \in 1..(Len(s) + Len(t)) :
           (s \o t)[i] = IF i <= Len(s) THEN s[i] ELSE t[i - Len(s)]
  BY ConcatProperties
<1>2. ASSUME NEW i \in 1..(Len(s) + Len(t)) PROVE Whole(log, (s \o t)[i])
  <2>1. CASE i <= Len(s)
    <3>1. (s \o t)[i] = s[i] /\ i \in 1..Len(s)
      BY <1>0, <1>1, <2>1
    <3> QED
      BY <3>1 DEF AllWhole
  <2>2. CASE ~(i <= Len(s))
    <3>1. (s \o t)[i] = t[i - Len(s)] /\ i - Len(s) \in 1..Len(t)
      BY <1>0, <1>1, <2>2
    <3> QED
      BY <3>1 DEF AllWhole
  <2> QED
    BY <2>1, <2>2
<1> QED
  BY <1>1, <1>2 DEF AllWhole

LEMMA AppendWhole ==
  ASSUME NEW log, NEW s \in Seq(Seq(Nat)), NEW x, <<x>> \in Seq(Seq(Nat)),
         AllWhole(log, s), AllWhole(log, <<x>>)
  PROVE  AllWhole(log, Append(s, x))
<1>1. PICK t : t = <<x>>
  OBVIOUS
<1>2. x \in Seq(Nat)
  <2>1. t \in Seq(Seq(Nat)) /\ 1 \in 1..Len(t) /\ t[1] = x
    BY <1>1
  <2> QED
    BY <2>1, ElementOfSeq
<1>3. AllWhole(log, s \o t)
  BY <1>1, ConcatWhole
<1>4. Append(s, x) = s \o t
  BY <1>1, <1>2
<1> QED
  BY <1>3, <1>4

LEMMA PktsWhole ==
  ASSUME NEW log, NEW f, NEW W, NEW items \in Seq(Skbs(log, f, W))
  PROVE  PktsOf(items) \in Seq(Seq(Nat)) /\ AllWhole(log, PktsOf(items))
<1>1. Skbs(log, f, W) \subseteq SkbType
  BY DEF Skbs
<1>2. items \in Seq(SkbType) /\ Len(items) \in Nat
  BY <1>1, SubSeqOf, LenProperties
<1>3. PktsOf(items) \in Seq(Seq(Nat))
  BY <1>2, PktsOfType
<1>4. /\ Len(PktsOf(items)) = Len(items)
      /\ \A i \in 1..Len(items) : PktsOf(items)[i] = items[i].pkts
  BY <1>2 DEF PktsOf
<1>5. ASSUME NEW i \in 1..Len(items) PROVE Whole(log, items[i].pkts)
  <2>1. items[i] \in Skbs(log, f, W)
    BY ElementOfSeq
  <2> QED
    BY <2>1 DEF Skbs, Built
<1> QED
  BY <1>3, <1>4, <1>5 DEF AllWhole

(* The skb of a packet that has just been received.                        *)
LEMMA SkbOfBuilt ==
  ASSUME NEW log \in Seq(Packets), NEW p \in Packets, NEW more, more = Append(log, p),
         NEW skb, skb = SkbOf(p, Len(log) + 1)
  PROVE  /\ skb.pkts = <<Len(log) + 1>> /\ <<skb.pkts>> \in Seq(Seq(Nat))
         /\ Whole(more, skb.pkts) /\ AllWhole(more, <<skb.pkts>>)
         /\ \A W : p.kind = "data" /\ Fits(W, p.flow) => skb \in Skbs(more, p.flow, W)
<1> DEFINE n == Len(log) + 1
<1>1. n \in Nat /\ Len(log) \in Nat
  BY LenProperties
<1>2. more[n] = p /\ Len(more) = n
  BY Grows
<1>3. skb \in SkbType
  BY <1>1, SkbOfType
<1> HIDE DEF n
<1>4. /\ skb.seq = p.seq /\ skb.len = p.len /\ skb.psh = p.psh /\ skb.hdr = p.hdr
      /\ skb.gso = p.len /\ skb.gso_end = FALSE /\ skb.pkts = <<n>>
  BY DEF SkbOf, n
<1>5. /\ <<n>> \in Seq(1..Len(more)) /\ Len(<<n>>) = 1 /\ <<n>>[1] = n
      /\ <<n>> \in Seq(Nat) /\ <<<<n>>>> \in Seq(Seq(Nat))
      /\ Len(<<<<n>>>>) = 1 /\ <<<<n>>>>[1] = <<n>>
  <2>1. n \in 1..Len(more)
    BY <1>1, <1>2 DEF n
  <2> QED
    BY <1>1, <2>1
<1>6. Whole(more, skb.pkts)
  <2>1. PICK t : t = <<n>>
    OBVIOUS
  <2>2. t \in Seq(1..Len(more)) /\ Len(t) - 1 = 0
    BY <1>5, <2>1
  <2>3. \A k \in 1..0 : FALSE
    OBVIOUS
  <2>4. Whole(more, t)
    BY <2>2, <2>3 DEF Whole
  <2> QED
    BY <1>4, <2>1, <2>4
<1>7. AllWhole(more, <<skb.pkts>>)
  BY <1>4, <1>5, <1>6 DEF AllWhole
<1>8. Built(more, p.flow, skb)
  <2>1. SeqEnd(skb) = SeqEnd(p)
    BY <1>4 DEF SeqEnd
  <2>2. Ends(skb, p, p)
    BY <1>4, <2>1 DEF Ends
  <2> QED
    BY <1>2, <1>4, <1>5, <1>6, <2>2 DEF Built
<1>9. ASSUME NEW W, p.kind = "data", Fits(W, p.flow) PROVE skb \in Skbs(more, p.flow, W)
  <2>1. W # {} => Spans(p, W)
    BY <1>9 DEF Fits
  <2>2. W # {} => Spans(skb, W)
    BY <1>4, <2>1 DEF Spans, SeqEnd
  <2> QED
    BY <1>3, <1>8, <2>2 DEF Skbs
<1> QED
  BY <1>4, <1>5, <1>6, <1>7, <1>9 DEF n

(* Passing up a prefix of a queue leaves the rest of it in order.          *)
LEMMA CompleteOrderly ==
  ASSUME NEW log, NEW W, NEW f, NEW queue \in QueueType, Orderly(log, W, f, queue),
         NEW k \in 0..Len(queue.items)
  PROVE  /\ Orderly(log, W, f, Complete(queue, k))
         /\ SubSeq(queue.items, 1, k) \in Seq(Skbs(log, f, W))
<1> DEFINE items == queue.items
           rest  == SubSeq(items, k + 1, Len(items))
           s     == SeqNextAfter(queue)[k]
           z     == 0
           b     == TRUE
           n     == queue.skb_num - k
           q     == [queue EXCEPT !.items = rest, !.seq_next = s, !.age = z,
                                  !.flushed = b, !.skb_num = n]
           G     == Skbs(log, f, W)
<1>1. items \in Seq(G) /\ Len(items) \in Nat /\ queue.skb_num = Len(items)
      /\ (W # {} => Rising(items))
  BY LenProperties DEF Orderly
<1>2. Complete(queue, k) = IF k = 0 THEN queue ELSE q
  BY DEF Complete
<1> HIDE DEF items, G
<1>0. k \in 0..Len(items)
  BY DEF items
<1>3. rest \in Seq(G) /\ Len(rest) = Len(items) - k /\ (Rising(items) => Rising(rest))
  <2>1. k + 1 \in 1..(Len(items) + 1) /\ Len(items) \in ((k + 1) - 1)..Len(items)
    BY <1>0, <1>1
  <2>2. /\ rest \in Seq(G) /\ Len(rest) = Len(items) - (k + 1) + 1
        /\ Rising(items) => Rising(rest)
    BY <1>1, <2>1, PartProperties
  <2> QED
    BY <1>0, <1>1, <2>2
<1>4. SubSeq(items, 1, k) \in Seq(G)
  <2>1. 1 \in 1..(Len(items) + 1) /\ k \in (1 - 1)..Len(items)
    BY <1>0, <1>1
  <2> QED
    BY <1>1, <2>1, PartProperties
<1> HIDE DEF rest, s, z, b, n
<1>5. q.items = rest /\ q.skb_num = n
  BY DEF QueueType
<1>6. Orderly(log, W, f, q)
  BY <1>1, <1>3, <1>5 DEF Orderly, n, G
<1> QED
  BY <1>2, <1>4, <1>6 DEF items, G

LEMMA SameItemsOrderly ==
  ASSUME NEW log, NEW W, NEW f, NEW queue, Orderly(log, W, f, queue),
         NEW other, other.items = queue.items, other.skb_num = queue.skb_num
  PROVE  Orderly(log, W, f, other)
BY DEF Orderly

LEMMA AdvanceNum ==
  ASSUME NEW queue \in QueueType, NEW skb
  PROVE  Advance(queue, skb).items = queue.items /\ Advance(queue, skb).skb_num = queue.skb_num
<1> DEFINE s == max_seq(queue.seq_next, SeqEnd(skb))
           z == 0
           b == TRUE
           q == [queue EXCEPT !.seq_next = s, !.age = z, !.flushed = b]
<1>1. Advance(queue, skb) = IF s = queue.seq_next THEN queue ELSE q
  BY DEF Advance
<1> HIDE DEF s, z, b
<1>2. q.items = queue.items /\ q.skb_num = queue.skb_num
  BY DEF QueueType
<1> HIDE DEF q
<1> QED
  BY <1>1, <1>2

-----------------------------------------------------------------------------
(* One lemma per operation: it keeps the invariant's two parts.            *)
LEMMA CarriedOver ==
  ASSUME NEW win, OInv(win), NEW more, More(rx, more), NEW list, NEW new,
         \A j \in 1..Len(list) :
           \/ \E m \in 1..Len(gro_list) :
                /\ list[j].flow = gro_list[m].flow
                /\ new[list[j].q].items = ofo[gro_list[m].q].items
                /\ new[list[j].q].skb_num = ofo[gro_list[m].q].skb_num
           \/ Orderly(more, win[list[j].flow], list[j].flow, new[list[j].q])
  PROVE  AllOrderly(more, list, new, win)
<1> SUFFICES ASSUME NEW j \in 1..Len(list)
             PROVE  Orderly(more, win[list[j].flow], list[j].flow, new[list[j].q])
  BY DEF AllOrderly
<1>1. ASSUME NEW m \in 1..Len(gro_list),
             list[j].flow = gro_list[m].flow,
             new[list[j].q].items = ofo[gro_list[m].q].items,
             new[list[j].q].skb_num = ofo[gro_list[m].q].skb_num
      PROVE  Orderly(more, win[list[j].flow], list[j].flow, new[list[j].q])
  <2>0. rx \in Seq(Packets)
    BY DEF OInv, IInv, TypeOK
  <2>1. Orderly(rx, win[gro_list[m].flow], gro_list[m].flow, ofo[gro_list[m].q])
    BY DEF OInv, AllOrderly
  <2>2. Orderly(more, win[gro_list[m].flow], gro_list[m].flow, ofo[gro_list[m].q])
    BY <2>0, <2>1, OrderlyGrows
  <2> QED
    BY <1>1, <2>2, SameItemsOrderly
<1> QED
  BY <1>1

LEMMA ReceivingGrows ==
  ASSUME NEW win, OInv(win), NEW p \in Packets, Receiving(p)
  PROVE  /\ TypeOK /\ PoolInv /\ IInv /\ ~Deleted
         /\ rx \in Seq(Packets) /\ rx' = Append(rx, p) /\ More(rx, rx')
         /\ out \in Seq(Seq(Nat)) /\ AllWhole(rx', out)
<1>1. /\ TypeOK /\ PoolInv /\ IInv /\ rx \in Seq(Packets) /\ rx' = Append(rx, p) /\ ~Deleted
      /\ out \in Seq(Seq(Nat)) /\ AllWhole(rx, out)
  BY DEF OInv, IInv, TypeOK, Receiving
<1>2. More(rx, rx')
  BY <1>1 DEF More
<1> QED
  BY <1>1, <1>2, AllWholeGrows

LEMMA BypassOrderly ==
  ASSUME NEW win, OInv(win), NEW p \in Packets, ReceiveBypass(p)
  PROVE  AllWhole(rx', out') /\ AllOrderly(rx', gro_list', ofo', win)
<1>1. /\ Receiving(p) /\ out' = Append(out, <<Len(rx) + 1>>)
      /\ ofo' = ofo /\ gro_list' = gro_list
  BY DEF ReceiveBypass, engine_vars
<1>2. PICK skb : skb = SkbOf(p, Len(rx) + 1)
  OBVIOUS
<1>3. /\ <<skb.pkts>> \in Seq(Seq(Nat)) /\ AllWhole(rx', <<skb.pkts>>)
      /\ skb.pkts = <<Len(rx) + 1>>
  BY <1>1, <1>2, ReceivingGrows, SkbOfBuilt
<1>4. out \in Seq(Seq(Nat)) /\ AllWhole(rx', out) /\ out' = Append(out, skb.pkts)
  BY <1>1, <1>3, ReceivingGrows
<1>5. AllWhole(rx', out')
  <2>1. PICK passed, log, x : passed = out /\ log = rx' /\ x = skb.pkts
    OBVIOUS
  <2>2. AllWhole(log, Append(passed, x))
    BY <1>3, <1>4, <2>1, AppendWhole
  <2> QED
    BY <1>4, <2>1, <2>2
<1>6. AllOrderly(rx', gro_list, ofo, win)
  BY <1>1, ReceivingGrows, CarriedOver
<1> QED
  BY <1>1, <1>5, <1>6

LEMMA EntryOfFlow ==
  ASSUME TypeOK, NEW f, EntryOf(f) # 0
  PROVE  EntryOf(f) \in 1..Len(gro_list) /\ gro_list[EntryOf(f)].flow = f
<1> DEFINE same == {e \in 1..Len(gro_list) : gro_list[e].flow = f}
<1>1. EntryOf(f) = IF same = {} THEN 0 ELSE Min(same)
  BY DEF EntryOf
<1>2. same # {} /\ EntryOf(f) = Min(same)
  BY <1>1
<1>3. same \subseteq Nat
  OBVIOUS
<1> HIDE DEF same
<1>4. EntryOf(f) \in same
  BY <1>2, <1>3, MinNat
<1> QED
  BY <1>4 DEF same

(* An idle queue changes; no flow's queue does.                            *)
LEMMA IdleOrderly ==
  ASSUME NEW win, OInv(win), NEW p \in Packets, Receiving(p),
         NEW i \in 1..Len(idle), NEW queue, ofo' = [ofo EXCEPT ![idle[i]] = queue],
         gro_list' = gro_list, out' = Append(out, SkbOf(p, Len(rx) + 1).pkts)
  PROVE  AllWhole(rx', out') /\ AllOrderly(rx', gro_list', ofo', win)
<1>2. PICK skb : skb = SkbOf(p, Len(rx) + 1)
  OBVIOUS
<1>3. /\ <<skb.pkts>> \in Seq(Seq(Nat)) /\ AllWhole(rx', <<skb.pkts>>)
  BY <1>2, ReceivingGrows, SkbOfBuilt
<1>4. out \in Seq(Seq(Nat)) /\ AllWhole(rx', out) /\ out' = Append(out, skb.pkts)
  BY <1>2, ReceivingGrows
<1>5. AllWhole(rx', out')
  <2>1. PICK passed, log, x : passed = out /\ log = rx' /\ x = skb.pkts
    OBVIOUS
  <2>2. AllWhole(log, Append(passed, x))
    BY <1>3, <1>4, <2>1, AppendWhole
  <2> QED
    BY <1>4, <2>1, <2>2
<1>6. PICK new : new = ofo'
  OBVIOUS
<1>7. \A j \in 1..Len(gro_list) : new[gro_list[j].q] = ofo[gro_list[j].q]
  <2>1. /\ ofo \in [Queues -> QueueType]
        /\ \A j \in 1..Len(gro_list) : gro_list[j].q \in Queues /\ gro_list[j].q # idle[i]
    BY ReceivingGrows, Basics DEF PoolInv
  <2> QED
    BY <1>6, <2>1
<1>8. AllOrderly(rx', gro_list, new, win)
  BY <1>7, ReceivingGrows, CarriedOver
<1> QED
  BY <1>5, <1>6, <1>8

LEMMA ControlOrderly ==
  ASSUME NEW win, OInv(win), NEW p \in Packets, ReceiveControl(p)
  PROVE  AllWhole(rx', out') /\ AllOrderly(rx', gro_list', ofo', win)
<1> DEFINE hash == TcpHash[p.flow]
           i    == IdleIndex(hash)
<1>1. /\ Receiving(p) /\ gro_list' = gro_list
      /\ out' = Append(out, SkbOf(p, Len(rx) + 1).pkts)
      /\ \E queue : ofo' = [ofo EXCEPT ![idle[i]] = queue]
  BY DEF ReceiveControl
<1>2. i \in 1..Len(idle)
  BY <1>1, ReceivingGrows, IdleNotEmpty, IdleIndexRange
<1> HIDE DEF i
<1> QED
  BY <1>1, <1>2, IdleOrderly

LEMMA StaleOrderly ==
  ASSUME NEW win, OInv(win), NEW p \in Packets, ReceiveStale(p)
  PROVE  AllWhole(rx', out') /\ AllOrderly(rx', gro_list', ofo', win)
<1> DEFINE hash == TcpHash[p.flow]
           i    == IdleIndex(hash)
<1>1. /\ Receiving(p) /\ gro_list' = gro_list
      /\ out' = Append(out, SkbOf(p, Len(rx) + 1).pkts)
      /\ \E queue : ofo' = [ofo EXCEPT ![idle[i]] = queue]
  BY DEF ReceiveStale
<1>2. i \in 1..Len(idle)
  BY <1>1, ReceivingGrows, IdleNotEmpty, IdleIndexRange
<1> HIDE DEF i
<1> QED
  BY <1>1, <1>2, IdleOrderly

LEMMA FoundOrderly ==
  ASSUME NEW win, OInv(win), Windows(win), NEW p \in Packets, ReceiveFound(p)
  PROVE  AllWhole(rx', out') /\ AllOrderly(rx', gro_list', ofo', win)
<1> DEFINE e    == EntryOf(p.flow)
           q    == gro_list[e].q
           skb  == SkbOf(p, Len(rx) + 1)
           ctl  == p.kind = "ctl"
           r    == tcp_gro_receive(ofo[q], gro_list[e].head, skb, ctl)
           f    == p.flow
           W    == win[f]
           G    == Skbs(rx', f, W)
           next == IF r.kept THEN r.queue ELSE Advance(r.queue, skb)
           own  == IF r.kept THEN <<>> ELSE <<skb.pkts>>
<1>1. /\ Receiving(p) /\ p.kind # "bypass" /\ e # 0
      /\ gro_list' = [gro_list EXCEPT ![e].head = r.head]
      /\ ofo' = [ofo EXCEPT ![q] = next]
      /\ out' = (out \o PktsOf(r.out)) \o own
  BY DEF ReceiveFound
<1>2. /\ TypeOK /\ PoolInv /\ IInv /\ ~Deleted /\ HeadIsQueueHead
      /\ rx \in Seq(Packets) /\ rx' = Append(rx, p) /\ More(rx, rx') /\ rx' \in Seq(Packets)
      /\ out \in Seq(Seq(Nat)) /\ AllWhole(rx', out)
  BY <1>1, ReceivingGrows, ReceivingType DEF IInv
<1>3. /\ e \in 1..Len(gro_list) /\ gro_list[e].flow = f /\ f \in Flows
      /\ q \in Queues /\ ofo[q] \in QueueType /\ ofo \in [Queues -> QueueType]
      /\ ofo[q].items # <<>> /\ gro_list[e].head = ofo[q].items[1].id
  BY <1>1, <1>2, EntryOfFlow, HashType, Basics DEF HeadIsQueueHead
<1>4. Fits(W, f) /\ (W # {} => Linear(W))
  BY <1>3 DEF Windows, Fits
<1>5. /\ skb \in SkbType /\ <<skb.pkts>> \in Seq(Seq(Nat)) /\ AllWhole(rx', <<skb.pkts>>)
      /\ ctl \/ skb \in G
  <2>1. p.kind \in {"data", "ctl", "bypass"}
    BY PacketsAssumption DEF PacketType
  <2>2. skb \in SkbType
    BY <1>1, <1>2, ReceivingType
  <2>3. PICK t : t = skb
    OBVIOUS
  <2>4. /\ <<t.pkts>> \in Seq(Seq(Nat)) /\ AllWhole(rx', <<t.pkts>>)
        /\ p.kind = "data" => t \in G
    <3>1. t = SkbOf(p, Len(rx) + 1)
      BY <2>3
    <3> HIDE DEF skb, W
    <3> QED
      BY <1>2, <1>4, <3>1, SkbOfBuilt
  <2> QED
    BY <1>1, <2>1, <2>2, <2>3, <2>4
<1>6. Space(G, W)
  BY <1>2, <1>4, SkbsSpace
<1>7. Orderly(rx', W, f, ofo[q])
  <2>1. Orderly(rx, W, f, ofo[q])
    BY <1>3 DEF OInv, AllOrderly
  <2> QED
    BY <1>2, <2>1, OrderlyGrows
<1>8. Kept(r, ofo[q].hash, G, W)
  <2> DEFINE old  == ofo[q]
             head == gro_list[e].head
  <2>1. /\ old \in QueueType /\ old.items # <<>> /\ head = old.items[1].id
        /\ old.items \in Seq(G) /\ old.skb_num = Len(old.items)
        /\ W # {} => Rising(old.items)
    BY <1>3, <1>7 DEF Orderly
  <2>2. ctl \in BOOLEAN
    OBVIOUS
  <2> HIDE DEF old, head, G, W, skb, ctl
  <2>3. Kept(tcp_gro_receive(old, head, skb, ctl), old.hash, G, W)
    BY <1>5, <1>6, <2>1, <2>2, ReceiveKeepsOrder
  <2> QED
    BY <2>3 DEF old, head
<1> HIDE DEF r, skb
<1>9. Orderly(rx', W, f, next)
  <2>1. r.queue \in QueueType /\ Orderly(rx', W, f, r.queue)
    BY <1>8, KeptParts, GoodParts DEF Kept, Orderly
  <2>2. CASE r.kept
    BY <2>1, <2>2
  <2>3. CASE ~r.kept
    <3>1. next = Advance(r.queue, skb)
      BY <2>3
    <3> QED
      BY <2>1, <3>1, AdvanceNum, SameItemsOrderly
  <2> QED
    BY <2>2, <2>3
<1>10. AllWhole(rx', out')
  <2>1. r.out \in Seq(G)
    BY <1>8 DEF Kept
  <2>2. PktsOf(r.out) \in Seq(Seq(Nat)) /\ AllWhole(rx', PktsOf(r.out))
    BY <2>1, PktsWhole
  <2>3. PICK a : a = out \o PktsOf(r.out)
    OBVIOUS
  <2>4. a \in Seq(Seq(Nat)) /\ AllWhole(rx', a)
    BY <1>2, <2>2, <2>3, ConcatWhole
  <2>5. own \in Seq(Seq(Nat)) /\ AllWhole(rx', own)
    <3>1. CASE r.kept
      BY <3>1 DEF AllWhole
    <3>2. CASE ~r.kept
      BY <1>5, <3>2
    <3> QED
      BY <3>1, <3>2
  <2> HIDE DEF own
  <2> QED
    BY <1>1, <2>3, <2>4, <2>5, ConcatWhole
<1>11. AllOrderly(rx', gro_list', ofo', win)
  <2> HIDE DEF next
  <2> DEFINE x == r.head
  <2>1. PICK list, new : /\ list = gro_list' /\ new = ofo'
                         /\ list = [gro_list EXCEPT ![e].head = x]
                         /\ new = [ofo EXCEPT ![q] = next]
    BY <1>1
  <2>2. /\ Len(list) = Len(gro_list)
        /\ \A j \in 1..Len(gro_list) : list[j].flow = gro_list[j].flow /\ list[j].q = gro_list[j].q
    <3> HIDE DEF x, e
    <3>1. gro_list \in Seq(EntryType) /\ Len(gro_list) \in Nat
      BY <1>2, Basics
    <3>2. \A j \in 1..Len(gro_list) : gro_list[j] \in EntryType
      BY <3>1, ElementOfSeq
    <3> QED
      BY <2>1, <3>1, <3>2 DEF EntryType
  <2>3. ASSUME NEW j \in 1..Len(gro_list), j # e PROVE new[gro_list[j].q] = ofo[gro_list[j].q]
    <3>1. gro_list[j].q # q /\ gro_list[j].q \in Queues
      BY <1>2, <1>3, <2>3, Basics DEF PoolInv
    <3> QED
      BY <1>3, <2>1, <3>1
  <2>4. new[q] = next
    BY <1>3, <2>1
  <2>5. ASSUME NEW j \in 1..Len(list)
        PROVE  \/ \E m \in 1..Len(gro_list) :
                    /\ list[j].flow = gro_list[m].flow
                    /\ new[list[j].q].items = ofo[gro_list[m].q].items
                    /\ new[list[j].q].skb_num = ofo[gro_list[m].q].skb_num
               \/ Orderly(rx', win[list[j].flow], list[j].flow, new[list[j].q])
    <3>1. CASE j = e
      BY <1>3, <1>9, <2>2, <2>4, <3>1
    <3>2. CASE j # e
      BY <2>2, <2>3, <3>2
    <3> QED
      BY <3>1, <3>2
  <2>6. AllOrderly(rx', list, new, win)
    BY <1>2, <2>5, CarriedOver
  <2> QED
    BY <2>1, <2>6
<1> QED
  BY <1>10, <1>11

(* A flow starts to hold packets: its queue holds one skb; a flow that     *)
(* makes room for it passes everything up.                                 *)
LEMMA HoldOrderly ==
  ASSUME NEW win, OInv(win), Windows(win), NEW p \in Packets, ReceiveHold(p)
  PROVE  AllWhole(rx', out') /\ AllOrderly(rx', gro_list', ofo', win)
<1> DEFINE hash  == TcpHash[p.flow]
           i     == IdleIndex(hash)
           x     == idle[i]
           skb   == SkbOf(p, Len(rx) + 1)
           queue == TakenForData(napi_get_tcp_ofo_queue(hash), skb)
           one   == 1
           z     == 0
           items == <<skb>>
           held  == [queue EXCEPT !.items = items, !.skb_num = one, !.age = z, !.hash = hash]
           f     == p.flow
           W     == win[f]
           G     == Skbs(rx', f, W)
           entry == [flow |-> f, q |-> x, head |-> skb.id]
           l     == gro_list[Len(gro_list)].q
           old   == ofo[l]
           empty == Complete(old, Len(old.items))
           keep  == Front(gro_list)
<1>1. /\ Receiving(p) /\ p.kind = "data" /\ EntryOf(p.flow) = 0
  BY DEF ReceiveHold
<1>2. /\ TypeOK /\ PoolInv /\ IInv /\ ~Deleted /\ HeadIsQueueHead
      /\ rx \in Seq(Packets) /\ rx' = Append(rx, p) /\ More(rx, rx') /\ rx' \in Seq(Packets)
      /\ out \in Seq(Seq(Nat)) /\ AllWhole(rx', out)
  BY <1>1, ReceivingGrows, ReceivingType DEF IInv
<1>3. PICK list, new : list = gro_list' /\ new = ofo'
  OBVIOUS
<1>4. \/ /\ list = <<entry>> \o gro_list
         /\ new = [ofo EXCEPT ![x] = held]
         /\ out' = out
      \/ /\ gro_count >= MAX_GRO_SKBS
         /\ list = <<entry>> \o keep
         /\ new = [ofo EXCEPT ![x] = held, ![l] = empty]
         /\ out' = out \o PktsOf(old.items)
  BY <1>3 DEF ReceiveHold
<1>5. /\ i \in 1..Len(idle) /\ f \in Flows /\ skb \in SkbType
      /\ napi_get_tcp_ofo_queue(hash) \in QueueType
  <2> HIDE DEF hash, skb
  <2>1. skb \in SkbType
    BY <1>1, <1>2, ReceivingType DEF skb
  <2> QED
    BY <1>2, <2>1, IdleNotEmpty, IdleIndexRange, HashType
<1>6. skb \in G
  <2>1. Fits(W, f)
    BY <1>5 DEF Windows
  <2>2. PICK t : t = skb
    OBVIOUS
  <2>3. t \in G
    <3>1. t = SkbOf(p, Len(rx) + 1)
      BY <2>2
    <3> HIDE DEF skb, W
    <3> QED
      BY <1>1, <1>2, <2>1, <3>1, SkbOfBuilt
  <2> QED
    BY <2>2, <2>3
<1>7. queue \in QueueType
  <2> DEFINE got == napi_get_tcp_ofo_queue(hash)
  <2>1. got \in QueueType
    BY <1>5
  <2> HIDE DEF got, skb
  <2>2. TakenForData(got, skb) \in QueueType
    BY <1>5, <2>1, TakenForDataType
  <2> QED
    BY <2>2 DEF got
<1>8. /\ items \in Seq(G) /\ Len(items) = 1 /\ Rising(items)
  <2> HIDE DEF skb, G
  <2> QED
    BY <1>6 DEF Rising
<1> HIDE DEF i, items, queue, one, z, hash
<1>9. held.items = items /\ held.skb_num = one
  BY <1>7 DEF QueueType
<1> HIDE DEF held
<1>10. Orderly(rx', W, f, held)
  BY <1>8, <1>9 DEF Orderly, one
<1>11. /\ gro_list \in Seq(EntryType) /\ idle \in Seq(Queues)
       /\ ofo \in [Queues -> QueueType] /\ QInj(gro_list) /\ Len(gro_list) \in Nat
  BY <1>2, Basics DEF PoolInv, QInj
<1>12. x \in Queues /\ \A j \in 1..Len(gro_list) : gro_list[j].q # x /\ gro_list[j].q \in Queues
  BY <1>2, <1>5, <1>11, ElementOfSeq, Basics DEF PoolInv
<1>13. entry \in EntryType /\ entry.q = x /\ entry.flow = f
  <2>1. skb.id \in Nat
    BY <1>5 DEF SkbType
  <2> HIDE DEF skb, x
  <2> QED
    BY <1>5, <1>12, <2>1 DEF EntryType
<1> HIDE DEF entry, x, skb
<1>14. ASSUME NEW rest, Behind(list, entry, rest),
              \A j \in 1..Len(rest) : \E m \in 1..Len(gro_list) : rest[j] = gro_list[m] /\ new[rest[j].q] = ofo[rest[j].q],
              new[x] = held
       PROVE  AllOrderly(rx', list, new, win)
  <2>1. ASSUME NEW j \in 1..Len(list)
        PROVE  \/ \E m \in 1..Len(gro_list) :
                    /\ list[j].flow = gro_list[m].flow
                    /\ new[list[j].q].items = ofo[gro_list[m].q].items
                    /\ new[list[j].q].skb_num = ofo[gro_list[m].q].skb_num
               \/ Orderly(rx', win[list[j].flow], list[j].flow, new[list[j].q])
    <3>1. CASE j = 1
      BY <1>10, <1>13, <1>14, <3>1 DEF Behind
    <3>2. CASE j # 1
      <4>1. PICK n \in 1..Len(rest) : list[j] = rest[n]
        BY <1>14, <3>2 DEF Behind
      <4>2. PICK m \in 1..Len(gro_list) : rest[n] = gro_list[m] /\ new[rest[n].q] = ofo[rest[n].q]
        BY <1>14
      <4> QED
        BY <4>1, <4>2
    <3> QED
      BY <3>1, <3>2
  <2> QED
    BY <1>2, <2>1, CarriedOver
<1>15. CASE /\ list = <<entry>> \o gro_list
            /\ new = [ofo EXCEPT ![x] = held]
            /\ out' = out
  <2>1. new[x] = held /\ \A q \in Queues : q # x => new[q] = ofo[q]
    BY <1>11, <1>12, <1>15
  <2>2. Behind(list, entry, gro_list)
    BY <1>11, <1>12, <1>13, <1>15, ConsEntry
  <2>3. \A j \in 1..Len(gro_list) : new[gro_list[j].q] = ofo[gro_list[j].q]
    BY <1>12, <2>1
  <2>4. AllOrderly(rx', list, new, win)
    BY <1>14, <2>1, <2>2, <2>3
  <2> QED
    BY <1>2, <1>3, <1>15, <2>4
<1>16. CASE /\ gro_count >= MAX_GRO_SKBS
            /\ list = <<entry>> \o keep
            /\ new = [ofo EXCEPT ![x] = held, ![l] = empty]
            /\ out' = out \o PktsOf(old.items)
  <2>0. Len(gro_list) \in 1..Len(gro_list)
    <3>1. gro_count = Len(gro_list) /\ gro_count >= MAX_GRO_SKBS
      BY <1>2, <1>16 DEF PoolInv
    <3> QED
      BY <1>11, <3>1, MaxGroSkbsAssumption
  <2>1. l \in Queues /\ l # x
    BY <1>12, <2>0
  <2> HIDE DEF empty
  <2>2. /\ new[x] = held
        /\ \A q \in Queues : q # x /\ q # l => new[q] = ofo[q]
    BY <1>11, <1>12, <1>16, <2>1
  <2>3. PICK k : k = keep
    OBVIOUS
  <2>4. k \in Seq(EntryType) /\ QInj(k) /\ Among(k, gro_list, Len(gro_list))
    BY <1>11, <2>0, <2>3, FrontEntries
  <2>5. \A j \in 1..Len(k) : k[j].q # entry.q
    BY <1>12, <1>13, <2>4 DEF Among
  <2>6. list = <<entry>> \o k
    BY <1>16, <2>3
  <2>7. Behind(list, entry, k)
    BY <1>13, <2>4, <2>5, <2>6, ConsEntry
  <2>8. ASSUME NEW j \in 1..Len(k)
        PROVE  \E m \in 1..Len(gro_list) : k[j] = gro_list[m] /\ new[k[j].q] = ofo[k[j].q]
    <3>1. PICK m \in 1..Len(gro_list) : m # Len(gro_list) /\ k[j] = gro_list[m]
      BY <2>4 DEF Among
    <3>2. gro_list[m].q # l
      BY <1>2, <2>0, <3>1 DEF PoolInv
    <3> QED
      BY <1>12, <2>2, <3>1, <3>2
  <2>9. AllOrderly(rx', list, new, win)
    BY <1>14, <2>2, <2>7, <2>8
  <2>10. AllWhole(rx', out')
    <3>1. Orderly(rx, win[gro_list[Len(gro_list)].flow], gro_list[Len(gro_list)].flow, old)
      BY <2>0 DEF OInv, AllOrderly
    <3>2. PICK g, V : Orderly(rx, V, g, old)
      BY <3>1
    <3>3. old.items \in Seq(Skbs(rx', g, V))
      <4>1. Orderly(rx', V, g, old)
        BY <1>2, <3>2, OrderlyGrows
      <4> QED
        BY <4>1, Zenon DEF Orderly
    <3>4. PktsOf(old.items) \in Seq(Seq(Nat)) /\ AllWhole(rx', PktsOf(old.items))
      BY <3>3, PktsWhole
    <3> QED
      BY <1>2, <1>16, <3>4, ConcatWhole
  <2> QED
    BY <1>3, <2>9, <2>10
<1> QED
  BY <1>4, <1>15, <1>16

(* napi_gro_flush passes up a prefix of one flow's queue.                  *)
LEMMA FlushEntryOrderly ==
  ASSUME NEW win, OInv(win), FlushEntry
  PROVE  AllWhole(rx', out') /\ AllOrderly(rx', gro_list', ofo', win)
<1> DEFINE q     == gro_list[cursor].q
           f     == gro_list[cursor].flow
           old   == ofo[q]
           k     == CompleteCount(old, flush_old)
           queue == Complete(old, k)
           front == SubSeq(old.items, 1, k)
<1>1. /\ TypeOK /\ HeadIsQueueHead /\ IInv /\ cursor \in 1..Len(gro_list)
      /\ flush_old \in BOOLEAN /\ rx' = rx /\ rx \in Seq(Packets)
      /\ out \in Seq(Seq(Nat)) /\ AllWhole(rx, out)
  <2>1. TypeOK /\ HeadIsQueueHead /\ cursor > 0 /\ IInv /\ rx' = rx /\ AllWhole(rx, out)
    BY DEF OInv, IInv, FlushEntry
  <2>2. cursor \in 0..Len(gro_list) /\ flush_old \in BOOLEAN /\ Len(gro_list) \in Nat
        /\ rx \in Seq(Packets) /\ out \in Seq(Seq(Nat))
    BY <2>1, Basics DEF TypeOK
  <2> QED
    BY <2>1, <2>2
<1>2. PoolInv
  <2>1. Len(gro_list) # 0
    BY <1>1, Basics
  <2> QED
    BY <1>1, <2>1 DEF IInv, FreedInv
<1>3. /\ ofo' = [ofo EXCEPT ![q] = queue] /\ out' = out \o PktsOf(front)
      /\ \/ gro_list' = RemoveAt(gro_list, cursor)
         \/ gro_list' = [gro_list EXCEPT ![cursor].head = queue.items[1].id]
  BY DEF FlushEntry
<1>4. /\ q \in Queues /\ old \in QueueType /\ ofo \in [Queues -> QueueType]
      /\ gro_list \in Seq(EntryType) /\ Len(gro_list) \in Nat /\ QInj(gro_list)
  BY <1>1, <1>2, Basics DEF PoolInv, QInj
<1>5. Orderly(rx, win[f], f, old)
  BY <1>1 DEF OInv, AllOrderly
<1> HIDE DEF old
<1>6. k \in 0..Len(old.items)
  BY <1>1, <1>4, CompleteCountRange
<1> HIDE DEF k, f
<1>7. Orderly(rx, win[f], f, queue) /\ front \in Seq(Skbs(rx, f, win[f]))
  BY <1>4, <1>5, <1>6, CompleteOrderly
<1> HIDE DEF queue, front
<1>8. AllWhole(rx', out')
  <2>1. PktsOf(front) \in Seq(Seq(Nat)) /\ AllWhole(rx, PktsOf(front))
    BY <1>7, PktsWhole
  <2> QED
    BY <1>1, <1>3, <2>1, ConcatWhole
<1>9. PICK list, new : list = gro_list' /\ new = ofo'
  OBVIOUS
<1>10. new[q] = queue /\ \A j \in Queues : j # q => new[j] = ofo[j]
  BY <1>3, <1>4, <1>9
<1>11. ASSUME NEW j \in 1..Len(list)
       PROVE  \E m \in 1..Len(gro_list) : list[j].flow = gro_list[m].flow /\ list[j].q = gro_list[m].q
  <2>1. CASE list = RemoveAt(gro_list, cursor)
    <3>1. Among(list, gro_list, cursor)
      BY <1>1, <1>4, <2>1, RemoveEntry
    <3> QED
      BY <3>1 DEF Among
  <2>2. CASE list = [gro_list EXCEPT ![cursor].head = queue.items[1].id]
    <3> DEFINE x == queue.items[1].id
    <3>1. list = [gro_list EXCEPT ![cursor].head = x]
      BY <2>2
    <3> HIDE DEF x
    <3>2. j \in 1..Len(gro_list)
      BY <1>4, <3>1
    <3>3. gro_list[j] \in EntryType
      BY <1>4, <3>2, ElementOfSeq
    <3> QED
      BY <1>4, <3>1, <3>2, <3>3 DEF EntryType
  <2> QED
    BY <1>3, <1>9, <2>1, <2>2
<1>12. ASSUME NEW j \in 1..Len(list)
       PROVE  \/ \E m \in 1..Len(gro_list) :
                   /\ list[j].flow = gro_list[m].flow
                   /\ new[list[j].q].items = ofo[gro_list[m].q].items
                   /\ new[list[j].q].skb_num = ofo[gro_list[m].q].skb_num
              \/ Orderly(rx, win[list[j].flow], list[j].flow, new[list[j].q])
  <2>1. PICK m \in 1..Len(gro_list) : list[j].flow = gro_list[m].flow /\ list[j].q = gro_list[m].q
    BY <1>11
  <2>2. CASE m = cursor
    BY <1>7, <1>10, <2>1, <2>2 DEF f
  <2>3. CASE m # cursor
    <3>1. gro_list[m].q # q /\ gro_list[m].q \in Queues
      BY <1>1, <1>2, <2>3, Basics DEF PoolInv
    <3> QED
      BY <1>10, <2>1, <3>1
  <2> QED
    BY <2>2, <2>3
<1>13. AllOrderly(rx, list, new, win)
  BY <1>12, CarriedOver DEF More
<1> QED
  BY <1>1, <1>8, <1>9, <1>13

(* The queues of the flows keep their skbs.                                *)
LEMMA SameQueuesOrderly ==
  ASSUME NEW win, OInv(win), rx' = rx, out' = out, gro_list' = gro_list,
         \A j \in 1..Len(gro_list) :
           /\ ofo'[gro_list[j].q].items = ofo[gro_list[j].q].items
           /\ ofo'[gro_list[j].q].skb_num = ofo[gro_list[j].q].skb_num
  PROVE  AllWhole(rx', out') /\ AllOrderly(rx', gro_list', ofo', win)
<1>1. PICK new : new = ofo'
  OBVIOUS
<1>2. AllOrderly(rx, gro_list, new, win)
  BY <1>1, CarriedOver DEF More
<1>3. AllWhole(rx, out)
  BY DEF OInv
<1> QED
  BY <1>1, <1>2, <1>3

LEMMA CleanOrderly ==
  ASSUME NEW win, OInv(win), napi_clean_tcp_ofo_queue
  PROVE  AllWhole(rx', out') /\ AllOrderly(rx', gro_list', ofo', win)
<1> DEFINE old(q) == (\E i \in 1..Len(idle) : idle[i] = q) /\ ofo[q].age > CleanTimeout
<1>1. /\ TypeOK /\ PoolInv /\ rx' = rx /\ out' = out /\ gro_list' = gro_list
      /\ ofo' = [q \in Queues |-> IF old(q) THEN ResetQueue(ofo[q]) ELSE ofo[q]]
  BY DEF OInv, IInv, napi_clean_tcp_ofo_queue
<1>2. \A j \in 1..Len(gro_list) : ~old(gro_list[j].q) /\ gro_list[j].q \in Queues
  BY <1>1, Basics DEF PoolInv
<1> HIDE DEF old
<1>3. \A j \in 1..Len(gro_list) : ofo'[gro_list[j].q] = ofo[gro_list[j].q]
  BY <1>1, <1>2
<1> QED
  BY <1>1, <1>3, SameQueuesOrderly

LEMMA TickOrderly ==
  ASSUME NEW win, OInv(win), Tick
  PROVE  AllWhole(rx', out') /\ AllOrderly(rx', gro_list', ofo', win)
<1> DEFINE older(a) == IF a < AgeMax THEN a + 1 ELSE a
<1>1. /\ TypeOK /\ rx' = rx /\ out' = out /\ gro_list' = gro_list
      /\ ofo' = [q \in Queues |-> [ofo[q] EXCEPT !.age = older(ofo[q].age)]]
  BY DEF OInv, IInv, Tick
<1>2. ofo \in [Queues -> QueueType] /\ \A j \in 1..Len(gro_list) : gro_list[j].q \in Queues
  BY <1>1, Basics
<1> HIDE DEF older
<1>3. ASSUME NEW q \in Queues
      PROVE  ofo'[q].items = ofo[q].items /\ ofo'[q].skb_num = ofo[q].skb_num
  <2> DEFINE queue == ofo[q]
             a     == older(queue.age)
  <2>1. queue \in QueueType /\ ofo'[q] = [queue EXCEPT !.age = a]
    BY <1>1, <1>2
  <2> HIDE DEF queue, a
  <2>2. ofo'[q].items = queue.items /\ ofo'[q].skb_num = queue.skb_num
    BY <2>1 DEF QueueType
  <2> QED
    BY <2>2 DEF queue
<1> QED
  BY <1>1, <1>2, <1>3, SameQueuesOrderly

LEMMA InitOInv ==
  ASSUME NEW win, Init
  PROVE  OInv(win)
<1>1. out = <<>> /\ gro_list = <<>>
  BY DEF Init
<1> QED
  BY <1>1, InitIInv DEF OInv, AllWhole, AllOrderly

LEMMA NextKeepsOInv ==
  ASSUME NEW win, OInv(win), Windows(win), [Next]_vars
  PROVE  OInv(win)'
<1>0. IInv'
  BY NextKeepsIInv DEF OInv
<1> SUFFICES AllWhole(rx', out') /\ AllOrderly(rx', gro_list', ofo', win)
  BY <1>0 DEF OInv
<1>3. CASE UNCHANGED <<rx, out, gro_list, ofo>>
  BY <1>3, SameQueuesOrderly
<1>4. ASSUME NEW p \in Packets, napi_gro_receive(p)
      PROVE  AllWhole(rx', out') /\ AllOrderly(rx', gro_list', ofo', win)
  <2>1. CASE ReceiveBypass(p)
    BY <2>1, BypassOrderly
  <2>2. CASE ReceiveFound(p)
    BY <2>2, FoundOrderly
  <2>3. CASE ReceiveControl(p)
    BY <2>3, ControlOrderly
  <2>4. CASE ReceiveStale(p)
    BY <2>4, StaleOrderly
  <2>5. CASE ReceiveHold(p)
    BY <2>5, HoldOrderly
  <2> QED
    BY <1>4, <2>1, <2>2, <2>3, <2>4, <2>5 DEF napi_gro_receive
<1>5. ASSUME NEW old \in BOOLEAN, FlushBegin(old)
      PROVE  AllWhole(rx', out') /\ AllOrderly(rx', gro_list', ofo', win)
  BY <1>3, <1>5 DEF FlushBegin, engine_vars
<1>6. CASE FlushEntry
  BY <1>6, FlushEntryOrderly
<1>7. CASE napi_clean_tcp_ofo_queue
  BY <1>7, CleanOrderly
<1>8. CASE netif_napi_del
  <2>1. rx' = rx /\ out' = out /\ gro_list' = <<>>
    BY <1>8 DEF netif_napi_del
  <2> QED
    BY <2>1 DEF OInv, AllOrderly
<1>9. CASE Tick
  BY <1>9, TickOrderly
<1>10. CASE UNCHANGED vars
  BY <1>3, <1>10 DEF vars
<1> QED
  BY <1>4, <1>5, <1>6, <1>7, <1>8, <1>9, <1>10 DEF Next

(* Every skb that is held or was passed up can be cut back into the        *)
(* packets received: skb_gro_merge never chains packets that do not follow *)
(* one another, differ in their headers or in size (except for a shorter   *)
(* last one), or hides a PSH inside, whichever merges, insertions and      *)
(* flushes came before.  No assumption on sequence numbers is needed.      *)
THEOREM MergesCorrect == Spec => []MergesResegmentable
<1>1. PICK win : win = [f \in Flows |-> {}]
  OBVIOUS
<1>2. Windows(win)
  BY <1>1 DEF Windows, Fits
<1>3. Init => OInv(win)
  BY InitOInv
<1>4. OInv(win) /\ [Next]_vars => OInv(win)'
  BY <1>2, NextKeepsOInv
<1>5. OInv(win) => MergesResegmentable
  <2> SUFFICES ASSUME OInv(win) PROVE MergesResegmentable
    OBVIOUS
  <2>1. \A i \in 1..Len(out) : Resegmentable(out[i])
    BY DEF OInv, AllWhole, Whole, Resegmentable
  <2>2. ASSUME NEW i \in 1..Len(gro_list), NEW j \in 1..Len(HeldItems[i])
        PROVE  Resegmentable(HeldItems[i][j].pkts)
    <3>1. HeldItems[i] = ofo[gro_list[i].q].items
      BY DEF HeldItems
    <3>2. PICK W, f : HeldItems[i] \in Seq(Skbs(rx, f, W))
      BY <3>1 DEF OInv, AllOrderly, Orderly
    <3>3. HeldItems[i][j] \in Skbs(rx, f, W)
      BY <3>2, ElementOfSeq
    <3> QED
      BY <3>3 DEF Skbs, Built, Whole, Resegmentable
  <2> QED
    BY <2>1, <2>2 DEF MergesResegmentable
<1> QED
  BY <1>3, <1>4, <1>5, PTL DEF Spec

-----------------------------------------------------------------------------
(* The assumption on traffic that order needs: the data of a flow lies in  *)
(* half of the sequence space, counted from some number of that flow, as   *)
(* before() of net/tcp.h requires of what it compares.                     *)
InHalf(base, f) ==
  \A p \in Packets :
    p.flow = f /\ p.kind = "data" => ((p.seq - base) % SeqRange) + p.len < SeqRange \div 2

HalfSpace == \A f \in Flows : \E base \in SeqNumbers : InHalf(base, f)

LEMMA HalfHolds ==
  ASSUME NEW base \in SeqNumbers, NEW p \in Packets,
         ((p.seq - base) % SeqRange) + p.len < SeqRange \div 2
  PROVE  /\ p.seq \in Window(base) /\ SeqEnd(p) \in Window(base)
         /\ (p.seq - base) % SeqRange \in Int /\ p.len \in Nat
         /\ (SeqEnd(p) - base) % SeqRange = ((p.seq - base) % SeqRange) + p.len
<1>1. PICK r, h, s, l : r = SeqRange /\ h = SeqRange \div 2 /\ s = p.seq /\ l = p.len
  OBVIOUS
<1>2. /\ r \in Nat /\ r > 0 /\ h \in Nat /\ h + h = r /\ s \in 0..(r - 1) /\ l \in Nat
      /\ base \in 0..(r - 1)
  BY <1>1, SeqRangeAssumption, PacketsAssumption DEF PacketType, SeqNumbers
<1>3. PICK x, e : x = (s - base) % r /\ e = (s + l) % r
  OBVIOUS
<1>4. x \in 0..(r - 1) /\ e \in 0..(r - 1) /\ x + l < h
  BY <1>1, <1>2, <1>3, Division
<1>5. (e - base) % r = x + l
  <2>1. PICK t, u : t = s + l /\ u = s - base
    OBVIOUS
  <2>2. t \in Int /\ u \in Int /\ -base \in Int /\ e = t % r /\ x = u % r /\ t + (-base) = u + l
        /\ e + (-base) = e - base
    BY <1>2, <1>3, <1>4, <2>1
  <2>3. (e - base) % r = (u + l) % r
    <3>1. PICK n : n = -base
      OBVIOUS
    <3>2. n \in Int /\ t + n = u + l /\ e + n = e - base
      BY <2>2, <3>1
    <3>3. (e + n) % r = (t + n) % r
      BY <1>2, <2>2, <3>2, ReduceTerm
    <3> QED
      BY <3>2, <3>3
  <2>4. (x + l) % r = (u + l) % r
    <3>1. ((u % r) + l) % r = (u + l) % r
      <4>1. r \in Nat /\ r > 0 /\ u \in Int /\ l \in Int
        BY <1>2, <2>2
      <4> QED
        BY <4>1, ReduceTerm, Zenon
    <3> QED
      BY <2>2, <3>1
  <2>5. x + l \in 0..(r - 1)
    BY <1>2, <1>4
  <2>6. (x + l) % r = x + l
    BY <1>2, <2>5, SmallRemainder
  <2> QED
    BY <2>3, <2>4, <2>6
<1>6. s \in Window(base) /\ e \in Window(base)
  <2>1. x < h /\ x + l < h
    BY <1>2, <1>4
  <2> QED
    BY <1>1, <1>2, <1>3, <1>4, <1>5, <2>1 DEF Window, SeqNumbers
<1>7. SeqEnd(p) = e
  BY <1>1, <1>3 DEF SeqEnd
<1> QED
  BY <1>1, <1>2, <1>3, <1>4, <1>5, <1>6, <1>7

LEMMA HalfSpans ==
  ASSUME NEW base \in SeqNumbers, NEW p \in Packets, p.kind = "data",
         ((p.seq - base) % SeqRange) + p.len < SeqRange \div 2
  PROVE  Spans(p, Window(base))
<1>1. PICK s, e, x, y : /\ s = p.seq /\ e = SeqEnd(p)
                        /\ x = (s - base) % SeqRange /\ y = (e - base) % SeqRange
  OBVIOUS
<1>2. s \in Window(base) /\ e \in Window(base) /\ x \in Int /\ p.len \in Nat /\ y = x + p.len
  BY <1>1, HalfHolds
<1>3. p.len > 0
  BY PacketsAssumption
<1>4. x < y
  BY <1>2, <1>3
<1>5. before(s, e)
  BY <1>1, <1>2, <1>4, WindowOrder
<1> QED
  BY <1>1, <1>2, <1>5 DEF Spans

LEMMA BaseInWindow ==
  ASSUME NEW base \in SeqNumbers
  PROVE  base \in Window(base)
<1>1. /\ base - base = 0 /\ SeqRange \in Nat /\ SeqRange \div 2 > 0
      /\ 0 \in 0..(SeqRange - 1)
  BY SeqRangeAssumption DEF SeqNumbers
<1>2. (base - base) % SeqRange = 0
  BY <1>1, SmallRemainder
<1> QED
  BY <1>1, <1>2 DEF Window

LEMMA HalfSpaceWindows ==
  ASSUME HalfSpace
  PROVE  \E win : Windows(win) /\ \A f \in Flows : win[f] # {}
<1> DEFINE base(f) == CHOOSE b \in SeqNumbers : InHalf(b, f)
<1>1. PICK win : win = [f \in Flows |-> Window(base(f))]
  OBVIOUS
<1>2. ASSUME NEW f \in Flows
      PROVE  Fits(win[f], f) /\ win[f] # {}
  <2>1. PICK b : b = base(f)
    OBVIOUS
  <2>2. b \in SeqNumbers /\ InHalf(b, f)
    BY <2>1 DEF HalfSpace
  <2>3. win[f] = Window(b)
    BY <1>1, <2>1
  <2>4. Linear(Window(b))
    BY <2>2, WindowLinear
  <2>5. \A p \in Packets : p.flow = f /\ p.kind = "data" => Spans(p, Window(b))
    BY <2>2, HalfSpans DEF InHalf
  <2>6. b \in Window(b)
    BY <2>2, BaseInWindow
  <2> QED
    BY <2>3, <2>4, <2>5, <2>6 DEF Fits
<1> QED
  BY <1>2 DEF Windows

(* The queue of a flow is in order and counted exactly, and holds only     *)
(* that flow's packets, whatever arrives, is merged or is flushed:         *)
(* tcp_gro_receive inserts before the first later segment and merges only  *)
(* at the ends of what it holds.  The assumption HalfSpace is what         *)
(* before() needs to be an order at all.                                   *)
THEOREM OrderCorrect == ASSUME HalfSpace PROVE Spec => []QueueOrdered
<1>1. PICK win : Windows(win) /\ \A f \in Flows : win[f] # {}
  BY HalfSpaceWindows
<1>2. Init => OInv(win)
  BY InitOInv
<1>3. OInv(win) /\ [Next]_vars => OInv(win)'
  BY <1>1, NextKeepsOInv
<1>4. OInv(win) => QueueOrdered
  <2> SUFFICES ASSUME OInv(win), NEW i \in 1..Len(gro_list)
               PROVE  LET queue == ofo[gro_list[i].q]
                          items == queue.items
                      IN  /\ queue.skb_num = Len(items)
                          /\ \A j \in 1..(Len(items) - 1) :
                               before(items[j].seq, items[j + 1].seq)
                          /\ \A j \in 1..Len(items) : \A k \in 1..Len(items[j].pkts) :
                               rx[items[j].pkts[k]].flow = gro_list[i].flow
    BY DEF QueueOrdered
  <2>1. PICK queue, f, W : queue = ofo[gro_list[i].q] /\ f = gro_list[i].flow /\ W = win[f]
    OBVIOUS
  <2>2. Orderly(rx, W, f, queue)
    BY <2>1 DEF OInv, AllOrderly
  <2>3. f \in Flows
    BY <2>1, IInvImplies, Basics DEF OInv
  <2>4. W # {}
    BY <1>1, <2>1, <2>3
  <2>5. PICK items : items = queue.items
    OBVIOUS
  <2>6. items \in Seq(Skbs(rx, f, W)) /\ queue.skb_num = Len(items) /\ Rising(items)
    BY <2>2, <2>4, <2>5 DEF Orderly
  <2>7. Len(items) \in Nat
    BY <2>6, LenProperties
  <2>8. ASSUME NEW j \in 1..(Len(items) - 1)
        PROVE  before(items[j].seq, items[j + 1].seq)
    <3>1. j \in 1..Len(items) /\ j + 1 \in 1..Len(items) /\ j < j + 1
      BY <2>7
    <3> QED
      BY <2>6, <3>1 DEF Rising
  <2>9. ASSUME NEW j \in 1..Len(items), NEW k \in 1..Len(items[j].pkts)
        PROVE  rx[items[j].pkts[k]].flow = f
    <3>1. items[j] \in Skbs(rx, f, W)
      BY <2>6, ElementOfSeq
    <3> QED
      BY <3>1 DEF Skbs, Built
  <2> QED
    BY <2>1, <2>5, <2>6, <2>8, <2>9
<1> QED
  BY <1>2, <1>3, <1>4, PTL DEF Spec

-----------------------------------------------------------------------------
(* Where seq_next of a queue goes.  win gives each flow a part of the      *)
(* space that holds whatever its packets, data or control, start and end   *)
(* at, and on which before is a weak order; flows that share a port pair,  *)
(* and with it a queue, share that part.                                   *)
Rooms(win) ==
  /\ Windows(win)
  /\ \A f \in Flows :
       /\ Linear(win[f]) /\ WeakOrder(win[f]) /\ win[f] # {}
       /\ \A p \in Packets :
            p.flow = f /\ p.kind # "bypass" => p.seq \in win[f] /\ SeqEnd(p) \in win[f]
       /\ \A g \in Flows : TcpHash[f] = TcpHash[g] => win[f] = win[g]

(* A queue that remembers a port pair has its seq_next among the numbers   *)
(* of the flows with that port pair.                                       *)
Placed(queue, win) ==
  queue.hash # 0 => \E f \in Flows : queue.hash = TcpHash[f] /\ queue.seq_next \in win[f]

Follows(old, new, win) ==
  /\ Placed(new, win)
  /\ old.hash # 0 /\ new.hash = old.hash /\ old.flushed
       => ~before(new.seq_next, old.seq_next)

AllFollow(old, new, win) == \A q \in Queues : Follows(old[q], new[q], win)

SInv(win) ==
  OInv(win) /\ Remembered(gro_list, ofo) /\ \A q \in Queues : Placed(ofo[q], win)

LEMMA RoomParts ==
  ASSUME NEW win, Rooms(win), NEW f \in Flows, NEW W, W = win[f]
  PROVE  /\ Linear(W) /\ WeakOrder(W) /\ W # {} /\ W \subseteq SeqNumbers
         /\ \A a \in W : ~before(a, a)
         /\ TcpHash[f] # 0 /\ Fits(W, f)
         /\ \A queue : Placed(queue, win) /\ queue.hash = TcpHash[f] => queue.seq_next \in W
<1>1. Linear(W) /\ WeakOrder(W) /\ W # {} /\ Fits(W, f)
  BY DEF Rooms, Windows
<1>2. W \subseteq SeqNumbers
  BY <1>1 DEF Linear
<1>3. TcpHash[f] # 0
  BY TcpHashAssumption
<1>4. ASSUME NEW queue, Placed(queue, win), queue.hash = TcpHash[f]
      PROVE  queue.seq_next \in W
  <2>1. PICK g \in Flows : queue.hash = TcpHash[g] /\ queue.seq_next \in win[g]
    BY <1>3, <1>4 DEF Placed
  <2>2. win[f] = win[g]
    BY <1>4, <2>1 DEF Rooms
  <2> QED
    BY <2>1, <2>2
<1> QED
  BY <1>1, <1>2, <1>3, <1>4, BeforeIrreflexive

LEMMA SameFollows ==
  ASSUME NEW win, Rooms(win), NEW old, Placed(old, win), NEW new,
         new.hash = 0 \/ (new.hash = old.hash /\ new.seq_next = old.seq_next)
  PROVE  Follows(old, new, win)
<1>1. CASE new.hash = 0
  BY <1>1 DEF Follows, Placed
<1>2. CASE new.hash # 0
  <2>1. new.hash = old.hash /\ new.seq_next = old.seq_next
    BY <1>2
  <2>2. PICK f \in Flows : old.hash = TcpHash[f] /\ old.seq_next \in win[f]
    BY <1>2, <2>1 DEF Placed
  <2>3. ~before(old.seq_next, old.seq_next)
    BY <2>2, RoomParts
  <2> QED
    BY <2>1, <2>2, <2>3 DEF Follows, Placed
<1> QED
  BY <1>1, <1>2

(* The queue that napi_get_tcp_ofo_queue chooses for a flow.               *)
LEMMA GotQueue ==
  ASSUME IInv, ~Deleted, NEW h, h # 0, NEW old, old = ofo[idle[IdleIndex(h)]],
         NEW got, got = napi_get_tcp_ofo_queue(h)
  PROVE  /\ IdleIndex(h) \in 1..Len(idle) /\ got \in QueueType
         /\ got.hash \in {h, 0} /\ (got.hash = h \/ old.hash = h => got = old)
<1>1. TypeOK /\ Len(idle) > 0
  BY IdleNotEmpty DEF IInv
<1>2. IdleIndex(h) \in 1..Len(idle) /\ got \in QueueType /\ idle[IdleIndex(h)] \in Queues
  BY <1>1, IdleIndexRange
<1>3. old \in QueueType
  BY <1>1, <1>2, Basics
<1>4. got = IF old.hash \in {h, 0} THEN old ELSE ResetQueue(old)
  BY DEF napi_get_tcp_ofo_queue
<1>5. ResetQueue(old).hash = 0
  BY <1>3 DEF ResetQueue, QueueType
<1> QED
  BY <1>2, <1>4, <1>5

(* A queue taken for a flow starts where it stopped for that flow, or at   *)
(* the first segment.                                                      *)
LEMMA ChosenFollows ==
  ASSUME NEW win, Rooms(win), NEW f \in Flows, NEW h, h = TcpHash[f],
         NEW old, Placed(old, win), NEW got, got.hash \in {h, 0},
         got.hash = h \/ old.hash = h => got = old,
         NEW a \in win[f], NEW b \in win[f],
         NEW start, start = IF got.hash = 0 THEN a ELSE got.seq_next,
         NEW new, new.hash = h, new.seq_next \in {start, max_seq(start, b)}
  PROVE  Follows(old, new, win)
<1>1. PICK W : W = win[f]
  OBVIOUS
<1>2. /\ WeakOrder(W) /\ W \subseteq SeqNumbers /\ h # 0
      /\ \A x \in W : ~before(x, x)
      /\ old.hash = h => old.seq_next \in W
  BY <1>1, RoomParts
<1>3. ASSUME start \in W
      PROVE  new.seq_next \in W /\ ~before(new.seq_next, start)
  <2>1. PICK m : m = max_seq(start, b)
    OBVIOUS
  <2>2. m \in W /\ ~before(m, start)
    BY <1>1, <1>2, <1>3, <2>1, MaxReaches
  <2> QED
    BY <1>2, <1>3, <2>1, <2>2
<1>4. CASE old.hash = h
  <2>1. start = old.seq_next /\ start \in W
    BY <1>2, <1>4
  <2> QED
    BY <1>1, <1>3, <2>1 DEF Follows, Placed
<1>5. CASE old.hash # h
  <2>1. start \in W
    BY <1>1, <1>2, <1>5
  <2> QED
    BY <1>1, <1>3, <1>5, <2>1 DEF Follows, Placed
<1> QED
  BY <1>4, <1>5

(* What dev_gro_complete passes up does not take seq_next back.            *)
LEMMA CompleteNext ==
  ASSUME NEW queue \in QueueType, NEW k \in 0..Len(queue.items),
         NEW W, W \subseteq SeqNumbers, WeakOrder(W), queue.seq_next \in W,
         \A i \in 1..Len(queue.items) : SeqEnd(queue.items[i]) \in W
  PROVE  /\ Complete(queue, k).seq_next \in W
         /\ ~before(Complete(queue, k).seq_next, queue.seq_next)
<1> DEFINE n     == Len(queue.items)
           items == queue.items
           next  == SeqNextAfter(queue)
           first == queue.seq_next
           Good(m) == next[m] \in W /\ ~before(next[m], first)
           T     == {m \in 0..n : ~Good(m)}
           rest  == SubSeq(items, k + 1, n)
           s     == next[k]
           num   == queue.skb_num - k
           z     == 0
           t     == [queue EXCEPT !.items = rest, !.seq_next = s, !.age = z,
                                  !.flushed = TRUE, !.skb_num = num]
<1>1. n \in Nat
  <2>1. queue.items \in Seq(SkbType)
    BY DEF QueueType
  <2> QED
    BY <2>1, LenProperties
<1>2. next = [i \in 0..n |-> IF i = 0 THEN first
                              ELSE max_seq(next[i - 1], SeqEnd(items[i]))]
  BY SeqNextAfterDef
<1>3. Complete(queue, k) = IF k = 0 THEN queue ELSE t
  BY DEF Complete
<1>4. first \in W /\ ~before(first, first)
  BY BeforeIrreflexive
<1> HIDE DEF next, first
<1>5. T = {}
  <2> SUFFICES ASSUME T # {} PROVE FALSE
    OBVIOUS
  <2>1. PICK m \in T : \A y \in T : m <= y
    <3>1. T \subseteq Nat
      BY <1>1
    <3> QED
      BY <3>1, MinNat
  <2>2. m \in 0..n /\ ~Good(m)
    BY <2>1
  <2>3. next[0] = first
    BY <1>1, <1>2
  <2>4. m # 0
    BY <1>4, <2>2, <2>3
  <2>5. m - 1 \in 0..n /\ m - 1 \notin T /\ m \in 1..n
    BY <1>1, <2>1, <2>2, <2>4
  <2>6. Good(m - 1)
    BY <2>5
  <2>7. next[m] = max_seq(next[m - 1], SeqEnd(items[m])) /\ SeqEnd(items[m]) \in W
    BY <1>2, <2>2, <2>4, <2>5
  <2>8. PICK a, b, c : a = next[m - 1] /\ b = SeqEnd(items[m]) /\ c = next[m]
    OBVIOUS
  <2>9. a \in W /\ b \in W /\ c = max_seq(a, b) /\ ~before(a, first)
    BY <2>6, <2>7, <2>8
  <2>10. c \in W /\ ~before(c, a)
    BY <2>9, MaxReaches
  <2>11. ~before(c, first)
    BY <1>4, <2>9, <2>10 DEF WeakOrder
  <2> QED
    BY <2>2, <2>8, <2>10, <2>11
<1>6. Good(k)
  BY <1>5
<1> HIDE DEF T, rest, num, n, z
<1>7. t.seq_next = s
  BY DEF QueueType
<1> HIDE DEF t
<1> QED
  BY <1>3, <1>4, <1>6, <1>7 DEF first

(* One lemma per kind of change.  An idle queue changes:                   *)
LEMMA IdleFollows ==
  ASSUME NEW win, Rooms(win), SInv(win), ~Deleted, NEW i \in 1..Len(idle), NEW queue,
         Follows(ofo[idle[i]], queue, win), ofo' = [ofo EXCEPT ![idle[i]] = queue],
         gro_list' = gro_list
  PROVE  AllFollow(ofo, ofo', win) /\ Remembered(gro_list', ofo')
<1>1. PICK new : new = ofo'
  OBVIOUS
<1>2. /\ ofo \in [Queues -> QueueType] /\ idle[i] \in Queues
      /\ \A j \in 1..Len(gro_list) : gro_list[j].q \in Queues /\ gro_list[j].q # idle[i]
  BY Basics DEF SInv, OInv, IInv, PoolInv
<1>3. new[idle[i]] = queue /\ \A q \in Queues : q # idle[i] => new[q] = ofo[q]
  BY <1>1, <1>2
<1>4. ASSUME NEW q \in Queues PROVE Follows(ofo[q], new[q], win)
  <2>1. CASE q = idle[i]
    BY <1>3, <2>1
  <2>2. CASE q # idle[i]
    BY <1>3, <2>2, SameFollows DEF SInv
  <2> QED
    BY <2>1, <2>2
<1>5. Remembered(gro_list, new)
  BY <1>2, <1>3 DEF SInv, Remembered
<1> QED
  BY <1>1, <1>4, <1>5 DEF AllFollow

(* Every entry of t is one of s, but for its head.                         *)
CameFrom(t, s) ==
  \A j \in 1..Len(t) : \E m \in 1..Len(s) : t[j].flow = s[m].flow /\ t[j].q = s[m].q

(* A queue of gro_list changes, but not the port pair it remembers:        *)
LEMMA EntryFollows ==
  ASSUME NEW win, Rooms(win), SInv(win), ~Deleted, NEW e \in 1..Len(gro_list), NEW queue,
         queue.hash = ofo[gro_list[e].q].hash, Follows(ofo[gro_list[e].q], queue, win),
         ofo' = [ofo EXCEPT ![gro_list[e].q] = queue],
         CameFrom(gro_list', gro_list)
  PROVE  AllFollow(ofo, ofo', win) /\ Remembered(gro_list', ofo')
<1>1. PICK list, new, x : list = gro_list' /\ new = ofo' /\ x = gro_list[e].q
  OBVIOUS
<1>2. /\ ofo \in [Queues -> QueueType] /\ x \in Queues
      /\ \A j \in 1..Len(gro_list) : gro_list[j].q \in Queues
  BY <1>1, Basics DEF SInv, OInv, IInv
<1>3. new[x] = queue /\ \A q \in Queues : q # x => new[q] = ofo[q]
  BY <1>1, <1>2
<1>4. ASSUME NEW q \in Queues
      PROVE  Follows(ofo[q], new[q], win) /\ new[q].hash = ofo[q].hash
  <2>1. CASE q = x
    BY <1>1, <1>3, <2>1
  <2>2. CASE q # x
    BY <1>3, <2>2, SameFollows DEF SInv
  <2> QED
    BY <2>1, <2>2
<1>5. Remembered(list, new)
  BY <1>1, <1>2, <1>4 DEF SInv, Remembered, CameFrom
<1> QED
  BY <1>1, <1>4, <1>5 DEF AllFollow

(* No queue of gro_list changes its port pair, no queue moves on:          *)
LEMMA UnmovedFollows ==
  ASSUME NEW win, Rooms(win), SInv(win), NEW list, list = gro_list', NEW new, new = ofo',
         \A q \in Queues : \/ new[q].hash = 0
                           \/ new[q].hash = ofo[q].hash /\ new[q].seq_next = ofo[q].seq_next,
         \A j \in 1..Len(list) : \E m \in 1..Len(gro_list) :
           /\ list[j].flow = gro_list[m].flow
           /\ new[list[j].q].hash = ofo[gro_list[m].q].hash
  PROVE  AllFollow(ofo, ofo', win) /\ Remembered(gro_list', ofo')
<1>1. \A q \in Queues : Follows(ofo[q], new[q], win)
  BY SameFollows DEF SInv
<1>2. Remembered(list, new)
  BY DEF SInv, Remembered
<1> QED
  BY <1>1, <1>2 DEF AllFollow

LEMMA CleanFollows ==
  ASSUME NEW win, Rooms(win), SInv(win), napi_clean_tcp_ofo_queue
  PROVE  AllFollow(ofo, ofo', win) /\ Remembered(gro_list', ofo')
<1> DEFINE old(q) == (\E i \in 1..Len(idle) : idle[i] = q) /\ ofo[q].age > CleanTimeout
<1>1. /\ TypeOK /\ PoolInv /\ gro_list' = gro_list
      /\ ofo' = [q \in Queues |-> IF old(q) THEN ResetQueue(ofo[q]) ELSE ofo[q]]
  BY DEF SInv, OInv, IInv, napi_clean_tcp_ofo_queue
<1>2. \A j \in 1..Len(gro_list) : ~old(gro_list[j].q) /\ gro_list[j].q \in Queues
  BY <1>1, Basics DEF PoolInv
<1>3. ofo \in [Queues -> QueueType]
  BY <1>1, Basics
<1> HIDE DEF old
<1>4. PICK new : new = ofo'
  OBVIOUS
<1>5. \A q \in Queues : new[q] = IF old(q) THEN ResetQueue(ofo[q]) ELSE ofo[q]
  BY <1>1, <1>4
<1>6. ASSUME NEW q \in Queues PROVE ResetQueue(ofo[q]).hash = 0
  <2>1. PICK queue : queue = ofo[q]
    OBVIOUS
  <2>2. queue \in QueueType
    BY <1>3, <2>1
  <2>3. ResetQueue(queue).hash = 0
    BY <2>2 DEF ResetQueue, QueueType
  <2> QED
    BY <2>1, <2>3
<1>7. \A q \in Queues : new[q].hash = 0 \/ new[q] = ofo[q]
  BY <1>5, <1>6
<1>8. \A j \in 1..Len(gro_list) : new[gro_list[j].q] = ofo[gro_list[j].q]
  BY <1>2, <1>5
<1> QED
  BY <1>1, <1>4, <1>7, <1>8, UnmovedFollows

LEMMA TickFollows ==
  ASSUME NEW win, Rooms(win), SInv(win), Tick
  PROVE  AllFollow(ofo, ofo', win) /\ Remembered(gro_list', ofo')
<1> DEFINE older(a) == IF a < AgeMax THEN a + 1 ELSE a
<1>1. /\ TypeOK /\ gro_list' = gro_list
      /\ ofo' = [q \in Queues |-> [ofo[q] EXCEPT !.age = older(ofo[q].age)]]
  BY DEF SInv, OInv, IInv, Tick
<1>2. /\ ofo \in [Queues -> QueueType]
      /\ \A j \in 1..Len(gro_list) : gro_list[j].q \in Queues
  BY <1>1, Basics
<1> HIDE DEF older
<1>3. PICK new : new = ofo'
  OBVIOUS
<1>4. ASSUME NEW q \in Queues
      PROVE  new[q].hash = ofo[q].hash /\ new[q].seq_next = ofo[q].seq_next
  <2>1. PICK queue, a : queue = ofo[q] /\ a = older(queue.age)
    OBVIOUS
  <2>2. queue \in QueueType /\ new[q] = [queue EXCEPT !.age = a]
    BY <1>1, <1>2, <1>3, <2>1
  <2>3. new[q].hash = queue.hash /\ new[q].seq_next = queue.seq_next
    BY <2>2 DEF QueueType
  <2> QED
    BY <2>1, <2>3
<1>5. \A j \in 1..Len(gro_list) : new[gro_list[j].q].hash = ofo[gro_list[j].q].hash
  BY <1>2, <1>4
<1> QED
  BY <1>1, <1>3, <1>4, <1>5, UnmovedFollows

LEMMA AdvanceNext ==
  ASSUME NEW queue \in QueueType, NEW skb
  PROVE  /\ Advance(queue, skb).hash = queue.hash
         /\ Advance(queue, skb).seq_next = max_seq(queue.seq_next, SeqEnd(skb))
<1> DEFINE s == max_seq(queue.seq_next, SeqEnd(skb))
           z == 0
           b == TRUE
           t == [queue EXCEPT !.seq_next = s, !.age = z, !.flushed = b]
<1>1. Advance(queue, skb) = IF s = queue.seq_next THEN queue ELSE t
  BY DEF Advance
<1> HIDE DEF s, z, b
<1>2. t.hash = queue.hash /\ t.seq_next = s
  BY DEF QueueType
<1> HIDE DEF t
<1>3. Advance(queue, skb).hash = queue.hash /\ Advance(queue, skb).seq_next = s
  BY <1>1, <1>2
<1> QED
  BY <1>3 DEF s

(* What every packet that reaches the engine starts and ends at.           *)
LEMMA SkbInRoom ==
  ASSUME NEW win, Rooms(win), NEW p \in Packets, p.kind # "bypass", NEW n,
         NEW skb, skb = SkbOf(p, n)
  PROVE  skb.seq \in win[p.flow] /\ SeqEnd(skb) \in win[p.flow] /\ p.flow \in Flows
<1>1. p.flow \in Flows
  BY HashType
<1>2. p.seq \in win[p.flow] /\ SeqEnd(p) \in win[p.flow]
  BY <1>1 DEF Rooms
<1>3. skb.seq = p.seq /\ skb.len = p.len
  BY DEF SkbOf
<1>4. SeqEnd(skb) = SeqEnd(p)
  BY <1>3 DEF SeqEnd
<1> QED
  BY <1>1, <1>2, <1>3, <1>4

LEMMA ControlFollows ==
  ASSUME NEW win, Rooms(win), SInv(win), NEW p \in Packets, ReceiveControl(p)
  PROVE  AllFollow(ofo, ofo', win) /\ Remembered(gro_list', ofo')
<1> DEFINE hash  == TcpHash[p.flow]
           i     == IdleIndex(hash)
           skb   == SkbOf(p, Len(rx) + 1)
           old   == ofo[idle[i]]
           got   == napi_get_tcp_ofo_queue(hash)
           s     == IF got.hash = 0 THEN skb.seq ELSE got.seq_next
           z     == 0
           taken == [got EXCEPT !.seq_next = s, !.age = z, !.hash = hash]
           queue == Advance(taken, skb)
<1>1. /\ TypeOK /\ IInv /\ ~Deleted /\ Receiving(p) /\ p.kind # "bypass"
      /\ ofo' = [ofo EXCEPT ![idle[i]] = queue] /\ gro_list' = gro_list
  BY DEF SInv, OInv, IInv, ReceiveControl, Receiving
<1>2. skb \in SkbType /\ hash \in Nat /\ p.flow \in Flows /\ hash # 0
  BY <1>1, ReceivingType, HashType, TcpHashAssumption
<1>3. /\ i \in 1..Len(idle) /\ got \in QueueType
      /\ got.hash \in {hash, 0} /\ (got.hash = hash \/ old.hash = hash => got = old)
  BY <1>1, <1>2, GotQueue
<1>4. Placed(old, win)
  BY <1>1, <1>3, Basics DEF SInv
<1>5. skb.seq \in win[p.flow] /\ SeqEnd(skb) \in win[p.flow]
  BY <1>1, SkbInRoom
<1>6. s \in 0..(SeqRange - 1) /\ z \in Nat
  <2>1. skb.seq \in 0..(SeqRange - 1)
    BY <1>2 DEF SkbType
  <2>2. got.seq_next \in 0..(SeqRange - 1)
    BY <1>3 DEF QueueType
  <2> QED
    BY <2>1, <2>2
<1>7. PICK start : start = s
  OBVIOUS
<1>8. taken \in QueueType /\ taken.hash = hash /\ taken.seq_next = start
  <2> HIDE DEF hash, skb, got, s
  <2> QED
    BY <1>2, <1>3, <1>6, <1>7 DEF QueueType
<1> HIDE DEF taken
<1>9. queue.hash = hash /\ queue.seq_next = max_seq(start, SeqEnd(skb))
  BY <1>8, AdvanceNext
<1>10. start = IF got.hash = 0 THEN skb.seq ELSE got.seq_next
  BY <1>7
<1> HIDE DEF queue, skb, got, s, i
<1>11. Follows(old, queue, win)
  <2>1. PICK o, a, b, h : o = old /\ a = skb.seq /\ b = SeqEnd(skb) /\ h = hash
    OBVIOUS
  <2>2. Follows(o, queue, win)
    <3> HIDE DEF old, hash
    <3>1. /\ Placed(o, win) /\ a \in win[p.flow] /\ b \in win[p.flow] /\ p.flow \in Flows
          /\ got.hash \in {h, 0} /\ (got.hash = h \/ o.hash = h => got = o)
          /\ start = (IF got.hash = 0 THEN a ELSE got.seq_next)
          /\ queue.hash = h /\ queue.seq_next \in {start, max_seq(start, b)}
      BY <1>2, <1>3, <1>4, <1>5, <1>9, <1>10, <2>1
    <3>2. h = TcpHash[p.flow]
      BY <2>1 DEF hash
    <3> QED
      BY <3>1, <3>2, ChosenFollows
  <2> QED
    BY <2>1, <2>2
<1> QED
  BY <1>1, <1>3, <1>11, IdleFollows

LEMMA StaleFollows ==
  ASSUME NEW win, Rooms(win), SInv(win), NEW p \in Packets, ReceiveStale(p)
  PROVE  AllFollow(ofo, ofo', win) /\ Remembered(gro_list', ofo')
<1> DEFINE hash  == TcpHash[p.flow]
           i     == IdleIndex(hash)
           skb   == SkbOf(p, Len(rx) + 1)
           old   == ofo[idle[i]]
           got   == napi_get_tcp_ofo_queue(hash)
           z     == 0
           taken == TakenForData(got, skb)
           aged  == [taken EXCEPT !.age = z]
           queue == Advance(aged, skb)
<1>1. /\ TypeOK /\ IInv /\ ~Deleted /\ Receiving(p) /\ p.kind # "bypass"
      /\ ofo' = [ofo EXCEPT ![idle[i]] = queue] /\ gro_list' = gro_list
      /\ before(skb.seq, taken.seq_next)
  BY DEF SInv, OInv, IInv, ReceiveStale, Receiving
<1>2. skb \in SkbType /\ hash \in Nat /\ p.flow \in Flows /\ hash # 0
  BY <1>1, ReceivingType, HashType, TcpHashAssumption
<1>3. /\ i \in 1..Len(idle) /\ got \in QueueType
      /\ got.hash \in {hash, 0} /\ (got.hash = hash \/ old.hash = hash => got = old)
  BY <1>1, <1>2, GotQueue
<1>4. Placed(old, win)
  BY <1>1, <1>3, Basics DEF SInv
<1>5. skb.seq \in win[p.flow] /\ SeqEnd(skb) \in win[p.flow]
  BY <1>1, SkbInRoom
<1> HIDE DEF skb, got, i, old
<1>6. got.hash = hash /\ taken = got
  <2>1. ASSUME got.hash = 0 PROVE FALSE
    <3>1. taken = [got EXCEPT !.seq_next = skb.seq, !.flushed = FALSE]
      BY <2>1 DEF TakenForData
    <3>2. taken.seq_next = skb.seq
      BY <1>3, <3>1 DEF QueueType
    <3>3. ~before(skb.seq, skb.seq)
      BY <1>2, <1>5, RoomParts
    <3> QED
      BY <1>1, <3>2, <3>3
  <2> HIDE DEF hash
  <2> QED
    BY <1>3, <2>1 DEF TakenForData
<1> HIDE DEF taken
<1>7. aged \in QueueType /\ aged.hash = hash /\ aged.seq_next = got.seq_next
  <2> HIDE DEF hash
  <2> QED
    BY <1>3, <1>6 DEF QueueType
<1> HIDE DEF aged
<1>8. queue.hash = hash /\ queue.seq_next = max_seq(got.seq_next, SeqEnd(skb))
  BY <1>7, AdvanceNext
<1> HIDE DEF queue
<1>9. Follows(old, queue, win)
  <2>1. PICK a, b, h, start :
          a = skb.seq /\ b = SeqEnd(skb) /\ h = hash /\ start = got.seq_next
    OBVIOUS
  <2>2. h = TcpHash[p.flow]
    BY <2>1
  <2> HIDE DEF hash
  <2>3. /\ Placed(old, win) /\ a \in win[p.flow] /\ b \in win[p.flow] /\ p.flow \in Flows
        /\ got.hash \in {h, 0} /\ (got.hash = h \/ old.hash = h => got = old)
        /\ start = (IF got.hash = 0 THEN a ELSE got.seq_next)
        /\ queue.hash = h /\ queue.seq_next \in {start, max_seq(start, b)}
    BY <1>2, <1>3, <1>4, <1>5, <1>6, <1>8, <2>1
  <2> QED
    BY <2>2, <2>3, ChosenFollows
<1> QED
  BY <1>1, <1>3, <1>9, IdleFollows DEF old

(* The skbs of a queue of gro_list end among the numbers of its flow.      *)
LEMMA ItemsInRoom ==
  ASSUME NEW win, Rooms(win), OInv(win), NEW e \in 1..Len(gro_list),
         NEW W, W = win[gro_list[e].flow], NEW queue, queue = ofo[gro_list[e].q]
  PROVE  /\ queue \in QueueType /\ gro_list[e].flow \in Flows
         /\ \A i \in 1..Len(queue.items) : SeqEnd(queue.items[i]) \in W
<1>1. queue \in QueueType /\ gro_list[e].flow \in Flows
  BY Basics DEF OInv, IInv
<1>2. Orderly(rx, W, gro_list[e].flow, queue) /\ W # {}
  BY <1>1, RoomParts DEF OInv, AllOrderly
<1>3. ASSUME NEW i \in 1..Len(queue.items) PROVE SeqEnd(queue.items[i]) \in W
  <2>1. queue.items[i] \in Skbs(rx, gro_list[e].flow, W)
    BY <1>2, ElementOfSeq DEF Orderly
  <2> QED
    BY <1>2, <2>1 DEF Skbs, Spans
<1> QED
  BY <1>1, <1>3

LEMMA CompleteFollows ==
  ASSUME NEW win, Rooms(win), SInv(win), NEW e \in 1..Len(gro_list),
         NEW old, old = ofo[gro_list[e].q], NEW k \in 0..Len(old.items),
         NEW queue, queue = Complete(old, k)
  PROVE  Follows(old, queue, win) /\ queue.hash = old.hash
<1>1. PICK f, W : f = gro_list[e].flow /\ W = win[f]
  OBVIOUS
<1>2. /\ old \in QueueType /\ f \in Flows
      /\ \A i \in 1..Len(old.items) : SeqEnd(old.items[i]) \in W
  BY <1>1, ItemsInRoom DEF SInv
<1>3. old.hash = TcpHash[f] /\ Placed(old, win)
  <2>1. gro_list[e].q \in Queues
    BY Basics DEF SInv, OInv, IInv
  <2> QED
    BY <1>1, <2>1 DEF SInv, Remembered
<1>4. WeakOrder(W) /\ W \subseteq SeqNumbers /\ old.seq_next \in W
  BY <1>1, <1>2, <1>3, RoomParts
<1>5. queue.seq_next \in W /\ ~before(queue.seq_next, old.seq_next)
  BY <1>2, <1>4, CompleteNext
<1>6. queue.hash = old.hash
  BY <1>2, CompleteRemembers
<1> QED
  BY <1>1, <1>2, <1>3, <1>5, <1>6 DEF Follows, Placed

LEMMA SameEntries ==
  ASSUME NEW s \in Seq(EntryType), NEW e, NEW x, NEW t, t = [s EXCEPT ![e].head = x]
  PROVE  CameFrom(t, s)
<1>1. Len(s) \in Nat /\ \A j \in 1..Len(s) : s[j] \in EntryType
  BY LenProperties, ElementOfSeq
<1>2. Len(t) = Len(s) /\ \A j \in 1..Len(s) : t[j].flow = s[j].flow /\ t[j].q = s[j].q
  BY <1>1 DEF EntryType
<1> QED
  BY <1>2 DEF CameFrom

LEMMA FlushEntryFollows ==
  ASSUME NEW win, Rooms(win), SInv(win), FlushEntry
  PROVE  AllFollow(ofo, ofo', win) /\ Remembered(gro_list', ofo')
<1> DEFINE q     == gro_list[cursor].q
           old   == ofo[q]
           k     == CompleteCount(old, flush_old)
           queue == Complete(old, k)
<1>1. TypeOK /\ IInv /\ cursor \in 1..Len(gro_list) /\ flush_old \in BOOLEAN
  <2>1. TypeOK /\ cursor > 0 /\ IInv
    BY DEF SInv, OInv, IInv, FlushEntry
  <2>2. cursor \in 0..Len(gro_list) /\ flush_old \in BOOLEAN /\ Len(gro_list) \in Nat
    BY <2>1, Basics DEF TypeOK
  <2> QED
    BY <2>1, <2>2
<1>2. PoolInv /\ ~Deleted
  <2>1. Len(gro_list) # 0
    BY <1>1, Basics
  <2> QED
    BY <1>1, <2>1 DEF IInv, FreedInv
<1>3. /\ ofo' = [ofo EXCEPT ![q] = queue]
      /\ \/ gro_list' = RemoveAt(gro_list, cursor)
         \/ gro_list' = [gro_list EXCEPT ![cursor].head = queue.items[1].id]
  BY DEF FlushEntry
<1>4. old \in QueueType /\ gro_list \in Seq(EntryType) /\ QInj(gro_list)
  BY <1>1, <1>2, Basics DEF PoolInv, QInj
<1>5. k \in 0..Len(old.items)
  <2> HIDE DEF old
  <2> QED
    BY <1>1, <1>4, CompleteCountRange
<1>6. Follows(old, queue, win) /\ queue.hash = old.hash
  <2>1. PICK o, n, c : o = old /\ n = k /\ c = queue
    OBVIOUS
  <2>2. n \in 0..Len(o.items) /\ c = Complete(o, n) /\ o = ofo[gro_list[cursor].q]
    BY <1>5, <2>1
  <2> HIDE DEF old, k, queue
  <2>3. Follows(o, c, win) /\ c.hash = o.hash
    BY <1>1, <2>2, CompleteFollows
  <2> QED
    BY <2>1, <2>3
<1> HIDE DEF queue, k
<1>7. PICK list : list = gro_list'
  OBVIOUS
<1>8. CameFrom(list, gro_list)
  <2>1. CASE list = RemoveAt(gro_list, cursor)
    <3>1. Among(list, gro_list, cursor)
      BY <1>1, <1>4, <2>1, RemoveEntry
    <3> QED
      BY <3>1 DEF Among, CameFrom
  <2>2. CASE list = [gro_list EXCEPT ![cursor].head = queue.items[1].id]
    <3>1. PICK x : x = queue.items[1].id
      OBVIOUS
    <3>2. list = [gro_list EXCEPT ![cursor].head = x]
      BY <2>2, <3>1
    <3> QED
      BY <1>4, <3>2, SameEntries
  <2> QED
    BY <1>3, <1>7, <2>1, <2>2
<1>9. PICK e, c : /\ e = cursor /\ e \in 1..Len(gro_list)
                  /\ c.hash = ofo[gro_list[e].q].hash /\ Follows(ofo[gro_list[e].q], c, win)
                  /\ ofo' = [ofo EXCEPT ![gro_list[e].q] = c]
  BY <1>1, <1>3, <1>6
<1> QED
  BY <1>2, <1>7, <1>8, <1>9, EntryFollows

(* The flow holds packets: ReceiveMovesOn is what tcp_gro_receive and the  *)
(* label normal do to its queue.                                           *)
LEMMA FoundFollows ==
  ASSUME NEW win, Rooms(win), SInv(win), NEW p \in Packets, ReceiveFound(p)
  PROVE  AllFollow(ofo, ofo', win) /\ Remembered(gro_list', ofo')
<1> DEFINE e    == EntryOf(p.flow)
           q    == gro_list[e].q
           skb  == SkbOf(p, Len(rx) + 1)
           ctl  == p.kind = "ctl"
           r    == tcp_gro_receive(ofo[q], gro_list[e].head, skb, ctl)
           next == IF r.kept THEN r.queue ELSE Advance(r.queue, skb)
<1>1. /\ Receiving(p) /\ p.kind # "bypass" /\ e # 0
      /\ gro_list' = [gro_list EXCEPT ![e].head = r.head]
      /\ ofo' = [ofo EXCEPT ![q] = next]
  BY DEF ReceiveFound
<1>2. /\ TypeOK /\ ~Deleted /\ HeadIsQueueHead /\ OInv(win) /\ Windows(win)
      /\ rx \in Seq(Packets) /\ rx' = Append(rx, p) /\ More(rx, rx') /\ rx' \in Seq(Packets)
  BY <1>1, ReceivingGrows, ReceivingType DEF SInv, OInv, IInv, Rooms
<1>3. PICK old, f, W, G, head, log :
        /\ old = ofo[q] /\ f = p.flow /\ W = win[f] /\ log = rx' /\ G = Skbs(log, f, W)
        /\ head = gro_list[e].head
  OBVIOUS
<1>4. /\ e \in 1..Len(gro_list) /\ gro_list[e].flow = f /\ f \in Flows
      /\ q \in Queues /\ old \in QueueType /\ gro_list \in Seq(EntryType)
      /\ old.items # <<>> /\ head = old.items[1].id
  BY <1>1, <1>2, <1>3, EntryOfFlow, HashType, Basics DEF HeadIsQueueHead
<1>5. Fits(W, f) /\ Linear(W) /\ WeakOrder(W) /\ W # {}
  BY <1>3, <1>4, RoomParts
<1>6. /\ skb \in SkbType /\ skb.seq \in W /\ SeqEnd(skb) \in W
  BY <1>1, <1>2, <1>3, ReceivingType, SkbInRoom
<1>7. ctl \in BOOLEAN /\ (ctl \/ skb \in G)
  <2>1. p.kind \in {"data", "ctl", "bypass"}
    BY PacketsAssumption DEF PacketType
  <2>2. PICK t : t = skb
    OBVIOUS
  <2>3. t = SkbOf(p, Len(rx) + 1)
    BY <2>2
  <2> HIDE DEF skb
  <2>4. p.kind = "data" => t \in G
    BY <1>2, <1>3, <1>5, <2>3, SkbOfBuilt
  <2> QED
    BY <1>1, <2>1, <2>2, <2>4
<1>8. Space(G, W)
  BY <1>2, <1>3, <1>5, SkbsSpace
<1>9. old.items \in Seq(G) /\ old.skb_num = Len(old.items) /\ Rising(old.items)
  <2>1. Orderly(rx, W, f, old)
    BY <1>3, <1>4 DEF SInv, OInv, AllOrderly
  <2>2. Orderly(log, W, f, old)
    BY <1>2, <1>3, <2>1, OrderlyGrows
  <2> QED
    BY <1>3, <1>5, <2>2 DEF Orderly
<1>10. old.hash = TcpHash[f] /\ Placed(old, win)
  BY <1>3, <1>4 DEF SInv, Remembered
<1>11. old.seq_next \in W
  BY <1>3, <1>4, <1>10, RoomParts
<1>12. r = tcp_gro_receive(old, head, skb, ctl)
  BY <1>3
<1> HIDE DEF r, skb, ctl, q, e
<1>13. r.queue \in QueueType /\ r.queue.hash = old.hash
  BY <1>4, <1>6, <1>7, <1>12, ReceiveKeepsHead, GoodParts
<1>14. PICK s : s = IF r.kept THEN r.queue.seq_next ELSE max_seq(r.queue.seq_next, SeqEnd(skb))
  OBVIOUS
<1>15. s \in W /\ (old.flushed => ~before(s, old.seq_next))
  BY <1>4, <1>5, <1>6, <1>7, <1>8, <1>9, <1>11, <1>12, <1>14, ReceiveMovesOn
<1>16. next.hash = old.hash /\ next.seq_next = s
  <2>1. CASE r.kept
    BY <1>13, <1>14, <2>1
  <2>2. CASE ~r.kept
    <3>1. next = Advance(r.queue, skb)
      BY <2>2
    <3>2. /\ Advance(r.queue, skb).hash = r.queue.hash
          /\ Advance(r.queue, skb).seq_next = max_seq(r.queue.seq_next, SeqEnd(skb))
      BY <1>13, AdvanceNext
    <3> QED
      BY <1>13, <1>14, <2>2, <3>1, <3>2
  <2> QED
    BY <2>1, <2>2
<1> HIDE DEF next
<1>17. Follows(old, next, win)
  BY <1>3, <1>4, <1>10, <1>15, <1>16 DEF Follows, Placed
<1>18. PICK list, x : list = gro_list' /\ x = r.head
  OBVIOUS
<1>19. CameFrom(list, gro_list)
  <2>1. list = [gro_list EXCEPT ![e].head = x]
    BY <1>1, <1>18
  <2> QED
    BY <1>4, <2>1, SameEntries
<1>20. PICK n, c : /\ n = e /\ n \in 1..Len(gro_list)
                   /\ c.hash = ofo[gro_list[n].q].hash /\ Follows(ofo[gro_list[n].q], c, win)
                   /\ ofo' = [ofo EXCEPT ![gro_list[n].q] = c]
  BY <1>1, <1>3, <1>4, <1>16, <1>17 DEF q
<1> QED
  BY <1>2, <1>18, <1>19, <1>20, EntryFollows

(* A flow starts to hold packets; another one may make room for it.        *)
LEMMA HoldFollows ==
  ASSUME NEW win, Rooms(win), SInv(win), NEW p \in Packets, ReceiveHold(p)
  PROVE  AllFollow(ofo, ofo', win) /\ Remembered(gro_list', ofo')
<1> DEFINE hash  == TcpHash[p.flow]
           i     == IdleIndex(hash)
           x     == idle[i]
           skb   == SkbOf(p, Len(rx) + 1)
           was   == ofo[x]
           got   == napi_get_tcp_ofo_queue(hash)
           queue == TakenForData(got, skb)
           one   == 1
           z     == 0
           items == <<skb>>
           held  == [queue EXCEPT !.items = items, !.skb_num = one, !.age = z, !.hash = hash]
           entry == [flow |-> p.flow, q |-> x, head |-> skb.id]
           l     == gro_list[Len(gro_list)].q
           old   == ofo[l]
           empty == Complete(old, Len(old.items))
           keep  == Front(gro_list)
<1>1. /\ TypeOK /\ ~Deleted /\ Receiving(p) /\ PoolInv /\ IInv /\ p.kind # "bypass"
  BY DEF SInv, OInv, IInv, ReceiveHold, Receiving
<1>2. PICK list, new : list = gro_list' /\ new = ofo'
  OBVIOUS
<1>3. \/ /\ list = <<entry>> \o gro_list
         /\ new = [ofo EXCEPT ![x] = held]
      \/ /\ gro_count >= MAX_GRO_SKBS
         /\ list = <<entry>> \o keep
         /\ new = [ofo EXCEPT ![x] = held, ![l] = empty]
  BY <1>2 DEF ReceiveHold
<1>4. skb \in SkbType /\ hash \in Nat /\ hash # 0 /\ p.flow \in Flows
  BY <1>1, ReceivingType, HashType, TcpHashAssumption
<1>5. /\ i \in 1..Len(idle) /\ got \in QueueType
      /\ got.hash \in {hash, 0} /\ (got.hash = hash \/ was.hash = hash => got = was)
  BY <1>1, <1>4, GotQueue
<1>6. skb.seq \in win[p.flow] /\ SeqEnd(skb) \in win[p.flow]
  BY <1>1, SkbInRoom
<1>7. skb.seq \in 0..(SeqRange - 1) /\ skb.id \in Nat
  <2> HIDE DEF skb
  <2> QED
    BY <1>4 DEF SkbType
<1> HIDE DEF i, items, one, z, skb, got
<1>8. queue \in QueueType /\ queue.seq_next = IF got.hash = 0 THEN skb.seq ELSE got.seq_next
  <2>1. PICK a : a = skb.seq
    OBVIOUS
  <2>2. TakenForData(got, skb) = IF got.hash = 0 THEN [got EXCEPT !.seq_next = a, !.flushed = FALSE]
                                 ELSE got
    BY <2>1 DEF TakenForData
  <2>3. TakenForData(got, skb) \in QueueType
    BY <1>4, <1>5, TakenForDataType
  <2> QED
    BY <1>5, <2>1, <2>2, <2>3 DEF QueueType
<1> HIDE DEF queue
<1>9. held.hash = hash /\ held.seq_next = queue.seq_next
  <2> HIDE DEF hash
  <2> QED
    BY <1>8 DEF QueueType
<1>10. /\ gro_list \in Seq(EntryType) /\ idle \in Seq(Queues)
       /\ ofo \in [Queues -> QueueType] /\ QInj(gro_list) /\ Len(gro_list) \in Nat
  BY <1>1, Basics DEF PoolInv, QInj
<1>11. x \in Queues /\ \A j \in 1..Len(gro_list) : gro_list[j].q # x /\ gro_list[j].q \in Queues
  BY <1>1, <1>5, <1>10, ElementOfSeq, Basics DEF PoolInv
<1>12. entry \in EntryType /\ entry.q = x /\ entry.flow = p.flow
  <2> HIDE DEF x
  <2> QED
    BY <1>4, <1>7, <1>11 DEF EntryType
<1>13. Placed(was, win)
  BY <1>11 DEF SInv
<1> HIDE DEF held, entry, x
<1>14. Follows(ofo[x], held, win)
  <2>1. PICK o, a, b, h, start :
          o = ofo[x] /\ a = skb.seq /\ b = SeqEnd(skb) /\ h = hash /\ start = queue.seq_next
    OBVIOUS
  <2>2. h = TcpHash[p.flow]
    BY <2>1
  <2> HIDE DEF hash
  <2>3. /\ Placed(o, win) /\ a \in win[p.flow] /\ b \in win[p.flow] /\ p.flow \in Flows
        /\ got.hash \in {h, 0} /\ (got.hash = h \/ o.hash = h => got = o)
        /\ start = (IF got.hash = 0 THEN a ELSE got.seq_next)
        /\ held.hash = h /\ held.seq_next \in {start, max_seq(start, b)}
    BY <1>4, <1>5, <1>6, <1>8, <1>9, <1>13, <2>1 DEF x
  <2>4. Follows(o, held, win)
    BY <2>2, <2>3, ChosenFollows
  <2> QED
    BY <2>1, <2>4
<1> HIDE DEF was
<1>15. CASE /\ list = <<entry>> \o gro_list
            /\ new = [ofo EXCEPT ![x] = held]
  <2>1. new[x] = held /\ \A q \in Queues : q # x => new[q] = ofo[q]
    BY <1>10, <1>11, <1>15
  <2>2. ASSUME NEW q \in Queues PROVE Follows(ofo[q], new[q], win)
    <3>1. CASE q = x
      BY <1>14, <2>1, <3>1
    <3>2. CASE q # x
      BY <2>1, <3>2, SameFollows DEF SInv
    <3> QED
      BY <3>1, <3>2
  <2>3. Behind(list, entry, gro_list)
    BY <1>10, <1>11, <1>12, <1>15, ConsEntry
  <2>4. ASSUME NEW j \in 1..Len(list)
        PROVE  new[list[j].q].hash = TcpHash[list[j].flow]
    <3>1. CASE j = 1
      BY <1>9, <1>12, <2>1, <2>3, <3>1 DEF Behind
    <3>2. CASE j # 1
      <4>1. PICK m \in 1..Len(gro_list) : list[j] = gro_list[m]
        BY <2>3, <3>2 DEF Behind
      <4> QED
        BY <1>11, <2>1, <4>1 DEF SInv, Remembered
    <3> QED
      BY <3>1, <3>2
  <2> QED
    BY <1>2, <2>2, <2>4 DEF AllFollow, Remembered
<1>16. CASE /\ gro_count >= MAX_GRO_SKBS
            /\ list = <<entry>> \o keep
            /\ new = [ofo EXCEPT ![x] = held, ![l] = empty]
  <2>1. Len(gro_list) \in 1..Len(gro_list)
    <3>1. gro_count = Len(gro_list) /\ gro_count >= MAX_GRO_SKBS
      BY <1>1, <1>16 DEF PoolInv
    <3> QED
      BY <1>10, <3>1, MaxGroSkbsAssumption
  <2>2. l \in Queues /\ l # x
    BY <1>11, <2>1
  <2>3. Follows(old, empty, win) /\ empty.hash = old.hash
    <3>1. PICK o, n, c, e : o = old /\ n = Len(old.items) /\ c = empty /\ e = Len(gro_list)
      OBVIOUS
    <3>2. o = ofo[gro_list[e].q] /\ n = Len(o.items) /\ c = Complete(o, n) /\ e \in 1..Len(gro_list)
      BY <2>1, <3>1
    <3>3. o.items \in Seq(SkbType)
      <4>1. o \in QueueType
        BY <1>10, <2>2, <3>1
      <4> QED
        BY <4>1 DEF QueueType
    <3>4. n \in 0..Len(o.items)
      BY <3>2, <3>3, LenProperties
    <3> HIDE DEF old, empty
    <3>5. Follows(o, c, win) /\ c.hash = o.hash
      BY <3>2, <3>4, CompleteFollows
    <3> QED
      BY <3>1, <3>5
  <2>4. PICK c : c = empty /\ new = [ofo EXCEPT ![x] = held, ![l] = c]
    BY <1>16
  <2> HIDE DEF empty, l
  <2>5. /\ new[x] = held /\ new[l] = c
        /\ \A q \in Queues : q # x /\ q # l => new[q] = ofo[q]
    BY <1>10, <1>11, <2>2, <2>4
  <2>6. ASSUME NEW q \in Queues
        PROVE  Follows(ofo[q], new[q], win) /\ (q # x => new[q].hash = ofo[q].hash)
    <3>1. CASE q = x
      BY <1>14, <2>5, <3>1
    <3>2. CASE q = l
      BY <2>2, <2>3, <2>4, <2>5, <3>2
    <3>3. CASE q # x /\ q # l
      BY <2>5, <3>3, SameFollows DEF SInv
    <3> QED
      BY <3>1, <3>2, <3>3
  <2>7. PICK k : k = keep
    OBVIOUS
  <2>8. k \in Seq(EntryType) /\ QInj(k) /\ Among(k, gro_list, Len(gro_list))
    BY <1>10, <2>1, <2>7, FrontEntries
  <2>9. \A j \in 1..Len(k) : k[j].q # entry.q
    BY <1>11, <1>12, <2>8 DEF Among
  <2>10. list = <<entry>> \o k
    BY <1>16, <2>7
  <2>11. Behind(list, entry, k)
    BY <1>12, <2>8, <2>9, <2>10, ConsEntry
  <2>12. ASSUME NEW j \in 1..Len(list)
         PROVE  new[list[j].q].hash = TcpHash[list[j].flow]
    <3>1. CASE j = 1
      BY <1>9, <1>12, <2>5, <2>11, <3>1 DEF Behind
    <3>2. CASE j # 1
      <4>1. PICK n \in 1..Len(k) : list[j] = k[n]
        BY <2>11, <3>2 DEF Behind
      <4>2. PICK m \in 1..Len(gro_list) : k[n] = gro_list[m]
        BY <2>8 DEF Among
      <4>3. new[gro_list[m].q].hash = ofo[gro_list[m].q].hash
        BY <1>11, <2>6
      <4> QED
        BY <4>1, <4>2, <4>3 DEF SInv, Remembered
    <3> QED
      BY <3>1, <3>2
  <2> QED
    BY <1>2, <2>6, <2>12 DEF AllFollow, Remembered
<1> QED
  BY <1>3, <1>15, <1>16

LEMMA NextFollows ==
  ASSUME NEW win, Rooms(win), SInv(win), [Next]_vars
  PROVE  AllFollow(ofo, ofo', win) /\ Remembered(gro_list', ofo')
<1>1. CASE UNCHANGED <<ofo, gro_list>>
  <2>1. PICK list, new : list = gro_list' /\ new = ofo' /\ list = gro_list /\ new = ofo
    BY <1>1
  <2> QED
    BY <2>1, UnmovedFollows
<1>2. ASSUME NEW p \in Packets, napi_gro_receive(p)
      PROVE  AllFollow(ofo, ofo', win) /\ Remembered(gro_list', ofo')
  <2>1. CASE ReceiveBypass(p)
    BY <1>1, <2>1 DEF ReceiveBypass, engine_vars
  <2>2. CASE ReceiveFound(p)
    BY <2>2, FoundFollows
  <2>3. CASE ReceiveControl(p)
    BY <2>3, ControlFollows
  <2>4. CASE ReceiveStale(p)
    BY <2>4, StaleFollows
  <2>5. CASE ReceiveHold(p)
    BY <2>5, HoldFollows
  <2> QED
    BY <1>2, <2>1, <2>2, <2>3, <2>4, <2>5 DEF napi_gro_receive
<1>3. ASSUME NEW old \in BOOLEAN, FlushBegin(old)
      PROVE  AllFollow(ofo, ofo', win) /\ Remembered(gro_list', ofo')
  BY <1>1, <1>3 DEF FlushBegin, engine_vars
<1>4. CASE FlushEntry
  BY <1>4, FlushEntryFollows
<1>5. CASE napi_clean_tcp_ofo_queue
  BY <1>5, CleanFollows
<1>6. CASE netif_napi_del
  <2>1. PICK list, new : list = gro_list' /\ new = ofo' /\ list = <<>> /\ new = ofo
    BY <1>6 DEF netif_napi_del
  <2> QED
    BY <2>1, UnmovedFollows
<1>7. CASE Tick
  BY <1>7, TickFollows
<1>8. CASE UNCHANGED vars
  BY <1>1, <1>8 DEF vars
<1> QED
  BY <1>2, <1>3, <1>4, <1>5, <1>6, <1>7, <1>8 DEF Next

LEMMA InitSInv ==
  ASSUME NEW win, Init
  PROVE  SInv(win)
<1>1. OInv(win) /\ gro_list = <<>>
  BY InitOInv DEF Init
<1>2. ASSUME NEW q \in Queues PROVE Placed(ofo[q], win)
  <2>1. PICK garbage : ofo = [k \in Queues |-> FreshQueue(garbage[k])]
    BY DEF Init
  <2>2. ofo[q] = FreshQueue(garbage[q])
    BY <2>1
  <2>3. ofo[q].hash = 0
    BY <2>2 DEF FreshQueue
  <2> QED
    BY <2>3 DEF Placed
<1> QED
  BY <1>1, <1>2 DEF SInv, Remembered

LEMMA NextKeepsSInv ==
  ASSUME NEW win, Rooms(win), SInv(win), [Next]_vars
  PROVE  SInv(win)'
<1>1. OInv(win)'
  BY NextKeepsOInv DEF SInv, Rooms
<1>2. PICK list, new : list = gro_list' /\ new = ofo'
  OBVIOUS
<1>3. AllFollow(ofo, new, win) /\ Remembered(list, new)
  BY <1>2, NextFollows
<1>4. \A q \in Queues : Placed(new[q], win)
  BY <1>3 DEF AllFollow, Follows
<1> QED
  BY <1>1, <1>2, <1>3, <1>4 DEF SInv, Remembered, Placed, Queues

(* The assumption on traffic: the packets of the flows with one port pair, *)
(* data and control alike, lie in half of the sequence space, counted from *)
(* some number of that pair.                                               *)
PairInHalf(base, hash) ==
  \A p \in Packets :
    TcpHash[p.flow] = hash /\ p.kind # "bypass"
      => ((p.seq - base) % SeqRange) + p.len < SeqRange \div 2

PortPairHalfSpace == \A f \in Flows : \E base \in SeqNumbers : PairInHalf(base, TcpHash[f])

LEMMA PortPairRooms ==
  ASSUME PortPairHalfSpace
  PROVE  \E win : Rooms(win)
<1> DEFINE base(h) == CHOOSE b \in SeqNumbers : PairInHalf(b, h)
<1>1. PICK win : win = [f \in Flows |-> Window(base(TcpHash[f]))]
  OBVIOUS
<1>2. ASSUME NEW f \in Flows
      PROVE  /\ Fits(win[f], f) /\ Linear(win[f]) /\ WeakOrder(win[f]) /\ win[f] # {}
             /\ \A p \in Packets :
                  p.flow = f /\ p.kind # "bypass" => p.seq \in win[f] /\ SeqEnd(p) \in win[f]
             /\ \A g \in Flows : TcpHash[f] = TcpHash[g] => win[f] = win[g]
  <2>1. PICK b : b = base(TcpHash[f])
    OBVIOUS
  <2>2. b \in SeqNumbers /\ PairInHalf(b, TcpHash[f])
    BY <2>1 DEF PortPairHalfSpace
  <2>3. win[f] = Window(b)
    BY <1>1, <2>1
  <2>4. Linear(Window(b)) /\ WeakOrder(Window(b)) /\ b \in Window(b)
    BY <2>2, WindowLinear, WindowWeakOrder, BaseInWindow
  <2>5. ASSUME NEW p \in Packets, p.flow = f, p.kind # "bypass"
        PROVE  /\ p.seq \in Window(b) /\ SeqEnd(p) \in Window(b)
               /\ p.kind = "data" => Spans(p, Window(b))
    <3>1. ((p.seq - b) % SeqRange) + p.len < SeqRange \div 2
      BY <2>2, <2>5 DEF PairInHalf
    <3> QED
      BY <2>2, <3>1, HalfHolds, HalfSpans
  <2>6. Fits(Window(b), f)
    BY <2>4, <2>5 DEF Fits
  <2>7. \A g \in Flows : TcpHash[f] = TcpHash[g] => win[f] = win[g]
    BY <1>1
  <2> QED
    BY <2>3, <2>4, <2>5, <2>6, <2>7
<1> QED
  BY <1>2 DEF Rooms, Windows

(* Once a queue has passed something up, its seq_next never moves back     *)
(* while it remembers the same port pair, although skb_gro_flush assigns   *)
(* it without max_seq and an idle queue is taken up again by whichever     *)
(* flow has its port pair.  The assumption is that of OrderCorrect for the *)
(* flows of a port pair together, control segments included, because both  *)
(* move the seq_next of their one queue.                                   *)
THEOREM SeqNextMonotoneCorrect == ASSUME PortPairHalfSpace PROVE Spec => SeqNextMonotone
<1>1. PICK win : Rooms(win)
  BY PortPairRooms
<1>2. Init => SInv(win)
  BY InitSInv
<1>3. SInv(win) /\ [Next]_vars => SInv(win)'
  BY <1>1, NextKeepsSInv
<1>4. SInv(win) /\ [Next]_vars =>
        \A q \in Queues :
          ofo[q].hash # 0 /\ ofo'[q].hash = ofo[q].hash /\ ofo[q].flushed
            => ~before(ofo'[q].seq_next, ofo[q].seq_next)
  BY <1>1, NextFollows DEF AllFollow, Follows
<1>5. SInv(win) /\ [Next]_vars =>
        [\A q \in Queues :
           ofo[q].hash # 0 /\ ofo'[q].hash = ofo[q].hash /\ ofo[q].flushed
             => ~before(ofo'[q].seq_next, ofo[q].seq_next)]_vars
  BY <1>4
<1> QED
  BY <1>2, <1>3, <1>5, PTL DEF Spec, SeqNextMonotone

-----------------------------------------------------------------------------
(* Bulk data is not reordered.  The assumptions: segments of a flow that   *)
(* look alike do not overlap, because its sender cuts a stretch of full    *)
(* segments once only, and MaxFrags segments fit in one skb, as 17 of an   *)
(* Ethernet frame's size do.                                               *)
Alike(p, q) ==
  /\ p.flow = q.flow /\ p.kind = "data" /\ q.kind = "data"
  /\ ~p.psh /\ ~q.psh /\ p.hdr = q.hdr /\ p.len = q.len

SegmentsApart == \A p, q \in Packets : Alike(p, q) /\ p # q => Clear(p, q)

BulkFits == \A p \in Packets : p.kind = "data" => p.len * MaxFrags < MaxLen

(* An skb of bulk data is as long as its packets ...                       *)
Uniform(s, h, g) ==
  /\ ~s.psh /\ s.hdr = h /\ s.gso = g /\ ~s.gso_end
  /\ s.len = g * Len(s.pkts)

(* ... which stand in it in order and lie inside it ...                    *)
Strung(log, W, s) ==
  \A k \in 1..Len(s.pkts) :
    LET x == log[s.pkts[k]].seq
    IN  /\ x \in W /\ UpTo(s.seq, x) /\ before(x, SeqEnd(s))
        /\ \A l \in 1..Len(s.pkts) : k < l => before(x, log[s.pkts[l]].seq)

(* ... and any other segment like them does not touch it.                  *)
Kin(f, s) ==
  {x \in Packets : /\ x.flow = f /\ x.kind = "data" /\ ~x.psh
                   /\ x.hdr = s.hdr /\ x.len = s.gso}

Alone(log, f, s) ==
  \A x \in Kin(f, s) : (\A k \in 1..Len(s.pkts) : x # log[s.pkts[k]]) => Clear(x, s)

BulkSkbs(log, f, W) ==
  {s \in Skbs(log, f, W) : /\ Uniform(s, s.hdr, s.gso)
                           /\ Strung(log, W, s) /\ Alone(log, f, s)}

LEMMA BulkParts ==
  ASSUME NEW log, IsBulk(log)
  PROVE  /\ Len(log) <= MaxFrags
         /\ \A i \in 1..Len(log) : log[i].kind = "data" /\ ~log[i].psh
         /\ \A i, j \in 1..Len(log) :
              /\ log[i].hdr = log[j].hdr /\ log[i].len = log[j].len
              /\ log[i] = log[j] => i = j
BY DEF IsBulk

LEMMA BulkBefore ==
  ASSUME NEW log \in Seq(Packets), NEW p \in Packets, NEW more, more = Append(log, p), IsBulk(more)
  PROVE  IsBulk(log)
<1>1. /\ Len(more) = Len(log) + 1 /\ Len(log) \in Nat
      /\ \A i \in 1..Len(log) : more[i] = log[i] /\ i \in 1..Len(more)
  BY Grows
<1>2. MaxFrags \in Nat
  BY MaxFragsAssumption
<1>5. /\ Len(more) <= MaxFrags
      /\ \A i \in 1..Len(more) : more[i].kind = "data" /\ ~more[i].psh
      /\ \A i, j \in 1..Len(more) :
           /\ more[i].hdr = more[j].hdr /\ more[i].len = more[j].len
           /\ more[i] = more[j] => i = j
  BY DEF IsBulk
<1>6. Len(more) <= MaxFrags
  BY <1>5
<1>3. Len(log) <= MaxFrags
  BY <1>1, <1>2, <1>6
<1>4. ASSUME NEW i \in 1..Len(log), NEW j \in 1..Len(log)
      PROVE  /\ log[i].kind = "data" /\ ~log[i].psh /\ log[i].hdr = log[j].hdr
             /\ log[i].len = log[j].len /\ (log[i] = log[j] => i = j)
  <2>1. i \in 1..Len(more) /\ j \in 1..Len(more) /\ more[i] = log[i] /\ more[j] = log[j]
    BY <1>1
  <2>2. more[i].kind = "data" /\ ~more[i].psh
    BY <1>5, <2>1
  <2>3. more[i].hdr = more[j].hdr /\ more[i].len = more[j].len
    BY <1>5, <2>1
  <2>4. more[i] = more[j] => i = j
    BY <1>5, <2>1
  <2> QED
    BY <2>1, <2>2, <2>3, <2>4
<1> QED
  BY <1>3, <1>4 DEF IsBulk

(* What the packets of the log say of the skbs made of them.               *)
LEMMA BulkFields ==
  ASSUME NEW log \in Seq(Packets), IsBulk(log), NEW f, NEW W, NEW s \in BulkSkbs(log, f, W),
         NEW i \in 1..Len(log), NEW h, NEW g, h = log[i].hdr, g = log[i].len
  PROVE  /\ s \in SkbType /\ Uniform(s, h, g)
         /\ s.pkts \in Seq(1..Len(log)) /\ Len(s.pkts) \in Nat /\ Len(s.pkts) > 0
         /\ \A k \in 1..Len(s.pkts) : s.pkts[k] \in 1..Len(log) /\ log[s.pkts[k]].flow = f
<1>1. /\ s \in Skbs(log, f, W) /\ Uniform(s, s.hdr, s.gso)
  BY DEF BulkSkbs
<1>2. s \in SkbType /\ Built(log, f, s)
  BY <1>1 DEF Skbs
<1>3. s.pkts \in Seq(1..Len(log)) /\ Len(s.pkts) > 0 /\ Len(s.pkts) \in Nat
  BY <1>2, LenProperties DEF Built, Whole
<1>4. \A k \in 1..Len(s.pkts) : s.pkts[k] \in 1..Len(log) /\ log[s.pkts[k]].flow = f /\ log[s.pkts[k]].hdr = s.hdr
  BY <1>2, <1>3, ElementOfSeq DEF Built
<1>5. 1 \in 1..Len(s.pkts)
  BY <1>3
<1>6. s.gso = log[s.pkts[1]].len
  BY <1>2 DEF Built, Ends
<1>7. s.hdr = h /\ s.gso = g
  BY <1>4, <1>5, <1>6, BulkParts
<1> QED
  BY <1>1, <1>2, <1>3, <1>4, <1>7

(* Appending to the log leaves the skbs what they are.                     *)
LEMMA BulkSkbsGrow ==
  ASSUME NEW log \in Seq(Packets), NEW p \in Packets, NEW more, more = Append(log, p),
         NEW f, NEW W
  PROVE  BulkSkbs(log, f, W) \subseteq BulkSkbs(more, f, W)
<1> SUFFICES ASSUME NEW s \in BulkSkbs(log, f, W) PROVE s \in BulkSkbs(more, f, W)
  OBVIOUS
<1>1. s \in Skbs(log, f, W) /\ Uniform(s, s.hdr, s.gso) /\ Strung(log, W, s) /\ Alone(log, f, s)
  BY DEF BulkSkbs
<1>2. s \in Skbs(more, f, W)
  BY <1>1, SkbsGrow
<1>3. s.pkts \in Seq(1..Len(log))
  BY <1>1 DEF Skbs, Built, Whole
<1>4. \A k \in 1..Len(s.pkts) : more[s.pkts[k]] = log[s.pkts[k]]
  BY <1>3, Grows, ElementOfSeq
<1>5. Strung(more, W, s)
  BY <1>1, <1>4 DEF Strung
<1>6. Alone(more, f, s)
  BY <1>1, <1>4 DEF Alone
<1> QED
  BY <1>1, <1>2, <1>5, <1>6 DEF BulkSkbs

LEMMA BulkMore ==
  ASSUME NEW log \in Seq(Packets), NEW more, More(log, more)
  PROVE  /\ \A f, W : BulkSkbs(log, f, W) \subseteq BulkSkbs(more, f, W)
         /\ IsBulk(more) => IsBulk(log)
<1>1. CASE more = log
  BY <1>1
<1>2. CASE more # log
  <2>1. PICK p \in Packets : more = Append(log, p)
    BY <1>2 DEF More
  <2>2. \A f, W : BulkSkbs(log, f, W) \subseteq BulkSkbs(more, f, W)
    BY <2>1, BulkSkbsGrow
  <2>3. IsBulk(more) => IsBulk(log)
    BY <2>1, BulkBefore
  <2> QED
    BY <2>2, <2>3
<1> QED
  BY <1>1, <1>2

(* Two uniform skbs that have together no more packets than fit.           *)
LEMMA UniformMerge ==
  ASSUME NEW p \in SkbType, NEW s \in SkbType, NEW h, NEW g \in Nat, g > 0, g * MaxFrags < MaxLen,
         Uniform(p, h, g), Uniform(s, h, g), Len(p.pkts) + Len(s.pkts) <= MaxFrags
  PROVE  Mergeable(p, s)
<1>1. PICK a, b : a = Len(p.pkts) /\ b = Len(s.pkts)
  OBVIOUS
<1>2. a \in Nat /\ b \in Nat /\ MaxFrags \in Nat /\ MaxLen \in Nat /\ a + b <= MaxFrags
  BY <1>1, LenProperties, MaxFragsAssumption, MaxLenAssumption DEF SkbType
<1>3. p.len = g * a /\ s.len = g * b
  BY <1>1 DEF Uniform
<1>4. PICK d : d = MaxFrags - (a + b)
  OBVIOUS
<1>5. d \in Nat /\ MaxFrags = (a + b) + d
  BY <1>2, <1>4
<1>6. /\ g * a \in Int /\ g * b \in Int /\ g * (a + b) = g * a + g * b
  BY <1>2, Multiples
<1>7. g * (a + b) \in Int /\ g * d \in Int /\ g * ((a + b) + d) = g * (a + b) + g * d
  <2>1. PICK c : c = a + b
    OBVIOUS
  <2>2. c \in Int /\ d \in Int
    BY <1>2, <1>5, <2>1
  <2>3. g * c \in Int /\ g * d \in Int /\ g * (c + d) = g * c + g * d
    BY <2>2, Multiples
  <2> QED
    BY <2>1, <2>3
<1>8. g * d >= 0
  <2>1. CASE d = 0
    BY <2>1
  <2>2. CASE d # 0
    <3>1. d \in Int /\ d >= 1
      BY <1>5, <2>2
    <3> QED
      BY <3>1, Multiples
  <2> QED
    BY <2>1, <2>2
<1>9. g * a + g * b < MaxLen
  <2>1. PICK t : t = g * MaxFrags
    OBVIOUS
  <2>2. t = (g * a + g * b) + g * d /\ t < MaxLen
    BY <1>5, <1>6, <1>7, <2>1
  <2> QED
    BY <1>2, <1>6, <1>7, <1>8, <2>2
<1>10. ~Merge2Big(p, s)
  <2>1. PICK u, v, c : u = g * a /\ v = g * b /\ c = u + v
    OBVIOUS
  <2>2. u \in Int /\ v \in Int /\ c \in Int /\ c < MaxLen /\ p.len = u /\ s.len = v
    BY <1>3, <1>6, <1>9, <2>1
  <2>3. ~(p.len + s.len >= MaxLen)
    BY <1>2, <2>1, <2>2
  <2>4. ~(Len(p.pkts) + Len(s.pkts) > MaxFrags)
    <3>1. \A n, m \in Nat : n <= m => ~(n > m)
      OBVIOUS
    <3>2. PICK n : n = Len(p.pkts) + Len(s.pkts)
      OBVIOUS
    <3>4. n = a + b
      BY <1>1, <3>2
    <3>5. n \in Nat /\ n <= MaxFrags
      BY <1>2, <3>4
    <3>3. n \in Nat /\ n <= MaxFrags /\ MaxFrags \in Nat
      BY <1>2, <3>5
    <3>6. ~(n > MaxFrags)
      BY <3>1, <3>3
    <3> QED
      BY <3>2, <3>6
  <2> QED
    BY <2>3, <2>4 DEF Merge2Big
<1>11. /\ ~p.psh /\ ~p.gso_end /\ p.hdr = s.hdr /\ p.gso = g /\ s.gso = g
  BY DEF Uniform
<1>12. ~(g > g) /\ ~(g < g)
  OBVIOUS
<1>13. ~MergeFail(p, s)
  BY <1>11, <1>12 DEF MergeFail
<1> QED
  BY <1>10, <1>13 DEF Mergeable

LEMMA UniformMerged ==
  ASSUME NEW p \in SkbType, NEW s \in SkbType, NEW h, NEW g \in Nat,
         Uniform(p, h, g), Uniform(s, h, g), NEW m, m = Merged(p, s)
  PROVE  /\ m \in SkbType /\ Uniform(m, h, g) /\ m.pkts = p.pkts \o s.pkts
         /\ Len(m.pkts) = Len(p.pkts) + Len(s.pkts)
<1> DEFINE a == s.psh
           b == s.gso_end \/ p.gso > s.gso
           l == p.len + s.len
           k == p.pkts \o s.pkts
           t == [p EXCEPT !.psh = a, !.gso_end = b, !.len = l, !.pkts = k]
<1>0. m \in SkbType
  BY MergedType
<1>1. m = t
  BY DEF Merged
<1> HIDE DEF a, b, l, k
<1>2. t.hdr = p.hdr /\ t.gso = p.gso /\ t.psh = a /\ t.gso_end = b /\ t.len = l /\ t.pkts = k
  BY DEF SkbType
<1> HIDE DEF t
<1>3. /\ p.pkts \in Seq(Nat) /\ s.pkts \in Seq(Nat)
  BY DEF SkbType
<1>4. Len(k) = Len(p.pkts) + Len(s.pkts) /\ Len(p.pkts) \in Nat /\ Len(s.pkts) \in Nat
  BY <1>3, ConcatProperties, LenProperties DEF k
<1>5. l = g * Len(k)
  <2>1. PICK x, y : x = Len(p.pkts) /\ y = Len(s.pkts)
    OBVIOUS
  <2>2. l = g * x + g * y /\ x \in Int /\ y \in Int /\ Len(k) = x + y
    BY <1>4, <2>1 DEF Uniform, l
  <2>3. g * (x + y) = g * x + g * y
    BY <2>2, Multiples
  <2> QED
    BY <2>2, <2>3
<1>6. ~a /\ ~b
  <2>1. ~s.psh /\ ~s.gso_end /\ p.gso = g /\ s.gso = g /\ ~(g > g)
    BY DEF Uniform
  <2> QED
    BY <2>1 DEF a, b
<1>7. p.hdr = h /\ p.gso = g
  BY DEF Uniform
<1>8. ~m.psh /\ m.hdr = h /\ m.gso = g /\ ~m.gso_end
  BY <1>1, <1>2, <1>6, <1>7
<1>9. m.pkts = k /\ m.len = l
  BY <1>1, <1>2
<1>10. Uniform(m, h, g)
  BY <1>5, <1>8, <1>9 DEF Uniform
<1> QED
  BY <1>0, <1>4, <1>9, <1>10 DEF k

LEMMA UniformOne ==
  ASSUME NEW p \in SkbType, NEW s \in SkbType, NEW h, NEW g \in Nat,
         Uniform(p, h, g), Uniform(s, h, g), Len(s.pkts) = 1, NEW m, m = Merged(p, s)
  PROVE  m \in SkbType /\ Uniform(m, h, g) /\ Len(m.pkts) = Len(p.pkts) + 1
<1>1. m \in SkbType
  BY UniformMerged
<1>2. Uniform(m, h, g)
  BY UniformMerged
<1>3. Len(m.pkts) = Len(p.pkts) + Len(s.pkts)
  BY UniformMerged, Zenon
<1>4. Len(m.pkts) = Len(p.pkts) + 1
  BY <1>3
<1> QED
  BY <1>1, <1>2, <1>4

(* Two lists of different packets have no more than there are.             *)
LEMMA FitIn ==
  ASSUME NEW n \in Nat, NEW s \in Seq(1..n), NEW t \in Seq(1..n),
         \A k, l \in 1..Len(s) : s[k] = s[l] => k = l,
         \A k, l \in 1..Len(t) : t[k] = t[l] => k = l,
         \A k \in 1..Len(s), l \in 1..Len(t) : s[k] # t[l]
  PROVE  Len(s) + Len(t) <= n
<1>1. PICK u, a, b : u = s \o t /\ a = Len(s) /\ b = Len(t)
  OBVIOUS
<1>2. /\ a \in Nat /\ b \in Nat /\ u \in Seq(1..n) /\ Len(u) = a + b
      /\ \A k \in 1..(a + b) : u[k] = IF k <= a THEN s[k] ELSE t[k - a]
  BY <1>1, LenProperties, ConcatProperties
<1>3. SUFFICES ASSUME n < a + b PROVE FALSE
  BY <1>1, <1>2
<1>4. /\ IsFiniteSet(1..n) /\ Cardinality(1..n) = n
      /\ IsFiniteSet(1..(a + b)) /\ Cardinality(1..(a + b)) = a + b
  <2>1. PICK c : c = a + b
    OBVIOUS
  <2>2. c \in Nat
    BY <1>2, <2>1
  <2>3. \A x \in Nat : IsFiniteSet(1..x) /\ Cardinality(1..x) = x
    <3> SUFFICES ASSUME NEW x \in Nat PROVE IsFiniteSet(1..x) /\ Cardinality(1..x) = x
      OBVIOUS
    <3>1. IsFiniteSet(1..x) /\ Cardinality(1..x) = IF 1 > x THEN 0 ELSE x - 1 + 1
      BY FS_Interval
    <3> QED
      BY <3>1
  <2> QED
    BY <2>1, <2>2, <2>3
<1>5. u \in [1..(a + b) -> 1..n]
  BY <1>2, LenProperties
<1>6. PICK x \in 1..(a + b), y \in 1..(a + b) : x # y /\ u[x] = u[y]
  <2>1. Cardinality(1..n) < Cardinality(1..(a + b))
    BY <1>3, <1>4
  <2>2. PICK S, T : S = 1..(a + b) /\ T = 1..n
    OBVIOUS
  <2>3. /\ IsFiniteSet(S) /\ IsFiniteSet(T) /\ Cardinality(T) < Cardinality(S)
        /\ u \in [S -> T]
    BY <1>4, <1>5, <2>1, <2>2
  <2>4. \E x, y \in S : x # y /\ u[x] = u[y]
    BY <2>3, FS_PigeonHole
  <2> QED
    BY <2>2, <2>4
<1>7. CASE x <= a /\ y <= a
  BY <1>1, <1>2, <1>6, <1>7
<1>8. CASE x <= a /\ ~(y <= a)
  <2>1. x \in 1..Len(s) /\ y - a \in 1..Len(t) /\ s[x] = t[y - a]
    BY <1>1, <1>2, <1>6, <1>8
  <2> QED
    BY <2>1
<1>9. CASE ~(x <= a) /\ y <= a
  <2>1. y \in 1..Len(s) /\ x - a \in 1..Len(t) /\ s[y] = t[x - a]
    BY <1>1, <1>2, <1>6, <1>9
  <2> QED
    BY <2>1
<1>10. CASE ~(x <= a) /\ ~(y <= a)
  <2>1. x - a \in 1..Len(t) /\ y - a \in 1..Len(t) /\ t[x - a] = t[y - a] /\ x - a # y - a
    BY <1>1, <1>2, <1>6, <1>10
  <2> QED
    BY <2>1
<1> QED
  BY <1>7, <1>8, <1>9, <1>10

LEMMA PacketsFit ==
  ASSUME NEW items \in Seq(SkbType), Distinct(items), NEW n \in Nat, IdsOf(items) \subseteq 1..n,
         NEW i \in 1..Len(items)
  PROVE  /\ Len(items[i].pkts) \in Nat /\ Len(items[i].pkts) <= n
         /\ \A j \in 1..Len(items) :
              j # i => /\ Len(items[j].pkts) \in Nat
                       /\ Len(items[i].pkts) + Len(items[j].pkts) <= n
<1>1. PICK pile : pile = PktsOf(items)
  OBVIOUS
<1>2. /\ pile \in Seq(Seq(Nat)) /\ Len(pile) = Len(items)
      /\ \A j \in 1..Len(items) : pile[j] = items[j].pkts
      /\ NoRepeats(pile) /\ PacketsIn(pile) \subseteq 1..n
  BY <1>1, PktsOfType DEF Distinct, IdsOf
<1>3. ASSUME NEW j \in 1..Len(items)
      PROVE  /\ pile[j] \in Seq(1..n) /\ Len(pile[j]) \in Nat
             /\ \A k, l \in 1..Len(pile[j]) : pile[j][k] = pile[j][l] => k = l
  <2>1. /\ pile[j] \in Seq(Nat) /\ Len(pile[j]) \in Nat
        /\ \A k \in 1..Len(pile[j]) : pile[j][k] \in PacketsIn(pile)
    BY <1>2, PileType
  <2>2. \A k \in 1..Len(pile[j]) : pile[j][k] \in 1..n
    BY <1>2, <2>1
  <2>3. PICK S, t : S = 1..n /\ t = pile[j]
    OBVIOUS
  <2>4. t \in Seq(Nat) /\ \A k \in 1..Len(t) : t[k] \in S
    BY <2>1, <2>2, <2>3
  <2>5. t \in Seq(S)
    BY ONLY <2>4, SeqIn
  <2>6. \A k, l \in 1..Len(pile[j]) : pile[j][k] = pile[j][l] => k = l
    <3>1. NoRepeats(pile) /\ j \in 1..Len(pile)
      BY <1>2
    <3> QED
      BY ONLY <3>1, Zenon DEF NoRepeats
  <2> QED
    BY <2>1, <2>3, <2>5, <2>6
<1>4. Len(pile[i]) <= n
  <2>1. <<>> \in Seq(1..n) /\ Len(<<>>) = 0
    OBVIOUS
  <2>2. PICK t : t = <<>>
    OBVIOUS
  <2>3. /\ t \in Seq(1..n) /\ Len(t) = 0 /\ \A k, l \in 1..Len(t) : t[k] = t[l] => k = l
        /\ \A k \in 1..Len(pile[i]), l \in 1..Len(t) : pile[i][k] # t[l]
    BY <2>1, <2>2
  <2>4. Len(pile[i]) + Len(t) <= n
    BY <1>3, <2>3, FitIn
  <2> QED
    BY <1>3, <2>3, <2>4
<1>5. ASSUME NEW j \in 1..Len(items), j # i
      PROVE  Len(pile[i]) + Len(pile[j]) <= n
  <2>1. \A k \in 1..Len(pile[i]), l \in 1..Len(pile[j]) : pile[i][k] # pile[j][l]
    BY <1>2, <1>5 DEF NoRepeats
  <2> QED
    BY <1>3, <2>1, FitIn
<1> QED
  BY <1>2, <1>3, <1>4, <1>5

(* The places of a segment in the window of its flow.                      *)
LEMMA KinPlaces ==
  ASSUME NEW W, W # {}, NEW f, Fits(W, f), NEW s, NEW x \in Kin(f, s)
  PROVE  x.seq \in W /\ SeqEnd(x) \in W /\ before(x.seq, SeqEnd(x))
BY DEF Kin, Fits, Spans

LEMMA BulkMerged ==
  ASSUME NEW log \in Seq(Packets), IsBulk(log), NEW W, W # {}, NEW f, Fits(W, f),
         NEW p \in BulkSkbs(log, f, W), NEW s \in BulkSkbs(log, f, W), Chains(p, s),
         NEW m, m = Merged(p, s)
  PROVE  m \in BulkSkbs(log, f, W)
<1>1. /\ p \in Skbs(log, f, W) /\ s \in Skbs(log, f, W) /\ p \in SkbType /\ s \in SkbType
      /\ Strung(log, W, p) /\ Strung(log, W, s) /\ Alone(log, f, p) /\ Alone(log, f, s)
      /\ Spans(p, W) /\ Spans(s, W) /\ Built(log, f, p)
  BY DEF BulkSkbs, Skbs
<1>2. Linear(W)
  BY DEF Fits
<1>3. m \in Skbs(log, f, W)
  <2>1. Closed(Skbs(log, f, W))
    BY <1>2, SkbsSpace DEF Space
  <2> QED
    BY <1>1, <2>1 DEF Closed
<1>4. PICK i \in 1..Len(log) : TRUE
  <2>1. p.pkts \in Seq(1..Len(log)) /\ Len(p.pkts) > 0 /\ Len(p.pkts) \in Nat
    BY <1>1, LenProperties DEF Built, Whole
  <2>2. p.pkts[1] \in 1..Len(log)
    BY <2>1, ElementOfSeq
  <2> QED
    BY <2>2
<1>5. PICK h, g : h = log[i].hdr /\ g = log[i].len
  OBVIOUS
<1>6. /\ Uniform(p, h, g) /\ Uniform(s, h, g) /\ Len(p.pkts) \in Nat /\ Len(s.pkts) \in Nat
      /\ p.pkts \in Seq(Nat) /\ s.pkts \in Seq(Nat)
  <2>1. Uniform(p, h, g) /\ Uniform(s, h, g) /\ Len(p.pkts) \in Nat /\ Len(s.pkts) \in Nat
    BY <1>5, BulkFields
  <2> QED
    BY <1>1, <2>1 DEF SkbType
<1>7. g \in Nat
  BY <1>5, LogElement
<1>8. Uniform(m, h, g) /\ m.pkts = p.pkts \o s.pkts
  BY <1>1, <1>6, <1>7, UniformMerged
<1>9. PICK a, b : a = Len(p.pkts) /\ b = Len(s.pkts)
  OBVIOUS
<1>10. /\ a \in Nat /\ b \in Nat /\ Len(m.pkts) = a + b
       /\ \A k \in 1..(a + b) : m.pkts[k] = IF k <= a THEN p.pkts[k] ELSE s.pkts[k - a]
  <2>1. PICK u, v, w : u = p.pkts /\ v = s.pkts /\ w = m.pkts
    OBVIOUS
  <2>2. /\ u \in Seq(Nat) /\ v \in Seq(Nat) /\ w = u \o v /\ Len(u) = a /\ Len(v) = b
        /\ a \in Nat /\ b \in Nat
    BY <1>6, <1>8, <1>9, <2>1
  <2>3. /\ w \in Seq(Nat) /\ Len(w) = Len(u) + Len(v)
        /\ \A k \in 1..(Len(u) + Len(v)) : w[k] = IF k <= Len(u) THEN u[k] ELSE v[k - Len(u)]
    BY <2>2, ConcatProperties
  <2> QED
    BY <2>1, <2>2, <2>3
<1>11. m.seq = p.seq /\ SeqEnd(m) = SeqEnd(s) /\ SeqEnd(p) = s.seq
  BY <1>1, MergedEnds DEF Chains
<1>12. PICK c, d, e : c = p.seq /\ d = s.seq /\ e = SeqEnd(s)
  OBVIOUS
<1>13. /\ c \in W /\ d \in W /\ e \in W /\ before(c, d) /\ before(d, e) /\ before(c, e)
       /\ m.seq = c /\ SeqEnd(m) = e /\ SeqEnd(p) = d
  BY <1>1, <1>2, <1>11, <1>12, OrderFacts DEF Spans
<1>14. \A k \in 1..a : LET x == log[p.pkts[k]].seq
                       IN  /\ x \in W /\ UpTo(c, x) /\ before(x, d)
                           /\ \A l \in 1..a : k < l => before(x, log[p.pkts[l]].seq)
  BY <1>1, <1>9, <1>12, <1>13 DEF Strung
<1>15. \A k \in 1..b : LET x == log[s.pkts[k]].seq
                       IN  /\ x \in W /\ UpTo(d, x) /\ before(x, e)
                           /\ \A l \in 1..b : k < l => before(x, log[s.pkts[l]].seq)
  BY <1>1, <1>9, <1>12 DEF Strung
<1>16. ASSUME NEW k \in 1..(a + b)
       PROVE  LET x == log[m.pkts[k]].seq
              IN  /\ x \in W /\ UpTo(c, x) /\ before(x, e)
                  /\ \A l \in 1..(a + b) : k < l => before(x, log[m.pkts[l]].seq)
  <2>1. CASE k <= a
    <3>1. PICK x : x = log[m.pkts[k]].seq
      OBVIOUS
    <3>2. k \in 1..a /\ m.pkts[k] = p.pkts[k]
      BY <1>10, <2>1
    <3>3. x \in W /\ UpTo(c, x) /\ before(x, d)
      BY <1>14, <3>1, <3>2
    <3>4. before(x, e)
      BY <1>2, <1>13, <3>3, OrderFacts
    <3>5. ASSUME NEW l \in 1..(a + b), k < l PROVE before(x, log[m.pkts[l]].seq)
      <4>1. CASE l <= a
        <5>1. l \in 1..a /\ m.pkts[l] = p.pkts[l]
          BY <1>10, <4>1
        <5> QED
          BY <1>14, <3>1, <3>2, <3>5, <5>1
      <4>2. CASE ~(l <= a)
        <5>1. PICK y, n : y = log[m.pkts[l]].seq /\ n = l - a
          OBVIOUS
        <5>2. n \in 1..b /\ m.pkts[l] = s.pkts[n]
          BY <1>10, <4>2, <5>1
        <5>3. y \in W /\ UpTo(d, y)
          BY <1>15, <5>1, <5>2
        <5>4. before(x, y)
          BY <1>2, <1>13, <3>3, <5>3, OrderFacts
        <5> QED
          BY <5>1, <5>4
      <4> QED
        BY <4>1, <4>2
    <3> QED
      BY <3>1, <3>3, <3>4, <3>5
  <2>2. CASE ~(k <= a)
    <3>1. PICK x, n : x = log[m.pkts[k]].seq /\ n = k - a
      OBVIOUS
    <3>2. n \in 1..b /\ m.pkts[k] = s.pkts[n]
      BY <1>10, <2>2, <3>1
    <3>3. x \in W /\ UpTo(d, x) /\ before(x, e)
      BY <1>15, <3>1, <3>2
    <3>4. UpTo(c, x)
      <4>1. before(c, x)
        BY <1>2, <1>13, <3>3, OrderFacts DEF UpTo
      <4> QED
        BY <4>1 DEF UpTo
    <3>5. ASSUME NEW l \in 1..(a + b), k < l PROVE before(x, log[m.pkts[l]].seq)
      <4>1. PICK o : o = l - a
        OBVIOUS
      <4>2. ~(l <= a) /\ o \in 1..b /\ n < o
        <5>1. a \in Nat /\ b \in Nat /\ n = k - a /\ k \in Nat /\ l \in Nat /\ l <= a + b
              /\ ~(k <= a) /\ k < l
          BY <1>10, <2>2, <3>1, <3>5
        <5> QED
          BY ONLY <4>1, <5>1
      <4>3. m.pkts[l] = s.pkts[o]
        BY <1>10, <4>1, <4>2
      <4> QED
        BY <1>15, <3>1, <3>2, <4>2, <4>3
    <3> QED
      BY <3>1, <3>3, <3>4, <3>5
  <2> QED
    BY <2>1, <2>2
<1>17. Strung(log, W, m)
  BY <1>10, <1>13, <1>16 DEF Strung
<1>18. ASSUME NEW x \in Kin(f, m), \A k \in 1..(a + b) : x # log[m.pkts[k]]
       PROVE  Clear(x, m)
  <2>1. x \in Kin(f, p) /\ x \in Kin(f, s)
    BY <1>6, <1>8 DEF Kin, Uniform
  <2>2. ASSUME NEW k \in 1..a PROVE x # log[p.pkts[k]]
    <3>1. k \in 1..(a + b) /\ m.pkts[k] = p.pkts[k]
      BY <1>10
    <3> QED
      BY <1>18, <3>1
  <2>3. ASSUME NEW k \in 1..b PROVE x # log[s.pkts[k]]
    <3>1. PICK l : l = k + a
      OBVIOUS
    <3>2. l \in 1..(a + b) /\ ~(l <= a) /\ l - a = k
      BY <1>10, <3>1
    <3>3. m.pkts[l] = s.pkts[k]
      BY <1>10, <3>2
    <3> QED
      BY <1>18, <3>2, <3>3
  <2>4. Clear(x, p) /\ Clear(x, s)
    BY <1>1, <1>9, <2>1, <2>2, <2>3 DEF Alone
  <2>5. x.seq \in W /\ SeqEnd(x) \in W /\ before(x.seq, SeqEnd(x))
    BY <2>1, KinPlaces
  <2>6. PICK y, z : y = x.seq /\ z = SeqEnd(x)
    OBVIOUS
  <2>7. /\ y \in W /\ z \in W /\ before(y, z)
        /\ (UpTo(z, c) \/ UpTo(d, y)) /\ (UpTo(z, d) \/ UpTo(e, y))
    BY <1>12, <1>13, <2>4, <2>5, <2>6 DEF Clear
  <2>8. ~(UpTo(d, y) /\ UpTo(z, d))
    BY <1>2, <1>13, <2>7, OrderFacts DEF UpTo
  <2>9. UpTo(z, c) \/ UpTo(e, y)
    BY <2>7, <2>8
  <2> QED
    BY <1>13, <2>6, <2>9 DEF Clear
<1>19. Alone(log, f, m)
  BY <1>10, <1>18 DEF Alone
<1>20. Uniform(m, m.hdr, m.gso)
  BY <1>8 DEF Uniform
<1> QED
  BY <1>3, <1>17, <1>19, <1>20 DEF BulkSkbs

LEMMA BulkSpace ==
  ASSUME NEW log \in Seq(Packets), IsBulk(log), NEW W, W # {}, NEW f, Fits(W, f)
  PROVE  Space(BulkSkbs(log, f, W), W)
<1> DEFINE G == BulkSkbs(log, f, W)
<1>1. G \subseteq Skbs(log, f, W)
  BY DEF BulkSkbs
<1>2. Linear(W)
  BY DEF Fits
<1>3. Closed(Skbs(log, f, W)) /\ InOrderedSpace(Skbs(log, f, W), W)
  BY <1>2, SkbsSpace DEF Space
<1>4. ASSUME NEW p \in G, NEW s \in G, Chains(p, s) PROVE Merged(p, s) \in G
  BY <1>4, BulkMerged
<1> HIDE DEF G
<1>5. Closed(G) /\ InOrderedSpace(G, W)
  BY <1>1, <1>3, <1>4 DEF Closed, InOrderedSpace
<1> QED
  BY <1>5 DEF Space, G

(* A segment that has just been received.                                  *)
FreshSkb(log, more, f, W, p, skb) ==
  /\ p.kind = "data" /\ skb \in BulkSkbs(more, f, W)
  /\ skb.seq = p.seq /\ SeqEnd(skb) = SeqEnd(p)
  /\ \A s \in BulkSkbs(log, f, W) : Clear(skb, s)

LEMMA NewBulk ==
  ASSUME SegmentsApart, NEW log \in Seq(Packets), NEW p \in Packets, NEW more,
         more = Append(log, p), IsBulk(more), NEW W, W # {}, NEW f, f = p.flow, Fits(W, f),
         NEW skb, skb = SkbOf(p, Len(log) + 1)
  PROVE  FreshSkb(log, more, f, W, p, skb)
<1>0. PICK n : n = Len(log) + 1
  OBVIOUS
<1>1. /\ n \in Nat /\ n \in 1..Len(more) /\ more[n] = p /\ more \in Seq(Packets)
      /\ \A i \in 1..Len(log) : more[i] = log[i] /\ i \in 1..Len(more) /\ i # n
  <2>1. /\ more \in Seq(Packets) /\ Len(more) = Len(log) + 1 /\ Len(log) \in Nat
        /\ \A i \in 1..Len(log) : more[i] = log[i]
        /\ more[Len(log) + 1] = p
    BY Grows
  <2> QED
    BY <1>0, <2>1
<1>2. p.kind = "data" /\ ~p.psh
  <2>1. \A i \in 1..Len(more) : more[i].kind = "data" /\ ~more[i].psh
    BY DEF IsBulk
  <2>2. more[n].kind = "data" /\ ~more[n].psh
    BY <1>1, <2>1
  <2>3. more[n] = p
    BY <1>1
  <2> QED
    BY <2>2, <2>3
<1>3. /\ skb.seq = p.seq /\ skb.len = p.len /\ skb.psh = p.psh /\ skb.hdr = p.hdr
      /\ skb.gso = p.len /\ skb.gso_end = FALSE /\ skb.pkts = <<n>>
  BY <1>0 DEF SkbOf
<1>4. SeqEnd(skb) = SeqEnd(p)
  BY <1>3 DEF SeqEnd
<1>5. skb \in Skbs(more, f, W)
  BY <1>2, SkbOfBuilt
<1>6. Len(skb.pkts) = 1 /\ skb.pkts[1] = n /\ 1..Len(skb.pkts) = {1}
  <2>1. skb.pkts = <<n>>
    BY <1>3
  <2>2. Len(<<n>>) = 1 /\ <<n>>[1] = n
    OBVIOUS
  <2>3. Len(skb.pkts) = 1 /\ skb.pkts[1] = n
    BY <2>1, <2>2
  <2>4. 1..1 = {1}
    OBVIOUS
  <2> QED
    BY <2>3, <2>4
<1>7. Uniform(skb, skb.hdr, skb.gso)
  <2>1. p.len \in Nat
    BY PacketsAssumption DEF PacketType
  <2>3. skb.len = p.len /\ skb.gso = p.len /\ Len(skb.pkts) = 1
    BY <1>3, <1>6
  <2>4. PICK l : l = p.len
    OBVIOUS
  <2>5. l * 1 = l
    BY <2>1, <2>4
  <2>2. skb.len = skb.gso * Len(skb.pkts)
    BY <2>3, <2>4, <2>5
  <2> QED
    BY <1>2, <1>3, <2>2 DEF Uniform
<1>8. Spans(p, W)
  BY <1>2 DEF Fits
<1>9. Strung(more, W, skb)
  <2> SUFFICES ASSUME NEW k \in 1..Len(skb.pkts)
               PROVE  LET x == more[skb.pkts[k]].seq
                      IN  /\ x \in W /\ UpTo(skb.seq, x) /\ before(x, SeqEnd(skb))
                          /\ \A l \in 1..Len(skb.pkts) : k < l => before(x, more[skb.pkts[l]].seq)
    BY DEF Strung
  <2>1. k = 1 /\ \A l \in 1..Len(skb.pkts) : ~(k < l)
    <3>1. 1..Len(skb.pkts) = {1} /\ ~(1 < 1)
      BY <1>6
    <3> QED
      BY <3>1
  <2>2. more[skb.pkts[k]].seq = p.seq
    BY <1>1, <1>6, <2>1
  <2> QED
    BY <1>3, <1>4, <1>8, <2>1, <2>2 DEF Spans, UpTo
<1>10. Alone(more, f, skb)
  <2> SUFFICES ASSUME NEW x \in Kin(f, skb), \A k \in 1..Len(skb.pkts) : x # more[skb.pkts[k]]
               PROVE  Clear(x, skb)
    BY DEF Alone
  <2>1. 1 \in 1..Len(skb.pkts)
    BY <1>6
  <2>2. x # p
    BY <1>1, <1>6, <2>1
  <2>3. Alike(x, p) /\ x \in Packets
    BY <1>2, <1>3 DEF Kin, Alike
  <2>4. Clear(x, p)
    BY <2>2, <2>3 DEF SegmentsApart
  <2> QED
    BY <1>3, <1>4, <2>4 DEF Clear
<1>11. skb \in BulkSkbs(more, f, W)
  BY <1>5, <1>7, <1>9, <1>10 DEF BulkSkbs
<1>12. ASSUME NEW s \in BulkSkbs(log, f, W) PROVE Clear(skb, s)
  <2>1. s \in BulkSkbs(more, f, W) /\ Alone(log, f, s)
    BY BulkSkbsGrow DEF BulkSkbs
  <2>2. PICK h, g : h = p.hdr /\ g = p.len
    OBVIOUS
  <2>8. h = more[n].hdr /\ g = more[n].len /\ n \in 1..Len(more) /\ more \in Seq(Packets)
    BY <1>1, <2>2
  <2>9. s \in BulkSkbs(more, f, W)
    BY <2>1
  <2>3. Uniform(s, h, g)
    BY <2>8, <2>9, BulkFields
  <2>4. p \in Kin(f, s)
    BY <1>2, <2>2, <2>3 DEF Kin, Uniform
  <2>5. \A k \in 1..Len(s.pkts) : s.pkts[k] \in 1..Len(log)
    <3>1. s \in Skbs(log, f, W)
      BY DEF BulkSkbs
    <3>2. s.pkts \in Seq(1..Len(log))
      BY <3>1 DEF Skbs, Built, Whole
    <3> QED
      BY <3>2, ElementOfSeq
  <2>6. ASSUME NEW k \in 1..Len(s.pkts) PROVE p # log[s.pkts[k]]
    <3>1. PICK i \in 1..Len(log) : i = s.pkts[k]
      BY <2>5
    <3>2. more[i] # more[n]
      BY <1>1, BulkParts
    <3> QED
      BY <1>1, <3>1, <3>2
  <2>7. Clear(p, s)
    BY <2>1, <2>4, <2>6 DEF Alone
  <2> QED
    BY <1>3, <1>4, <2>7 DEF Clear
<1> QED
  BY <1>2, <1>3, <1>4, <1>11, <1>12 DEF FreshSkb

(* It can be merged with whatever the queue of its flow holds.             *)
LEMMA BulkJoins ==
  ASSUME BulkFits, NEW log \in Seq(Packets), IsBulk(log), NEW n \in Nat, Len(log) = n + 1,
         NEW W, NEW f, NEW skb \in BulkSkbs(log, f, W), Len(skb.pkts) = 1,
         NEW items \in Seq(BulkSkbs(log, f, W)), Apart(items),
         \A i \in 1..Len(items) : Clear(skb, items[i]),
         Distinct(items), IdsOf(items) \subseteq 1..n
  PROVE  BulkCase(items, skb)
<1>1. PICK p, h, g : p = log[n + 1] /\ h = log[n + 1].hdr /\ g = log[n + 1].len
  OBVIOUS
<1>2. n + 1 \in 1..Len(log) /\ MaxFrags \in Nat
  BY MaxFragsAssumption
<1>3. n + 1 <= MaxFrags
  BY BulkParts
<1>4. g \in Nat /\ g > 0 /\ g * MaxFrags < MaxLen
  <2>1. p \in Packets
    BY <1>1, <1>2, ElementOfSeq
  <2>2. p.kind = "data"
    BY <1>1, <1>2 DEF IsBulk
  <2>3. p.len \in Nat /\ p.len > 0 /\ p.len * MaxFrags < MaxLen
    BY <2>1, <2>2, PacketsAssumption DEF PacketType, BulkFits
  <2> QED
    BY <1>1, <2>3
<1>6. ASSUME NEW s \in BulkSkbs(log, f, W) PROVE s \in SkbType /\ Uniform(s, h, g)
  BY <1>1, <1>2, BulkFields
<1>7. \A i \in 1..Len(items) : items[i] \in BulkSkbs(log, f, W)
  BY ElementOfSeq
<1>8. items \in Seq(SkbType)
  <2>1. \A i \in 1..Len(items) : items[i] \in SkbType
    BY <1>6, <1>7
  <2> QED
    BY <2>1, SeqIn
<1>9. skb \in SkbType /\ Uniform(skb, h, g)
  BY <1>6
<1>11. ASSUME NEW i \in 1..Len(items)
       PROVE  /\ Mergeable(items[i], skb) /\ Mergeable(skb, items[i])
              /\ \A j \in 1..Len(items) : j # i => Mergeable(Merged(items[i], skb), items[j])
  <2>1. PICK s, x : s = items[i] /\ x = Len(s.pkts)
    OBVIOUS
  <2>2. s \in SkbType /\ Uniform(s, h, g)
    BY <1>6, <1>7, <2>1
  <2>3. x \in Nat /\ x <= n
    BY <1>8, <2>1, PacketsFit
  <2>9. x + 1 <= MaxFrags /\ 1 + x <= MaxFrags
    BY <1>2, <1>3, <2>3
  <2>4. Len(s.pkts) + Len(skb.pkts) <= MaxFrags /\ Len(skb.pkts) + Len(s.pkts) <= MaxFrags
    BY <2>1, <2>9
  <2>5. Mergeable(s, skb) /\ Mergeable(skb, s)
    BY <1>4, <1>9, <2>2, <2>4, UniformMerge
  <2>6. PICK m : m = Merged(s, skb)
    OBVIOUS
  <2>7. m \in SkbType /\ Uniform(m, h, g) /\ Len(m.pkts) = x + 1
    <3>1. Len(m.pkts) = Len(s.pkts) + 1 /\ m \in SkbType /\ Uniform(m, h, g)
      BY <1>4, <1>9, <2>2, <2>6, UniformOne
    <3> QED
      BY <2>1, <3>1
  <2>8. ASSUME NEW j \in 1..Len(items), j # i PROVE Mergeable(m, items[j])
    <3>1. PICK t, z : t = items[j] /\ z = Len(t.pkts)
      OBVIOUS
    <3>2. t \in SkbType /\ Uniform(t, h, g)
      BY <1>6, <1>7, <3>1
    <3>3. z \in Nat /\ x + z <= n
      BY <1>8, <2>1, <2>8, <3>1, PacketsFit
    <3>6. (x + 1) + z <= MaxFrags
      BY <1>2, <1>3, <2>3, <3>3
    <3>4. Len(m.pkts) + Len(t.pkts) <= MaxFrags
      BY <2>7, <3>1, <3>6
    <3>5. Mergeable(m, t)
      BY <1>4, <2>7, <3>2, <3>4, UniformMerge
    <3> QED
      BY <3>1, <3>5
  <2> QED
    BY <2>1, <2>5, <2>6, <2>8
<1>12. MayJoin(items, skb)
  BY <1>11 DEF MayJoin
<1>13. ~skb.psh /\ \A i \in 1..Len(items) : ~items[i].psh
  BY <1>6, <1>7, <1>9 DEF Uniform
<1> QED
  BY <1>12, <1>13 DEF BulkCase

-----------------------------------------------------------------------------
(* The queues of the flows while the traffic is bulk data, and what a step *)
(* passes up: skbs of one flow, in order and in front of all it still      *)
(* holds.                                                                  *)
BulkQueue(log, W, f, queue) ==
  /\ queue.items \in Seq(BulkSkbs(log, f, W))
  /\ Apart(queue.items)
  /\ ~before(queue.items[1].seq, queue.seq_next)

AllBulk(log, list, queues, win) ==
  \A e \in 1..Len(list) : BulkQueue(log, win[list[e].flow], list[e].flow, queues[list[e].q])

OneEntry(list) == \A i, j \in 1..Len(list) : list[i].flow = list[j].flow => i = j

InFront(ahead, items) ==
  \A i \in 1..Len(ahead), j \in 1..Len(items) : UpTo(SeqEnd(ahead[i]), items[j].seq)

InTurn(log, list, queues, f, W, ahead) ==
  /\ ahead \in Seq(BulkSkbs(log, f, W)) /\ Apart(ahead)
  /\ \A e \in 1..Len(list) : list[e].flow = f => InFront(ahead, queues[list[e].q].items)

(* The packet x of an skb s, the k-th of it: where it lies in s.            *)
Lies(log, W, s, k, x) ==
  /\ x \in 1..Len(log) /\ log[x].seq \in W
  /\ s.seq \in W /\ SeqEnd(s) \in W
  /\ UpTo(s.seq, log[x].seq) /\ before(log[x].seq, SeqEnd(s))
  /\ \A l \in 1..Len(s.pkts) : k < l => before(log[x].seq, log[s.pkts[l]].seq)

LEMMA BulkPlaces ==
  ASSUME NEW log \in Seq(Packets), NEW f, NEW W, W # {}, NEW s \in BulkSkbs(log, f, W),
         NEW k \in 1..Len(s.pkts), NEW x, x = s.pkts[k]
  PROVE  Lies(log, W, s, k, x)
<1>1. s \in Skbs(log, f, W) /\ Strung(log, W, s)
  BY DEF BulkSkbs
<1>2. Built(log, f, s) /\ Spans(s, W)
  BY <1>1 DEF Skbs
<1>3. s.pkts \in Seq(1..Len(log))
  BY <1>2 DEF Built, Whole
<1>4. x \in 1..Len(log)
  BY <1>3, ElementOfSeq
<1> QED
  BY <1>1, <1>2, <1>4 DEF Strung, Spans, Lies

(* Packets passed up in turn are in order, and in front of those held.     *)
LEMMA InTurnPairs ==
  ASSUME NEW log \in Seq(Packets), NEW f, NEW W, Linear(W), W # {},
         NEW ahead \in Seq(BulkSkbs(log, f, W)), Apart(ahead),
         NEW pile, pile = PktsOf(ahead)
  PROVE  /\ pile \in Seq(Seq(Nat))
         /\ Len(pile) = Len(ahead) /\ \A i \in 1..Len(ahead) : pile[i] = ahead[i].pkts
         /\ \E R : /\ Paired(pile, R)
                   /\ \A x, y : <<x, y>> \in R => ~before(log[y].seq, log[x].seq)
<1>0. PICK R : R = {z \in Nat \X Nat : ~before(log[z[2]].seq, log[z[1]].seq)}
  OBVIOUS
<1>1. \A i \in 1..Len(ahead) : ahead[i] \in BulkSkbs(log, f, W)
  BY ElementOfSeq
<1>2. ahead \in Seq(SkbType)
  <2>1. BulkSkbs(log, f, W) \subseteq SkbType
    BY DEF BulkSkbs, Skbs
  <2> QED
    BY <2>1, SubSeqOf
<1>3. /\ pile \in Seq(Seq(Nat)) /\ Len(pile) = Len(ahead)
      /\ \A i \in 1..Len(ahead) : pile[i] = ahead[i].pkts
  BY <1>2, PktsOfType
<1>4. ASSUME NEW i \in 1..Len(ahead), NEW j \in 1..Len(ahead),
             NEW k \in 1..Len(ahead[i].pkts), NEW l \in 1..Len(ahead[j].pkts),
             i < j \/ (i = j /\ k < l)
      PROVE  <<ahead[i].pkts[k], ahead[j].pkts[l]>> \in R
  <2>0. PICK s, t : s = ahead[i] /\ t = ahead[j]
    OBVIOUS
  <2>1. PICK x, y, a, b : /\ x = s.pkts[k] /\ y = t.pkts[l]
                          /\ a = log[x].seq /\ b = log[y].seq
    OBVIOUS
  <2>2. /\ s \in BulkSkbs(log, f, W) /\ t \in BulkSkbs(log, f, W)
        /\ k \in 1..Len(s.pkts) /\ l \in 1..Len(t.pkts)
    BY <1>1, <2>0
  <2>3. /\ x \in 1..Len(log) /\ a \in W /\ SeqEnd(s) \in W /\ before(a, SeqEnd(s))
        /\ \A o \in 1..Len(s.pkts) : k < o => before(a, log[s.pkts[o]].seq)
    <3>1. Lies(log, W, s, k, x)
      BY <2>1, <2>2, BulkPlaces
    <3> QED
      BY <2>1, <3>1 DEF Lies
  <2>4. y \in 1..Len(log) /\ b \in W /\ t.seq \in W /\ UpTo(t.seq, b)
    <3>1. Lies(log, W, t, l, y)
      BY <2>1, <2>2, BulkPlaces
    <3> QED
      BY <2>1, <3>1 DEF Lies
  <2>5. before(a, b)
    <3>1. CASE i < j
      <4>1. PICK c, d : c = SeqEnd(s) /\ d = t.seq
        OBVIOUS
      <4>2. before(c, d)
        BY <2>0, <3>1, <4>1 DEF Apart
      <4>3. c \in W /\ d \in W /\ before(a, c) /\ UpTo(d, b)
        BY <2>3, <2>4, <4>1
      <4> QED
        BY <2>3, <2>4, <4>2, <4>3, OrderFacts
    <3>2. CASE i = j /\ k < l
      BY <2>0, <2>1, <2>3, <3>2
    <3> QED
      BY <1>4, <3>1, <3>2
  <2>6. ~before(b, a)
    BY <2>3, <2>4, <2>5, OrderFacts
  <2>7. x \in Nat /\ y \in Nat
    BY <2>3, <2>4
  <2>8. <<x, y>> \in Nat \X Nat /\ <<x, y>>[1] = x /\ <<x, y>>[2] = y
    BY <2>7
  <2> QED
    BY <1>0, <2>0, <2>1, <2>6, <2>8
<1>5. ASSUME NEW i \in 1..Len(pile), NEW j \in 1..Len(pile),
             NEW k \in 1..Len(pile[i]), NEW l \in 1..Len(pile[j]),
             i < j \/ (i = j /\ k < l)
      PROVE  <<pile[i][k], pile[j][l]>> \in R
  <2>1. /\ i \in 1..Len(ahead) /\ j \in 1..Len(ahead)
        /\ pile[i] = ahead[i].pkts /\ pile[j] = ahead[j].pkts
    BY <1>3
  <2>2. k \in 1..Len(ahead[i].pkts) /\ l \in 1..Len(ahead[j].pkts)
    BY <2>1
  <2> QED
    BY <1>4, <1>5, <2>1, <2>2
<1>6. Paired(pile, R)
  BY <1>5 DEF Paired
<1>7. ASSUME NEW x, NEW y, <<x, y>> \in R
      PROVE  ~before(log[y].seq, log[x].seq)
  BY <1>0, <1>7
<1> QED
  BY <1>3, <1>6, <1>7

LEMMA InTurnFront ==
  ASSUME NEW log \in Seq(Packets), NEW f, NEW W, Linear(W), W # {},
         NEW ahead \in Seq(BulkSkbs(log, f, W)), NEW items \in Seq(BulkSkbs(log, f, W)),
         InFront(ahead, items),
         NEW i \in 1..Len(ahead), NEW k \in 1..Len(ahead[i].pkts),
         NEW j \in 1..Len(items), NEW l \in 1..Len(items[j].pkts)
  PROVE  ~before(log[items[j].pkts[l]].seq, log[ahead[i].pkts[k]].seq)
<1>1. ahead[i] \in BulkSkbs(log, f, W) /\ items[j] \in BulkSkbs(log, f, W)
  BY ElementOfSeq
<1>s. PICK s, t : s = ahead[i] /\ t = items[j]
  OBVIOUS
<1>2. PICK x, y, a, b : /\ x = s.pkts[k] /\ y = t.pkts[l]
                        /\ a = log[x].seq /\ b = log[y].seq
  OBVIOUS
<1>3. PICK c, d : c = SeqEnd(s) /\ d = t.seq
  OBVIOUS
<1>a. /\ s \in BulkSkbs(log, f, W) /\ t \in BulkSkbs(log, f, W)
      /\ k \in 1..Len(s.pkts) /\ l \in 1..Len(t.pkts)
  BY <1>1, <1>s
<1>4. a \in W /\ c \in W /\ before(a, c)
  <2>1. Lies(log, W, s, k, x)
    BY <1>2, <1>a, BulkPlaces
  <2> QED
    BY <1>2, <1>3, <2>1 DEF Lies
<1>5. b \in W /\ d \in W /\ UpTo(d, b)
  <2>1. Lies(log, W, t, l, y)
    BY <1>2, <1>a, BulkPlaces
  <2> QED
    BY <1>2, <1>3, <2>1 DEF Lies
<1>6. UpTo(c, d)
  BY <1>s, <1>3 DEF InFront
<1>7. before(a, b)
  BY <1>4, <1>5, <1>6, OrderFacts DEF UpTo
<1>8. ~before(b, a)
  BY <1>4, <1>5, <1>7, OrderFacts
<1> QED
  BY <1>s, <1>2, <1>8

LEMMA TailOf ==
  ASSUME NEW a \in Seq(Seq(Nat)), NEW b \in Seq(Seq(Nat)), NEW c, c = a \o b
  PROVE  SubSeq(c, Len(a) + 1, Len(c)) = b
<1>1. PICK m, n, t : m = Len(a) + 1 /\ n = Len(c) /\ t = SubSeq(c, m, n)
  OBVIOUS
<1>2. /\ c \in Seq(Seq(Nat)) /\ n = Len(a) + Len(b) /\ Len(a) \in Nat /\ Len(b) \in Nat
      /\ \A i \in 1..Len(b) : c[Len(a) + i] = b[i]
  BY <1>1, ConcatPlaces
<1>3. m \in 1..(n + 1) /\ n \in (m - 1)..n
  BY <1>1, <1>2
<1>4. /\ t \in Seq(Seq(Nat)) /\ Len(t) = n - m + 1
      /\ \A j \in 1..(n - m + 1) : t[j] = c[m + j - 1]
  BY <1>1, <1>2, <1>3, PartProperties
<1>5. Len(t) = Len(b)
  <2>1. PICK u, v : u = Len(a) /\ v = Len(b)
    OBVIOUS
  <2>2. u \in Nat /\ v \in Nat /\ n = u + v /\ m = u + 1
    BY <1>1, <1>2, <2>1
  <2>3. n - m + 1 = v
    BY <2>2
  <2> QED
    BY <1>4, <2>1, <2>3
<1>6. ASSUME NEW j \in 1..Len(t) PROVE t[j] = b[j]
  <2>1. j \in 1..(n - m + 1) /\ j \in 1..Len(b) /\ m + j - 1 = Len(a) + j
    BY <1>1, <1>2, <1>4, <1>5
  <2> QED
    BY <1>2, <1>4, <2>1
<1>7. t = b
  BY <1>4, <1>5, <1>6, SeqEqual
<1> QED
  BY <1>1, <1>7

(* Packets that follow one another are passed up, and none held overtakes. *)
LEMMA NothingPassed ==
  ASSUME out \in Seq(Seq(Nat)), out' = out
  PROVE  InOrder
<1>1. /\ <<>> \in Seq(Seq(Nat)) /\ out \o <<>> = out
  BY ConcatEmptySeq, EmptySeq
<1>2. PICK e, c : e = <<>> /\ c = out'
  OBVIOUS
<1>3. SubSeq(c, Len(out) + 1, Len(c)) = e
  BY <1>1, <1>2, TailOf
<1>4. Len(e) = 0
  BY <1>2
<1>5. NewlyOut = e
  BY <1>2, <1>3, <1>4 DEF NewlyOut, FlattenSeq
<1>6. 1..Len(NewlyOut) = {}
  BY <1>4, <1>5
<1> QED
  BY <1>6 DEF InOrder

OfFlow(log, f, s) == \A k \in 1..Len(s.pkts) : log[s.pkts[k]].flow = f

LEMMA BulkFlow ==
  ASSUME NEW log, NEW f, NEW W, NEW s, s \in BulkSkbs(log, f, W)
  PROVE  OfFlow(log, f, s)
BY Zenon DEF BulkSkbs, Skbs, Built, OfFlow

GoesFirst(log, list, new, t) ==
  /\ \A x, y \in 1..Len(t) : x < y => ~before(log[t[y]].seq, log[t[x]].seq)
  /\ \A x \in 1..Len(t), e \in 1..Len(list) : \A y :
       /\ \E j \in 1..Len(new[list[e].q].items) :
            \E l \in 1..Len(new[list[e].q].items[j].pkts) : new[list[e].q].items[j].pkts[l] = y
       /\ log[t[x]].flow = log[y].flow
       => ~before(log[y].seq, log[t[x]].seq)

LEMMA TurnOrder ==
  ASSUME NEW win, Rooms(win), NEW log \in Seq(Packets), NEW list \in Seq(EntryType), NEW new,
         AllBulk(log, list, new, win),
         NEW f \in Flows, NEW W, W = win[f], NEW ahead, InTurn(log, list, new, f, W, ahead),
         NEW pile, pile = PktsOf(ahead), NEW t, t = FlattenSeq(pile)
  PROVE  pile \in Seq(Seq(Nat)) /\ GoesFirst(log, list, new, t)
<1>2. Linear(W) /\ W # {}
  BY RoomParts
<1>3. ahead \in Seq(BulkSkbs(log, f, W)) /\ Apart(ahead)
  BY DEF InTurn
<1>4. /\ pile \in Seq(Seq(Nat))
      /\ Len(pile) = Len(ahead) /\ \A i \in 1..Len(ahead) : pile[i] = ahead[i].pkts
      /\ \E R : /\ Paired(pile, R)
                /\ \A x, y : <<x, y>> \in R => ~before(log[y].seq, log[x].seq)
  BY <1>2, <1>3, InTurnPairs
<1>5. PICK R : /\ Paired(pile, R)
               /\ \A x, y : <<x, y>> \in R => ~before(log[y].seq, log[x].seq)
  BY <1>4
<1>6. Strings(t, pile, R)
  BY <1>4, <1>5, FlattenPairs
<1>7. \A x, y \in 1..Len(t) : x < y => ~before(log[t[y]].seq, log[t[x]].seq)
  BY <1>5, <1>6 DEF Strings
<1>8. ASSUME NEW x \in 1..Len(t), NEW e \in 1..Len(list), NEW y,
             \E j \in 1..Len(new[list[e].q].items) :
               \E l \in 1..Len(new[list[e].q].items[j].pkts) : new[list[e].q].items[j].pkts[l] = y,
             log[t[x]].flow = log[y].flow
      PROVE  ~before(log[y].seq, log[t[x]].seq)
  <2>0. PICK items, g, V : items = new[list[e].q].items /\ g = list[e].flow /\ V = win[g]
    OBVIOUS
  <2>1. PICK j \in 1..Len(items) : \E l \in 1..Len(items[j].pkts) : items[j].pkts[l] = y
    BY <1>8, <2>0
  <2>2. PICK l \in 1..Len(items[j].pkts) : items[j].pkts[l] = y
    BY <2>1
  <2>3. PICK i \in 1..Len(pile) : \E k \in 1..Len(pile[i]) : t[x] = pile[i][k]
    BY <1>6 DEF Strings
  <2>4. PICK k \in 1..Len(pile[i]) : t[x] = pile[i][k]
    BY <2>3
  <2>5. i \in 1..Len(ahead) /\ k \in 1..Len(ahead[i].pkts) /\ t[x] = ahead[i].pkts[k]
    BY <1>4, <2>4
  <2>6. g \in Flows /\ V # {}
    <3>1. list[e] \in EntryType
      BY ElementOfSeq
    <3>2. g \in Flows
      BY <2>0, <3>1 DEF EntryType
    <3> QED
      BY <2>0, <3>2, RoomParts
  <2>7. items \in Seq(BulkSkbs(log, g, V))
    BY <2>0 DEF AllBulk, BulkQueue
  <2>8. ahead[i] \in BulkSkbs(log, f, W) /\ items[j] \in BulkSkbs(log, g, V)
    BY <1>3, <2>5, <2>7, ElementOfSeq
  <2>9. PICK s, a, r, b, m : s = ahead[i] /\ a = t[x] /\ r = items[j] /\ b = y /\ m = l
    OBVIOUS
  <2>10. s \in BulkSkbs(log, f, W) /\ k \in 1..Len(s.pkts) /\ a = s.pkts[k]
    BY <2>5, <2>8, <2>9
  <2>11. r \in BulkSkbs(log, g, V) /\ m \in 1..Len(r.pkts) /\ b = r.pkts[m]
    BY <2>2, <2>8, <2>9
  <2>12. log[a].flow = f
    <3>1. OfFlow(log, f, s)
      BY <2>10, BulkFlow
    <3> QED
      BY <2>10, <3>1 DEF OfFlow
  <2>13. log[b].flow = g
    <3>1. OfFlow(log, g, r)
      BY <2>11, BulkFlow
    <3> QED
      BY <2>11, <3>1 DEF OfFlow
  <2>14. g = f /\ V = W
    BY <1>8, <2>0, <2>9, <2>12, <2>13
  <2>15. InFront(ahead, items) /\ items \in Seq(BulkSkbs(log, f, W))
    BY <2>0, <2>7, <2>14 DEF InTurn
  <2>16. ~before(log[items[j].pkts[l]].seq, log[ahead[i].pkts[k]].seq)
    BY <1>2, <1>3, <2>5, <2>15, InTurnFront
  <2> QED
    BY <2>2, <2>5, <2>16
<1> QED
  BY <1>4, <1>7, <1>8 DEF GoesFirst

LEMMA PassedInTurn ==
  ASSUME NEW win, Rooms(win), rx' \in Seq(Packets), gro_list' \in Seq(EntryType),
         AllBulk(rx', gro_list', ofo', win),
         NEW f \in Flows, NEW ahead, InTurn(rx', gro_list', ofo', f, win[f], ahead),
         out \in Seq(Seq(Nat)), out' = out \o PktsOf(ahead)
  PROVE  InOrder
<1>1. PICK pile, t : pile = PktsOf(ahead) /\ t = FlattenSeq(pile)
  OBVIOUS
<1>2. /\ pile \in Seq(Seq(Nat))
      /\ \A x, y \in 1..Len(t) : x < y => ~before(rx'[t[y]].seq, rx'[t[x]].seq)
      /\ \A x \in 1..Len(t), e \in 1..Len(gro_list') : \A y :
           /\ \E j \in 1..Len(ofo'[gro_list'[e].q].items) :
                \E l \in 1..Len(ofo'[gro_list'[e].q].items[j].pkts) :
                  ofo'[gro_list'[e].q].items[j].pkts[l] = y
           /\ rx'[t[x]].flow = rx'[y].flow
           => ~before(rx'[y].seq, rx'[t[x]].seq)
  <2>1. PICK log, list, new, W : log = rx' /\ list = gro_list' /\ new = ofo' /\ W = win[f]
    OBVIOUS
  <2>2. /\ log \in Seq(Packets) /\ list \in Seq(EntryType) /\ AllBulk(log, list, new, win)
        /\ InTurn(log, list, new, f, W, ahead)
    BY <2>1
  <2>3. pile \in Seq(Seq(Nat)) /\ GoesFirst(log, list, new, t)
    BY <1>1, <2>1, <2>2, TurnOrder
  <2> QED
    BY <2>1, <2>3 DEF GoesFirst
<1>3. NewlyOut = t
  <2>1. PICK c : c = out'
    OBVIOUS
  <2>2. SubSeq(c, Len(out) + 1, Len(c)) = pile
    BY <1>1, <1>2, <2>1, TailOf
  <2> QED
    BY <1>1, <2>1, <2>2 DEF NewlyOut
<1>4. ASSUME NEW x \in 1..Len(t), NEW y \in StillHeld
      PROVE  ~Overtakes(t[x], y)
  <2>1. PICK e \in 1..Len(gro_list') : \E j \in 1..Len(HeldItems'[e]) :
          \E k \in 1..Len(HeldItems'[e][j].pkts) : HeldItems'[e][j].pkts[k] = y
    BY DEF StillHeld
  <2>2. HeldItems'[e] = ofo'[gro_list'[e].q].items
    BY <2>1 DEF HeldItems
  <2>3. rx'[t[x]].flow = rx'[y].flow => ~before(rx'[y].seq, rx'[t[x]].seq)
    BY <1>2, <2>1, <2>2
  <2> QED
    BY <2>3 DEF Overtakes
<1> QED
  BY <1>2, <1>3, <1>4 DEF InOrder, Overtakes

(* A queue cut in two.                                                     *)
SplitApart(G, items, k, a, b) ==
  /\ a \in Seq(G) /\ b \in Seq(G) /\ Apart(a) /\ Apart(b) /\ InFront(a, b)
  /\ Len(a) = k /\ Len(b) = Len(items) - k
  /\ k < Len(items) => b[1] = items[k + 1]

LEMMA CutBulk ==
  ASSUME NEW G, NEW items \in Seq(G), Apart(items), NEW k \in 0..Len(items),
         NEW a, a = SubSeq(items, 1, k), NEW b, b = SubSeq(items, k + 1, Len(items))
  PROVE  SplitApart(G, items, k, a, b)
<1>1. Len(items) \in Nat
  BY LenProperties
<1>2. /\ a \in Seq(G) /\ Len(a) = k
      /\ \A j \in 1..Len(a) : a[j] = items[j] /\ j \in 1..Len(items) /\ j <= k
  <2>1. 1 \in 1..(Len(items) + 1) /\ k \in (1 - 1)..Len(items)
    BY <1>1
  <2>2. /\ a \in Seq(G) /\ Len(a) = k - 1 + 1
        /\ \A j \in 1..(k - 1 + 1) : a[j] = items[1 + j - 1]
    BY <2>1, PartProperties
  <2>3. k - 1 + 1 = k /\ \A j \in 1..k : 1 + j - 1 = j /\ j \in 1..Len(items) /\ j <= k
    BY <1>1
  <2> QED
    BY <2>2, <2>3
<1>3. /\ b \in Seq(G) /\ Len(b) = Len(items) - k
      /\ \A j \in 1..Len(b) : b[j] = items[k + j] /\ k + j \in 1..Len(items)
  <2>1. k + 1 \in 1..(Len(items) + 1) /\ Len(items) \in ((k + 1) - 1)..Len(items)
    BY <1>1
  <2>2. /\ b \in Seq(G) /\ Len(b) = Len(items) - (k + 1) + 1
        /\ \A j \in 1..(Len(items) - (k + 1) + 1) : b[j] = items[(k + 1) + j - 1]
    BY <2>1, PartProperties
  <2>3. /\ Len(items) - (k + 1) + 1 = Len(items) - k
        /\ \A j \in 1..(Len(items) - k) : (k + 1) + j - 1 = k + j /\ k + j \in 1..Len(items)
    BY <1>1
  <2> QED
    BY <2>2, <2>3
<1>4. \A i, j \in 1..Len(items) : i < j => before(SeqEnd(items[i]), items[j].seq)
  BY DEF Apart
<1>5. Apart(a)
  BY <1>2, <1>4 DEF Apart
<1>6. ASSUME NEW i \in 1..Len(b), NEW j \in 1..Len(b), i < j
      PROVE  before(SeqEnd(b[i]), b[j].seq)
  <2>1. k + i < k + j
    BY <1>1, <1>3, <1>6
  <2> QED
    BY <1>3, <1>4, <2>1
<1>7. ASSUME NEW i \in 1..Len(a), NEW j \in 1..Len(b)
      PROVE  UpTo(SeqEnd(a[i]), b[j].seq)
  <2>1. i < k + j
    BY <1>1, <1>2, <1>3
  <2>2. before(SeqEnd(items[i]), items[k + j].seq)
    BY <1>2, <1>3, <1>4, <2>1
  <2> QED
    BY <1>2, <1>3, <2>2 DEF UpTo
<1>8. k < Len(items) => b[1] = items[k + 1]
  BY <1>1, <1>3
<1> QED
  BY <1>2, <1>3, <1>5, <1>6, <1>7, <1>8 DEF SplitApart, Apart, InFront

(* dev_gro_complete stops at a hole.                                       *)
LEMMA StopsAtHole ==
  ASSUME NEW queue \in QueueType, NEW old \in BOOLEAN, NEW k, k = CompleteCount(queue, old),
         k # 0, k # Len(queue.items)
  PROVE  before(SeqNextAfter(queue)[k], queue.items[k + 1].seq)
<1> DEFINE n    == Len(queue.items)
           gaps == {j \in 1..n : before(SeqNextAfter(queue)[j - 1], queue.items[j].seq)}
<1>1. n \in Nat
  <2>1. queue.items \in Seq(SkbType)
    BY DEF QueueType
  <2> QED
    BY <2>1, LenProperties
<1>2. InSeqRun(queue) = IF gaps = {} THEN n ELSE Min(gaps) - 1
  BY DEF InSeqRun
<1>3. gaps \subseteq 1..n /\ gaps \subseteq Nat
  BY <1>1
<1>4. k \in {n, InSeqRun(queue), 0}
  BY Zenon DEF CompleteCount, n
<1>5. gaps # {} /\ k = Min(gaps) - 1
  BY <1>2, <1>4
<1>6. Min(gaps) \in gaps
  <2> HIDE DEF gaps
  <2> QED
    BY <1>3, <1>5, MinNat
<1>7. PICK m : m = Min(gaps)
  OBVIOUS
<1>8. m \in Nat /\ m - 1 = k /\ k + 1 = m
  <2>1. m \in gaps /\ k = m - 1
    BY <1>5, <1>6, <1>7
  <2>2. m \in Nat
    BY <1>1, <2>1
  <2> QED
    BY <2>1, <2>2
<1>9. before(SeqNextAfter(queue)[m - 1], queue.items[m].seq)
  BY <1>6, <1>7
<1> QED
  BY <1>8, <1>9

LEMMA CompleteFields ==
  ASSUME NEW queue \in QueueType, NEW k \in 0..Len(queue.items)
  PROVE  /\ k = 0 => Complete(queue, k) = queue
         /\ k # 0 => Complete(queue, k).seq_next = SeqNextAfter(queue)[k]
<1> DEFINE rest == SubSeq(queue.items, k + 1, Len(queue.items))
           s    == SeqNextAfter(queue)[k]
           num  == queue.skb_num - k
           z    == 0
           t    == [queue EXCEPT !.items = rest, !.seq_next = s, !.age = z,
                                 !.flushed = TRUE, !.skb_num = num]
<1>1. Complete(queue, k) = IF k = 0 THEN queue ELSE t
  BY DEF Complete
<1> HIDE DEF rest, s, num, z
<1>2. t.seq_next = s
  BY DEF QueueType
<1> HIDE DEF t
<1> QED
  BY <1>1, <1>2 DEF s

(* What dev_gro_complete does to a queue of bulk data.                     *)
LEMMA CompleteBulk ==
  ASSUME NEW log, NEW f, NEW W, Linear(W), WeakOrder(W), W # {},
         Space(BulkSkbs(log, f, W), W),
         NEW queue \in QueueType, BulkQueue(log, W, f, queue), queue.seq_next \in W,
         NEW k \in 0..Len(queue.items), NEW rest, rest = Complete(queue, k),
         NEW front, front = SubSeq(queue.items, 1, k),
         k # 0 /\ k # Len(queue.items) => before(SeqNextAfter(queue)[k], queue.items[k + 1].seq)
  PROVE  /\ front \in Seq(BulkSkbs(log, f, W)) /\ Apart(front)
         /\ InFront(front, rest.items)
         /\ rest.items # <<>> => BulkQueue(log, W, f, rest)
<1> DEFINE G == BulkSkbs(log, f, W)
<1>1. PICK items : items = queue.items
  OBVIOUS
<1>2. items \in Seq(G) /\ Apart(items) /\ ~before(items[1].seq, queue.seq_next)
  BY <1>1 DEF BulkQueue
<1>3. \A s \in G : s.seq \in W /\ SeqEnd(s) \in W
  BY DEF Space, InOrderedSpace
<1>4. rest.items = SubSeq(items, k + 1, Len(items))
  BY <1>1, CompleteType
<1>5. Len(items) \in Nat /\ k \in 0..Len(items)
  BY <1>1, <1>2, LenProperties
<1>6. PICK b : b = rest.items
  OBVIOUS
<1>7. /\ front \in Seq(G) /\ b \in Seq(G) /\ Apart(front) /\ Apart(b) /\ InFront(front, b)
      /\ Len(b) = Len(items) - k
      /\ k < Len(items) => b[1] = items[k + 1]
  <2> HIDE DEF G
  <2>1. PICK a, c : a = front /\ c = b
    OBVIOUS
  <2>2. a = SubSeq(items, 1, k) /\ c = SubSeq(items, k + 1, Len(items))
    BY <1>1, <1>4, <1>6, <2>1
  <2>3. SplitApart(G, items, k, a, c)
    BY <1>2, <1>5, <2>2, CutBulk
  <2> QED
    BY <2>1, <2>3 DEF SplitApart
<1>8. ASSUME b # <<>> PROVE BulkQueue(log, W, f, rest)
  <2>1. k < Len(items)
    <3>1. Len(b) # 0
      BY <1>7, <1>8, EmptySeq
    <3> QED
      BY <1>5, <1>7, <3>1
  <2>2. ~before(b[1].seq, rest.seq_next)
    <3>1. CASE k = 0
      <4>1. rest = queue /\ b = items
        BY <1>1, <1>6, <3>1, CompleteFields
      <4> QED
        BY <1>2, <4>1
    <3>2. CASE k # 0
      <4>1. rest.seq_next = SeqNextAfter(queue)[k]
        BY <3>2, CompleteFields
      <4>2. before(rest.seq_next, b[1].seq)
        BY <1>1, <1>7, <2>1, <3>2, <4>1
      <4>3. k + 1 \in 1..Len(items)
        BY <1>5, <2>1
      <4>4. b[1].seq \in W
        <5>1. b[1] \in G
          <6> HIDE DEF G
          <6> QED
            BY <1>2, <1>7, <2>1, <4>3, ElementOfSeq
        <5> QED
          BY <1>3, <5>1
      <4>5. rest.seq_next \in W
        <5>1. \A i \in 1..Len(queue.items) : SeqEnd(queue.items[i]) \in W
          <6>1. \A i \in 1..Len(items) : items[i] \in G
            BY <1>2, ElementOfSeq
          <6> QED
            BY <1>1, <1>3, <6>1
        <5>2. W \subseteq SeqNumbers
          BY DEF Linear
        <5> QED
          BY <5>1, <5>2, CompleteNext
      <4> QED
        BY <4>2, <4>4, <4>5 DEF WeakOrder
    <3> QED
      BY <3>1, <3>2
  <2> QED
    BY <1>6, <1>7, <2>2 DEF BulkQueue
<1> QED
  BY <1>6, <1>7, <1>8

(* What a step must do with bulk data.                                     *)
GoesOn(log, list, queues, win, was, now) ==
  /\ AllBulk(log, list, queues, win)
  /\ \/ now = was
     \/ \E f \in Flows : \E ahead :
          InTurn(log, list, queues, f, win[f], ahead) /\ now = was \o PktsOf(ahead)

(* The invariant behind BulkNotOvertaken: as long as only bulk data has    *)
(* come in, there is a hole between any two skbs of a queue, and the first *)
(* does not start before seq_next.                                         *)
BInv(win) ==
  /\ SInv(win) /\ CInv
  /\ OneEntry(gro_list)
  /\ IsBulk(rx) => AllBulk(rx, gro_list, ofo, win)

LEMMA CarriedBulk ==
  ASSUME NEW win, NEW log \in Seq(Packets), NEW more, More(log, more),
         NEW old, NEW queues, AllBulk(log, old, queues, win), NEW list, NEW new,
         \A j \in 1..Len(list) :
           \/ \E m \in 1..Len(old) :
                /\ list[j].flow = old[m].flow
                /\ new[list[j].q].items = queues[old[m].q].items
                /\ new[list[j].q].seq_next = queues[old[m].q].seq_next
           \/ BulkQueue(more, win[list[j].flow], list[j].flow, new[list[j].q])
  PROVE  AllBulk(more, list, new, win)
<1> SUFFICES ASSUME NEW j \in 1..Len(list)
             PROVE  BulkQueue(more, win[list[j].flow], list[j].flow, new[list[j].q])
  BY DEF AllBulk
<1>1. ASSUME NEW m \in 1..Len(old),
             list[j].flow = old[m].flow,
             new[list[j].q].items = queues[old[m].q].items,
             new[list[j].q].seq_next = queues[old[m].q].seq_next
      PROVE  BulkQueue(more, win[list[j].flow], list[j].flow, new[list[j].q])
  <2>1. PICK f, W, q, t : /\ f = old[m].flow /\ W = win[old[m].flow] /\ q = queues[old[m].q]
                          /\ t = new[list[j].q]
    OBVIOUS
  <2>2. BulkQueue(log, W, f, q)
    BY <2>1 DEF AllBulk
  <2>3. BulkSkbs(log, f, W) \subseteq BulkSkbs(more, f, W)
    BY BulkMore
  <2>4. t.items = q.items /\ t.seq_next = q.seq_next
    BY <1>1, <2>1
  <2>5. q.items \in Seq(BulkSkbs(log, f, W)) /\ Apart(q.items) /\ ~before(q.items[1].seq, q.seq_next)
    BY <2>2 DEF BulkQueue
  <2>6. t.items \in Seq(BulkSkbs(more, f, W))
    BY <2>3, <2>4, <2>5, SubSeqOf
  <2>7. BulkQueue(more, W, f, t)
    BY <2>4, <2>5, <2>6 DEF BulkQueue
  <2> QED
    BY <1>1, <2>1, <2>7
<1> QED
  BY <1>1

LEMMA HeldBulk ==
  ASSUME NEW win, Rooms(win), BInv(win), IsBulk(rx), NEW e \in 1..Len(gro_list),
         NEW f, f = gro_list[e].flow, NEW W, W = win[f], NEW queue, queue = ofo[gro_list[e].q]
  PROVE  /\ f \in Flows /\ gro_list[e].q \in Queues /\ queue \in QueueType
         /\ Linear(W) /\ WeakOrder(W) /\ W # {} /\ Fits(W, f)
         /\ Space(BulkSkbs(rx, f, W), W)
         /\ BulkQueue(rx, W, f, queue) /\ queue.seq_next \in W
         /\ Orderly(rx, W, f, queue) /\ Rising(queue.items)
         /\ queue.items # <<>> /\ gro_list[e].head = queue.items[1].id
<1>1. TypeOK /\ HeadIsQueueHead /\ rx \in Seq(Packets)
  BY DEF BInv, SInv, OInv, IInv, TypeOK
<1>2. f \in Flows /\ gro_list[e].q \in Queues /\ queue \in QueueType
  BY <1>1, Basics
<1>3. Linear(W) /\ WeakOrder(W) /\ W # {} /\ Fits(W, f)
  BY <1>2, RoomParts
<1>4. Space(BulkSkbs(rx, f, W), W)
  BY <1>1, <1>3, BulkSpace
<1>5. BulkQueue(rx, W, f, queue)
  BY DEF BInv, AllBulk
<1>6. Orderly(rx, W, f, queue)
  BY DEF BInv, SInv, OInv, AllOrderly
<1>7. queue.seq_next \in W
  <2>1. queue.hash = TcpHash[f] /\ Placed(queue, win)
    BY <1>2 DEF BInv, SInv, Remembered
  <2> QED
    BY <1>2, <2>1, RoomParts
<1>8. queue.items # <<>> /\ gro_list[e].head = queue.items[1].id
  BY <1>1 DEF HeadIsQueueHead
<1> QED
  BY <1>2, <1>3, <1>4, <1>5, <1>6, <1>7, <1>8 DEF Orderly

-----------------------------------------------------------------------------
(* A flow has one entry in gro_list.                                       *)
LEMMA OneEntryFrom ==
  ASSUME NEW s, OneEntry(s), NEW t, QInj(t), CameFrom(t, s)
  PROVE  OneEntry(t)
<1> SUFFICES ASSUME NEW i \in 1..Len(t), NEW j \in 1..Len(t), t[i].flow = t[j].flow
             PROVE  i = j
  BY DEF OneEntry
<1>1. PICK m \in 1..Len(s) : t[i].flow = s[m].flow /\ t[i].q = s[m].q
  BY DEF CameFrom
<1>2. PICK n \in 1..Len(s) : t[j].flow = s[n].flow /\ t[j].q = s[n].q
  BY DEF CameFrom
<1>3. m = n
  BY <1>1, <1>2 DEF OneEntry
<1> QED
  BY <1>1, <1>2, <1>3 DEF QInj

LEMMA OneEntryBehind ==
  ASSUME NEW s, OneEntry(s), NEW x, \A m \in 1..Len(s) : s[m].flow # x.flow,
         NEW r, \A j \in 1..Len(r) : \E m \in 1..Len(s) : r[j] = s[m],
         NEW t, QInj(t), Behind(t, x, r)
  PROVE  OneEntry(t)
<1> SUFFICES ASSUME NEW i \in 1..Len(t), NEW j \in 1..Len(t), t[i].flow = t[j].flow
             PROVE  i = j
  BY DEF OneEntry
<1>1. \A k \in 1..Len(t) : IF k = 1 THEN t[k] = x ELSE \E m \in 1..Len(s) : t[k] = s[m]
  BY DEF Behind
<1>2. CASE i = 1 \/ j = 1
  BY <1>1, <1>2
<1>3. CASE i # 1 /\ j # 1
  <2>1. PICK m \in 1..Len(s) : t[i] = s[m]
    BY <1>1, <1>3
  <2>2. PICK n \in 1..Len(s) : t[j] = s[n]
    BY <1>1, <1>3
  <2>3. m = n
    BY <2>1, <2>2 DEF OneEntry
  <2> QED
    BY <2>1, <2>2, <2>3 DEF QInj
<1> QED
  BY <1>2, <1>3

LEMMA NoEntry ==
  ASSUME TypeOK, NEW f, EntryOf(f) = 0
  PROVE  \A m \in 1..Len(gro_list) : gro_list[m].flow # f
<1> DEFINE T == {e \in 1..Len(gro_list) : gro_list[e].flow = f}
<1>1. EntryOf(f) = IF T = {} THEN 0 ELSE Min(T)
  BY DEF EntryOf
<1>2. T \subseteq Nat /\ 0 \notin T
  BY Basics
<1>3. T = {}
  <2> HIDE DEF T
  <2> QED
    BY <1>1, <1>2, MinNat
<1> QED
  BY <1>3

(* The entry that gro_list gets, and the others.                           *)
LEMMA HoldList ==
  ASSUME TypeOK, IInv, NEW p \in Packets, ReceiveHold(p), NEW list, list = gro_list'
  PROVE  \E x, rest : /\ x.flow = p.flow /\ Behind(list, x, rest)
                      /\ \A j \in 1..Len(rest) : \E m \in 1..Len(gro_list) : rest[j] = gro_list[m]
<1> DEFINE hash  == TcpHash[p.flow]
           i     == IdleIndex(hash)
           q     == idle[i]
           skb   == SkbOf(p, Len(rx) + 1)
           entry == [flow |-> p.flow, q |-> q, head |-> skb.id]
<1>1. Receiving(p) /\ ~Deleted
  BY DEF ReceiveHold, Receiving
<1>2. PoolInv
  BY <1>1, Zenon DEF IInv
<1>3. \/ list = <<entry>> \o gro_list
      \/ gro_count >= MAX_GRO_SKBS /\ list = <<entry>> \o Front(gro_list)
  BY DEF ReceiveHold
<1>4. /\ gro_list \in Seq(EntryType) /\ QInj(gro_list) /\ Len(gro_list) \in Nat /\ idle \in Seq(Queues)
  BY <1>2, Basics DEF PoolInv, QInj
<1>5. i \in 1..Len(idle) /\ skb \in SkbType /\ p.flow \in Flows
  <2> HIDE DEF hash, skb
  <2>1. skb \in SkbType
    BY <1>1, ReceivingType DEF skb
  <2> QED
    BY <1>1, <1>2, <2>1, IdleNotEmpty, IdleIndexRange, HashType
<1> HIDE DEF i
<1>6. q \in Queues /\ \A j \in 1..Len(gro_list) : gro_list[j].q # q
  BY <1>2, <1>4, <1>5, ElementOfSeq DEF PoolInv
<1>7. skb.id \in Nat
  <2> HIDE DEF skb
  <2> QED
    BY <1>5 DEF SkbType
<1> HIDE DEF q, skb
<1>8. entry \in EntryType /\ entry.q = q /\ entry.flow = p.flow
  BY <1>5, <1>6, <1>7 DEF EntryType
<1> HIDE DEF entry
<1>9. CASE list = <<entry>> \o gro_list
  <2>1. Behind(list, entry, gro_list)
    BY <1>4, <1>6, <1>8, <1>9, ConsEntry
  <2> QED
    BY <1>8, <2>1
<1>10. CASE gro_count >= MAX_GRO_SKBS /\ list = <<entry>> \o Front(gro_list)
  <2>1. Len(gro_list) > 0
    BY <1>2, <1>4, <1>10, MaxGroSkbsAssumption DEF PoolInv
  <2>2. PICK k : k = Front(gro_list)
    OBVIOUS
  <2>3. k \in Seq(EntryType) /\ QInj(k) /\ Among(k, gro_list, Len(gro_list))
    BY <1>4, <2>1, <2>2, FrontEntries
  <2>4. \A j \in 1..Len(k) : \E m \in 1..Len(gro_list) : k[j] = gro_list[m]
    BY <2>3 DEF Among
  <2>5. \A j \in 1..Len(k) : k[j].q # entry.q
    BY <1>6, <1>8, <2>4
  <2>6. Behind(list, entry, k)
    BY <1>8, <1>10, <2>2, <2>3, <2>5, ConsEntry
  <2> QED
    BY <1>8, <2>4, <2>6
<1> QED
  BY <1>3, <1>9, <1>10

LEMMA NextKeepsOneEntry ==
  ASSUME IInv, IInv', OneEntry(gro_list), [Next]_vars
  PROVE  OneEntry(gro_list')
<1>0. PICK list : list = gro_list'
  OBVIOUS
<1>1. CASE gro_list' = gro_list
  BY <1>1
<1>2. CASE list = <<>>
  BY <1>0, <1>2 DEF OneEntry
<1>3. TypeOK /\ gro_list \in Seq(EntryType) /\ TypeOK'
  BY Basics DEF IInv
<1>4. ASSUME list # <<>> PROVE QInj(list)
  BY <1>0, <1>4 DEF IInv, FreedInv, PoolInv, QInj
<1>5. ASSUME NEW p \in Packets, ReceiveFound(p), list # <<>> PROVE OneEntry(list)
  <2>1. PICK e, x : list = [gro_list EXCEPT ![e].head = x]
    BY <1>0, <1>5, Zenon DEF ReceiveFound
  <2>2. CameFrom(list, gro_list)
    BY <1>3, <2>1, SameEntries
  <2> QED
    BY <1>4, <1>5, <2>2, OneEntryFrom, Zenon
<1>6. ASSUME NEW p \in Packets, ReceiveHold(p), list # <<>> PROVE OneEntry(list)
  <2>1. PICK x, rest : /\ x.flow = p.flow /\ Behind(list, x, rest)
                       /\ \A j \in 1..Len(rest) : \E m \in 1..Len(gro_list) : rest[j] = gro_list[m]
    BY <1>0, <1>3, <1>6, HoldList
  <2>2. EntryOf(p.flow) = 0
    BY <1>6 DEF ReceiveHold
  <2>3. \A m \in 1..Len(gro_list) : gro_list[m].flow # x.flow
    BY <1>3, <2>1, <2>2, NoEntry
  <2> QED
    BY <1>4, <1>6, <2>1, <2>3, OneEntryBehind
<1>7. ASSUME FlushEntry, list # <<>> PROVE OneEntry(list)
  <2>1. cursor \in 1..Len(gro_list) /\ ~Deleted
    <3>1. cursor > 0 /\ cursor \in 0..Len(gro_list) /\ Len(gro_list) \in Nat
      BY <1>3, <1>7, Basics, Zenon DEF FlushEntry, TypeOK
    <3>2. cursor \in 1..Len(gro_list)
      BY <3>1
    <3> QED
      BY <3>2 DEF IInv, FreedInv
  <2>2. QInj(gro_list)
    BY <2>1, Zenon DEF IInv, PoolInv, QInj
  <2>3. \/ list = RemoveAt(gro_list, cursor)
        \/ \E x : list = [gro_list EXCEPT ![cursor].head = x]
    BY <1>0, <1>7, Zenon DEF FlushEntry
  <2>4. CameFrom(list, gro_list)
    <3>1. CASE list = RemoveAt(gro_list, cursor)
      <4>1. Among(list, gro_list, cursor)
        BY <1>3, <2>1, <2>2, <3>1, RemoveEntry
      <4> QED
        BY <4>1 DEF Among, CameFrom
    <3>2. CASE \E x : list = [gro_list EXCEPT ![cursor].head = x]
      BY <1>3, <3>2, SameEntries
    <3> QED
      BY <2>3, <3>1, <3>2
  <2> QED
    BY <1>4, <1>7, <2>4, OneEntryFrom
<1>8. ASSUME NEW p \in Packets, napi_gro_receive(p) PROVE OneEntry(gro_list')
  <2>1. CASE ReceiveBypass(p)
    BY <1>1, <2>1 DEF ReceiveBypass, engine_vars
  <2>2. CASE ReceiveFound(p)
    BY <1>0, <1>2, <1>5, <2>2
  <2>3. CASE ReceiveControl(p)
    BY <1>1, <2>3 DEF ReceiveControl
  <2>4. CASE ReceiveStale(p)
    BY <1>1, <2>4 DEF ReceiveStale
  <2>5. CASE ReceiveHold(p)
    BY <1>0, <1>2, <1>6, <2>5
  <2> QED
    BY <1>8, <2>1, <2>2, <2>3, <2>4, <2>5 DEF napi_gro_receive
<1>9. ASSUME NEW old \in BOOLEAN, FlushBegin(old) PROVE OneEntry(gro_list')
  BY <1>1, <1>9 DEF FlushBegin, engine_vars
<1>10. CASE FlushEntry
  BY <1>0, <1>2, <1>7, <1>10
<1>11. CASE napi_clean_tcp_ofo_queue
  BY <1>1, <1>11 DEF napi_clean_tcp_ofo_queue
<1>12. CASE netif_napi_del
  BY <1>0, <1>2, <1>12 DEF netif_napi_del
<1>13. CASE Tick
  BY <1>1, <1>13 DEF Tick
<1>14. CASE UNCHANGED vars
  BY <1>1, <1>14 DEF vars
<1> QED
  BY <1>8, <1>9, <1>10, <1>11, <1>12, <1>13, <1>14 DEF Next

(* What is known of a segment that has just been received.                 *)
Arrives(win, p, skb, f, W, more) ==
  /\ more = rx' /\ IsBulk(more) /\ skb = SkbOf(p, Len(rx) + 1) /\ f = p.flow /\ W = win[f]
  /\ Receiving(p)

LEMMA ArrivesParts ==
  ASSUME NEW win, Rooms(win), BInv(win), SegmentsApart, NEW p \in Packets,
         NEW skb, NEW f, NEW W, NEW more, Arrives(win, p, skb, f, W, more)
  PROVE  /\ p.kind = "data" /\ f \in Flows /\ ~Deleted /\ TypeOK /\ IInv /\ PoolInv
         /\ rx \in Seq(Packets) /\ more \in Seq(Packets) /\ More(rx, more)
         /\ Len(rx) \in Nat /\ Len(more) = Len(rx) + 1
         /\ IsBulk(rx) /\ AllBulk(rx, gro_list, ofo, win)
         /\ Linear(W) /\ WeakOrder(W) /\ W # {} /\ Fits(W, f)
         /\ skb \in SkbType /\ skb \in BulkSkbs(more, f, W)
         /\ skb.seq \in W /\ SeqEnd(skb) \in W
         /\ skb.pkts = <<Len(rx) + 1>>
         /\ \A s \in BulkSkbs(rx, f, W) : Clear(skb, s)
         /\ Space(BulkSkbs(more, f, W), W)
         /\ out \in Seq(Seq(Nat))
<1>1. /\ more = rx' /\ IsBulk(more) /\ skb = SkbOf(p, Len(rx) + 1) /\ f = p.flow /\ W = win[f]
      /\ Receiving(p)
  BY DEF Arrives
<1>2. /\ TypeOK /\ PoolInv /\ IInv /\ ~Deleted
      /\ rx \in Seq(Packets) /\ more = Append(rx, p) /\ More(rx, more) /\ out \in Seq(Seq(Nat))
  BY <1>1, ReceivingGrows DEF BInv, SInv
<1>3. f \in Flows
  BY <1>1, HashType
<1>4. Linear(W) /\ WeakOrder(W) /\ W # {} /\ Fits(W, f)
  BY <1>1, <1>3, RoomParts
<1>5. PICK log : log = rx
  OBVIOUS
<1>6. /\ log \in Seq(Packets) /\ more = Append(log, p) /\ IsBulk(more) /\ f = p.flow
      /\ skb = SkbOf(p, Len(log) + 1)
  BY <1>1, <1>2, <1>5
<1>7. /\ p.kind = "data" /\ skb \in BulkSkbs(more, f, W)
      /\ \A s \in BulkSkbs(log, f, W) : Clear(skb, s)
  <2>1. W # {} /\ Fits(W, f)
    BY <1>4
  <2>2. FreshSkb(log, more, f, W, p, skb)
    BY ONLY <1>6, <2>1, SegmentsApart, p \in Packets, NewBulk
  <2> QED
    BY <2>2 DEF FreshSkb
<1>8. more \in Seq(Packets) /\ Len(more) = Len(log) + 1 /\ Len(log) \in Nat
  BY <1>6, Grows
<1>9. IsBulk(log)
  BY <1>6, BulkBefore
<1>10. AllBulk(rx, gro_list, ofo, win)
  BY <1>5, <1>9 DEF BInv
<1>11. Space(BulkSkbs(more, f, W), W)
  BY <1>1, <1>4, <1>8, BulkSpace
<1>12. skb \in SkbType /\ skb.pkts = <<Len(rx) + 1>>
  BY <1>1, <1>2, ReceivingType DEF SkbOf
<1>13. skb.seq \in W /\ SeqEnd(skb) \in W
  BY <1>4, <1>7, <1>11 DEF Space, InOrderedSpace
<1> QED
  BY <1>2, <1>3, <1>4, <1>5, <1>7, <1>8, <1>9, <1>10, <1>11, <1>12, <1>13

(* It can be merged with what its flow holds.                              *)
LEMMA ArrivesJoins ==
  ASSUME NEW win, Rooms(win), BInv(win), SegmentsApart, BulkFits, NEW p \in Packets,
         NEW skb, NEW f, NEW W, NEW more, Arrives(win, p, skb, f, W, more),
         NEW e \in 1..Len(gro_list), gro_list[e].flow = f,
         NEW items, items = ofo[gro_list[e].q].items
  PROVE  items \in Seq(BulkSkbs(more, f, W)) /\ BulkCase(items, skb)
<1>1. PICK log, n : log = rx /\ n = Len(rx)
  OBVIOUS
<1>2. /\ log \in Seq(Packets) /\ more \in Seq(Packets) /\ More(log, more)
      /\ n \in Nat /\ Len(more) = n + 1
      /\ skb \in BulkSkbs(more, f, W) /\ skb.pkts = <<n + 1>>
      /\ \A s \in BulkSkbs(log, f, W) : Clear(skb, s)
      /\ ~Deleted
  BY <1>1, ArrivesParts
<1>3. IsBulk(more) /\ W = win[f]
  BY DEF Arrives
<1>4. items \in Seq(BulkSkbs(log, f, W)) /\ Apart(items)
  <2>1. AllBulk(rx, gro_list, ofo, win)
    BY ArrivesParts
  <2> QED
    BY <1>1, <1>3, <2>1 DEF AllBulk, BulkQueue
<1>5. items \in Seq(BulkSkbs(more, f, W))
  <2>1. BulkSkbs(log, f, W) \subseteq BulkSkbs(more, f, W)
    BY <1>2, BulkMore
  <2> QED
    BY <1>4, <2>1, SubSeqOf
<1>6. \A i \in 1..Len(items) : Clear(skb, items[i])
  <2>1. \A i \in 1..Len(items) : items[i] \in BulkSkbs(log, f, W)
    BY <1>4, ElementOfSeq
  <2> QED
    BY <1>2, <2>1
<1>7. Distinct(items) /\ IdsOf(items) \subseteq 1..n
  <2>1. Spread(out, Attached(gro_list), ofo, n)
    BY <1>1, <1>2, CountsOf DEF BInv
  <2>2. gro_list[e].q \in Attached(gro_list)
    BY DEF Attached
  <2> QED
    BY <2>1, <2>2 DEF Spread
<1>8. Len(skb.pkts) = 1
  BY <1>2
<1>9. BulkCase(items, skb)
  BY <1>2, <1>3, <1>4, <1>5, <1>6, <1>7, <1>8, BulkJoins
<1> QED
  BY <1>5, <1>9

(* One skb in turn.                                                        *)
LEMMA OneInTurn ==
  ASSUME NEW log, NEW list, NEW queues, NEW f, NEW W, NEW skb, skb \in BulkSkbs(log, f, W),
         \A e \in 1..Len(list) : list[e].flow = f =>
           \A j \in 1..Len(queues[list[e].q].items) : UpTo(SeqEnd(skb), queues[list[e].q].items[j].seq),
         NEW ahead, ahead = <<skb>>
  PROVE  InTurn(log, list, queues, f, W, ahead)
<1>1. Len(ahead) = 1 /\ ahead[1] = skb /\ ahead \in Seq(BulkSkbs(log, f, W))
  OBVIOUS
<1>2. 1..Len(ahead) = {1}
  BY <1>1
<1>3. Apart(ahead)
  BY <1>2 DEF Apart
<1> QED
  BY <1>1, <1>2, <1>3 DEF InTurn, InFront

LEMMA PassesOne ==
  ASSUME NEW skb \in SkbType
  PROVE  PktsOf(<<skb>>) = <<skb.pkts>>
<1>1. PICK a, b, c : a = <<skb>> /\ b = PktsOf(a) /\ c = <<skb.pkts>>
  OBVIOUS
<1>2. a \in Seq(SkbType) /\ Len(a) = 1 /\ a[1] = skb
  BY <1>1
<1>3. b \in Seq(Seq(Nat)) /\ Len(b) = 1 /\ b[1] = skb.pkts
  <2>1. /\ b \in Seq(Seq(Nat)) /\ Len(b) = Len(a)
        /\ \A i \in 1..Len(a) : b[i] = a[i].pkts
    BY <1>1, <1>2, PktsOfType
  <2> QED
    BY <1>2, <2>1
<1>4. c \in Seq(Seq(Nat)) /\ Len(c) = 1 /\ c[1] = skb.pkts
  <2>1. skb.pkts \in Seq(Nat)
    BY DEF SkbType
  <2> QED
    BY <1>1, <2>1
<1>5. \A i \in 1..Len(b) : b[i] = c[i]
  BY <1>3, <1>4
<1>6. b = c
  BY <1>3, <1>4, <1>5, SeqEqual
<1> QED
  BY <1>1, <1>6

(* The queues of the flows do not change.                                  *)
LEMMA SameBulk ==
  ASSUME NEW win, BInv(win), rx' = rx, IsBulk(rx'), out' = out, gro_list' = gro_list,
         \A j \in 1..Len(gro_list) :
           /\ ofo'[gro_list[j].q].items = ofo[gro_list[j].q].items
           /\ ofo'[gro_list[j].q].seq_next = ofo[gro_list[j].q].seq_next
  PROVE  GoesOn(rx', gro_list', ofo', win, out, out')
<1>1. PICK new : new = ofo'
  OBVIOUS
<1>2. AllBulk(rx, gro_list, ofo, win) /\ rx \in Seq(Packets)
  BY DEF BInv, SInv, OInv, IInv, TypeOK
<1>3. AllBulk(rx, gro_list, new, win)
  BY <1>1, <1>2, CarriedBulk DEF More
<1> QED
  BY <1>1, <1>3 DEF GoesOn

LEMMA CleanBulk ==
  ASSUME NEW win, BInv(win), IsBulk(rx'), napi_clean_tcp_ofo_queue
  PROVE  GoesOn(rx', gro_list', ofo', win, out, out')
<1> DEFINE old(q) == (\E i \in 1..Len(idle) : idle[i] = q) /\ ofo[q].age > CleanTimeout
<1>1. /\ TypeOK /\ PoolInv /\ rx' = rx /\ out' = out /\ gro_list' = gro_list
      /\ ofo' = [q \in Queues |-> IF old(q) THEN ResetQueue(ofo[q]) ELSE ofo[q]]
  BY DEF BInv, SInv, OInv, IInv, napi_clean_tcp_ofo_queue
<1>2. \A j \in 1..Len(gro_list) : ~old(gro_list[j].q) /\ gro_list[j].q \in Queues
  BY <1>1, Basics DEF PoolInv
<1> HIDE DEF old
<1>3. \A j \in 1..Len(gro_list) : ofo'[gro_list[j].q] = ofo[gro_list[j].q]
  BY <1>1, <1>2
<1> QED
  BY <1>1, <1>3, SameBulk

LEMMA TickBulk ==
  ASSUME NEW win, BInv(win), IsBulk(rx'), Tick
  PROVE  GoesOn(rx', gro_list', ofo', win, out, out')
<1> DEFINE older(a) == IF a < AgeMax THEN a + 1 ELSE a
<1>1. /\ TypeOK /\ rx' = rx /\ out' = out /\ gro_list' = gro_list
      /\ ofo' = [q \in Queues |-> [ofo[q] EXCEPT !.age = older(ofo[q].age)]]
  BY DEF BInv, SInv, OInv, IInv, Tick
<1>2. ofo \in [Queues -> QueueType] /\ \A j \in 1..Len(gro_list) : gro_list[j].q \in Queues
  BY <1>1, Basics
<1> HIDE DEF older
<1>3. ASSUME NEW q \in Queues
      PROVE  ofo'[q].items = ofo[q].items /\ ofo'[q].seq_next = ofo[q].seq_next
  <2> DEFINE queue == ofo[q]
             a     == older(queue.age)
  <2>1. queue \in QueueType /\ ofo'[q] = [queue EXCEPT !.age = a]
    BY <1>1, <1>2
  <2> HIDE DEF queue, a
  <2>2. ofo'[q].items = queue.items /\ ofo'[q].seq_next = queue.seq_next
    BY <2>1 DEF QueueType
  <2> QED
    BY <2>2 DEF queue
<1> QED
  BY <1>1, <1>2, <1>3, SameBulk

(* Late bulk data of a flow that holds nothing.                            *)
LEMMA StaleBulk ==
  ASSUME NEW win, Rooms(win), BInv(win), SegmentsApart, NEW p \in Packets,
         ReceiveStale(p), IsBulk(rx')
  PROVE  GoesOn(rx', gro_list', ofo', win, out, out')
<1> DEFINE hash == TcpHash[p.flow]
           i    == IdleIndex(hash)
<1>1. /\ Receiving(p) /\ gro_list' = gro_list /\ EntryOf(p.flow) = 0
      /\ out' = Append(out, SkbOf(p, Len(rx) + 1).pkts)
      /\ \E queue : ofo' = [ofo EXCEPT ![idle[i]] = queue]
  BY DEF ReceiveStale
<1>2. PICK skb, f, W, more, new :
        /\ more = rx' /\ skb = SkbOf(p, Len(rx) + 1) /\ f = p.flow /\ W = win[f] /\ new = ofo'
  OBVIOUS
<1>3. Arrives(win, p, skb, f, W, more)
  BY <1>1, <1>2 DEF Arrives
<1>4. /\ f \in Flows /\ TypeOK /\ IInv /\ PoolInv /\ ~Deleted
      /\ rx \in Seq(Packets) /\ More(rx, more) /\ AllBulk(rx, gro_list, ofo, win)
      /\ skb \in SkbType /\ skb \in BulkSkbs(more, f, W) /\ out \in Seq(Seq(Nat))
  BY <1>3, ArrivesParts
<1>5. i \in 1..Len(idle)
  BY <1>4, IdleNotEmpty, IdleIndexRange
<1> HIDE DEF i
<1>6. PICK queue : new = [ofo EXCEPT ![idle[i]] = queue]
  BY <1>1, <1>2
<1>7. \A j \in 1..Len(gro_list) : new[gro_list[j].q] = ofo[gro_list[j].q]
  <2>1. /\ ofo \in [Queues -> QueueType]
        /\ \A j \in 1..Len(gro_list) : gro_list[j].q \in Queues /\ gro_list[j].q # idle[i]
    BY <1>4, <1>5, Basics DEF PoolInv
  <2> QED
    BY <1>6, <2>1
<1>8. AllBulk(more, gro_list, new, win)
  <2>1. PICK log : log = rx
    OBVIOUS
  <2>2. log \in Seq(Packets) /\ More(log, more) /\ AllBulk(log, gro_list, ofo, win)
    BY <1>4, <2>1
  <2>3. \A j \in 1..Len(gro_list) :
          \/ \E m \in 1..Len(gro_list) :
               /\ gro_list[j].flow = gro_list[m].flow
               /\ new[gro_list[j].q].items = ofo[gro_list[m].q].items
               /\ new[gro_list[j].q].seq_next = ofo[gro_list[m].q].seq_next
          \/ BulkQueue(more, win[gro_list[j].flow], gro_list[j].flow, new[gro_list[j].q])
    BY <1>7
  <2> QED
    BY ONLY <2>2, <2>3, CarriedBulk
<1>9. PICK ahead : ahead = <<skb>>
  OBVIOUS
<1>10. InTurn(more, gro_list, new, f, W, ahead)
  <2>1. \A e \in 1..Len(gro_list) : gro_list[e].flow # f
    BY <1>1, <1>2, <1>4, NoEntry
  <2> QED
    BY <1>4, <1>9, <2>1, OneInTurn
<1>11. out' = out \o PktsOf(ahead)
  <2>1. PICK x : x = skb.pkts
    OBVIOUS
  <2>2. PktsOf(ahead) = <<x>>
    BY <1>4, <1>9, <2>1, PassesOne
  <2>3. out' = Append(out, x)
    BY <1>1, <1>2, <2>1
  <2>4. Append(out, x) = out \o <<x>>
    BY <1>4
  <2> QED
    BY <2>2, <2>3, <2>4
<1> QED
  BY <1>1, <1>2, <1>4, <1>8, <1>10, <1>11 DEF GoesOn

(* napi_gro_flush passes up the front of a flow's queue.                   *)
LEMMA FlushEntryBulk ==
  ASSUME NEW win, Rooms(win), BInv(win), FlushEntry, IsBulk(rx')
  PROVE  GoesOn(rx', gro_list', ofo', win, out, out')
<1> DEFINE q     == gro_list[cursor].q
           old   == ofo[q]
           k     == CompleteCount(old, flush_old)
           queue == Complete(old, k)
           front == SubSeq(old.items, 1, k)
<1>1. /\ TypeOK /\ IInv /\ IsBulk(rx) /\ cursor \in 1..Len(gro_list)
      /\ flush_old \in BOOLEAN /\ rx' = rx /\ rx \in Seq(Packets)
      /\ AllBulk(rx, gro_list, ofo, win) /\ OneEntry(gro_list)
  <2>1. TypeOK /\ cursor > 0 /\ IInv /\ rx' = rx /\ OneEntry(gro_list) /\ IsBulk(rx)
    BY Zenon DEF BInv, SInv, OInv, IInv, FlushEntry
  <2>2. cursor \in 0..Len(gro_list) /\ flush_old \in BOOLEAN /\ Len(gro_list) \in Nat
        /\ rx \in Seq(Packets)
    BY <2>1, Basics DEF TypeOK
  <2>3. AllBulk(rx, gro_list, ofo, win)
    BY <2>1 DEF BInv
  <2>4. cursor \in 1..Len(gro_list)
    BY ONLY <2>1, <2>2
  <2> QED
    BY <2>1, <2>2, <2>3, <2>4, Zenon
<1>2. PoolInv
  <2>1. ~Deleted
    <3>1. cursor \in 1..Len(gro_list) /\ (Deleted => gro_list = <<>>)
      BY <1>1, Zenon DEF IInv, FreedInv
    <3> QED
      BY ONLY <3>1
  <2> QED
    BY <1>1, <2>1, Zenon DEF IInv
<1>3. /\ ofo' = [ofo EXCEPT ![q] = queue] /\ out' = out \o PktsOf(front)
      /\ \/ queue.items = <<>> /\ gro_list' = RemoveAt(gro_list, cursor)
         \/ queue.items # <<>> /\ gro_list' = [gro_list EXCEPT ![cursor].head = queue.items[1].id]
  BY Zenon DEF FlushEntry
<1>4. /\ gro_list \in Seq(EntryType) /\ QInj(gro_list) /\ ofo \in [Queues -> QueueType]
  BY <1>1, <1>2, Basics DEF PoolInv, QInj
<1>5. PICK f, W, was, n, next, a, list, new :
        /\ f = gro_list[cursor].flow /\ W = win[f] /\ was = old /\ n = k /\ next = queue
        /\ a = front /\ list = gro_list' /\ new = ofo'
  OBVIOUS
<1>6. /\ was = ofo[q] /\ n = CompleteCount(was, flush_old) /\ next = Complete(was, n)
      /\ a = SubSeq(was.items, 1, n)
  BY <1>5
<1>7. /\ new = [ofo EXCEPT ![q] = next] /\ out' = out \o PktsOf(a)
      /\ \/ next.items = <<>> /\ list = RemoveAt(gro_list, cursor)
         \/ next.items # <<>> /\ \E x : list = [gro_list EXCEPT ![cursor].head = x]
  BY <1>3, <1>5, Zenon
<1> HIDE DEF old, k, queue, front
<1>8. /\ f \in Flows /\ q \in Queues /\ was \in QueueType
      /\ Linear(W) /\ WeakOrder(W) /\ W # {} /\ Space(BulkSkbs(rx, f, W), W)
      /\ BulkQueue(rx, W, f, was) /\ was.seq_next \in W
  BY <1>1, <1>5, <1>6, HeldBulk
<1>9. n \in 0..Len(was.items)
  BY <1>1, <1>6, <1>8, CompleteCountRange
<1>10. n # 0 /\ n # Len(was.items) => before(SeqNextAfter(was)[n], was.items[n + 1].seq)
  BY <1>1, <1>6, <1>8, StopsAtHole, Zenon
<1>11. /\ a \in Seq(BulkSkbs(rx, f, W)) /\ Apart(a) /\ InFront(a, next.items)
       /\ next.items # <<>> => BulkQueue(rx, W, f, next)
  BY <1>6, <1>8, <1>9, <1>10, CompleteBulk
<1>12. new[q] = next /\ \A x \in Queues : x # q => new[x] = ofo[x]
  BY <1>4, <1>7, <1>8
<1>13. ASSUME NEW j \in 1..Len(list)
       PROVE  \E m \in 1..Len(gro_list) :
                /\ list[j].flow = gro_list[m].flow /\ list[j].q = gro_list[m].q
                /\ m = cursor => next.items # <<>>
  <2>1. CASE next.items = <<>> /\ list = RemoveAt(gro_list, cursor)
    <3>1. Among(list, gro_list, cursor)
      BY <1>1, <1>4, <2>1, RemoveEntry
    <3> QED
      BY <3>1 DEF Among
  <2>2. CASE next.items # <<>> /\ \E x : list = [gro_list EXCEPT ![cursor].head = x]
    <3>1. CameFrom(list, gro_list)
      BY <1>4, <2>2, SameEntries
    <3> QED
      BY <2>2, <3>1 DEF CameFrom
  <2> QED
    BY <1>7, <2>1, <2>2
<1>14. ASSUME NEW j \in 1..Len(list)
       PROVE  /\ \/ \E m \in 1..Len(gro_list) :
                      /\ list[j].flow = gro_list[m].flow
                      /\ new[list[j].q].items = ofo[gro_list[m].q].items
                      /\ new[list[j].q].seq_next = ofo[gro_list[m].q].seq_next
                 \/ BulkQueue(rx, win[list[j].flow], list[j].flow, new[list[j].q])
              /\ list[j].flow = f => InFront(a, new[list[j].q].items)
  <2>1. PICK m \in 1..Len(gro_list) :
          /\ list[j].flow = gro_list[m].flow /\ list[j].q = gro_list[m].q
          /\ m = cursor => next.items # <<>>
    BY <1>13
  <2>2. CASE m = cursor
    <3>1. list[j].flow = f /\ new[list[j].q] = next
      BY <1>5, <1>12, <2>1, <2>2
    <3> QED
      BY <1>5, <1>11, <2>1, <2>2, <3>1
  <2>3. CASE m # cursor
    <3>1. gro_list[m].q # q /\ gro_list[m].q \in Queues /\ gro_list[m].flow # f
      BY <1>1, <1>2, <1>5, <2>3, Basics DEF PoolInv, OneEntry
    <3> QED
      BY <1>12, <2>1, <3>1
  <2> QED
    BY <2>2, <2>3
<1>15. AllBulk(rx, list, new, win)
  BY <1>1, <1>14, CarriedBulk DEF More
<1>16. InTurn(rx, list, new, f, W, a)
  BY <1>11, <1>14 DEF InTurn
<1> QED
  BY <1>1, <1>5, <1>7, <1>8, <1>15, <1>16 DEF GoesOn

(* What becomes of the queue of a flow that holds packets.                 *)
Moved(G, items, skb, r, next) ==
  /\ r.out = <<>> /\ next.items \in Seq(G) /\ Apart(next.items)
  /\ ~before(next.items[1].seq, next.seq_next)
  /\ ~r.kept => /\ next.items = items
                /\ \A j \in 1..Len(items) : UpTo(SeqEnd(skb), items[j].seq)

LEMMA FoundQueue ==
  ASSUME NEW queue \in QueueType, queue.items # <<>>, NEW head, head = queue.items[1].id,
         NEW G, NEW W, W # {}, Space(G, W),
         NEW items, items = queue.items, items \in Seq(G), Rising(items),
         queue.skb_num = Len(items), NEW skb \in G, BulkCase(items, skb),
         queue.seq_next \in W, ~before(items[1].seq, queue.seq_next),
         NEW r, r = tcp_gro_receive(queue, head, skb, FALSE),
         NEW next, next = IF r.kept THEN r.queue ELSE Advance(r.queue, skb)
  PROVE  Moved(G, items, skb, r, next)
<1>1. /\ r.out = <<>>
      /\ \/ /\ r.kept /\ Apart(r.queue.items)
            /\ ~before(r.queue.items[1].seq, r.queue.seq_next)
         \/ /\ ~r.kept /\ r.queue = queue
            /\ \A j \in 1..Len(items) : UpTo(SeqEnd(skb), items[j].seq)
  <2>1. InOrLate(r, queue, skb)
    BY ReceiveAbsorbs
  <2> QED
    BY <2>1 DEF InOrLate
<1>2. Linear(W) /\ skb \in SkbType /\ SeqEnd(skb) \in W /\ \A s \in G : s.seq \in W
  BY DEF Space, Closed, InOrderedSpace
<1>3. CASE r.kept
  <2>1. r.queue.items \in Seq(G)
    <3>1. Kept(tcp_gro_receive(queue, head, skb, FALSE), queue.hash, G, W)
      BY <1>2, ReceiveKeepsOrder
    <3> QED
      BY <3>1 DEF Kept
  <2> QED
    BY <1>1, <1>3, <2>1 DEF Moved
<1>4. CASE ~r.kept
  <2>1. /\ r.queue = queue /\ next = Advance(queue, skb)
        /\ \A j \in 1..Len(items) : UpTo(SeqEnd(skb), items[j].seq)
    BY <1>1, <1>4
  <2>2. next.items = items /\ next.seq_next = max_seq(queue.seq_next, SeqEnd(skb))
    <3>1. Advance(queue, skb).items = queue.items
      BY AdvanceNum
    <3>2. Advance(queue, skb).seq_next = max_seq(queue.seq_next, SeqEnd(skb))
      BY AdvanceNext
    <3>3. next = Advance(queue, skb)
      BY <2>1
    <3> QED
      BY ONLY <3>1, <3>2, <3>3, items = queue.items
  <2>3. Len(items) \in Nat /\ 1 \in 1..Len(items)
    BY LenProperties, EmptySeq
  <2>4. PICK a, e : a = items[1].seq /\ e = SeqEnd(skb)
    OBVIOUS
  <2>5. a \in W /\ e \in W /\ UpTo(e, a)
    <3>1. items[1] \in G
      BY <2>3, ElementOfSeq
    <3> QED
      BY <1>2, <2>1, <2>3, <2>4, <3>1
  <2>6. ~before(a, a) /\ (before(e, a) => ~before(a, e))
    BY <1>2, <2>5, OrderFacts
  <2>7. ~before(a, e)
    BY <2>5, <2>6 DEF UpTo
  <2>8. ~before(a, next.seq_next)
    BY <2>2, <2>4, <2>7 DEF max_seq
  <2>9. Apart(items)
    BY DEF BulkCase
  <2> QED
    BY <1>1, <2>1, <2>2, <2>4, <2>8, <2>9 DEF Moved
<1> QED
  BY <1>3, <1>4

(* The queues after that of one flow has changed.                          *)
QueueMoved(win, log, list, queues, f, queue) ==
  /\ AllBulk(log, list, queues, win)
  /\ \A j \in 1..Len(list) : list[j].flow = f => queues[list[j].q] = queue

Differ(new, queues, x) == \A q \in Queues : q # x => new[q] = queues[q]

LEMMA OneBulk ==
  ASSUME NEW win, NEW log \in Seq(Packets), NEW more, More(log, more),
         NEW old \in Seq(EntryType), NEW queues, AllBulk(log, old, queues, win),
         OneEntry(old), QInj(old), NEW e \in 1..Len(old), NEW next,
         NEW list, CameFrom(list, old), NEW new, NEW x, x = old[e].q, new[x] = next,
         Differ(new, queues, x),
         NEW f, f = old[e].flow, NEW W, W = win[f], BulkQueue(more, W, f, next)
  PROVE  QueueMoved(win, more, list, new, f, next)
<1>1. ASSUME NEW j \in 1..Len(list)
      PROVE  /\ \/ \E m \in 1..Len(old) :
                     /\ list[j].flow = old[m].flow
                     /\ new[list[j].q].items = queues[old[m].q].items
                     /\ new[list[j].q].seq_next = queues[old[m].q].seq_next
                \/ BulkQueue(more, win[list[j].flow], list[j].flow, new[list[j].q])
             /\ list[j].flow = f => new[list[j].q] = next
  <2>1. PICK m \in 1..Len(old) : list[j].flow = old[m].flow /\ list[j].q = old[m].q
    BY DEF CameFrom
  <2>2. CASE m = e
    <3>1. list[j].flow = f /\ new[list[j].q] = next
      BY <2>1, <2>2
    <3> QED
      BY <3>1
  <2>3. CASE m # e
    <3>1. old[m].q # old[e].q /\ old[m].flow # f
      BY <2>3 DEF QInj, OneEntry
    <3>2. old[m].q \in Queues
      <4>1. old[m] \in EntryType
        BY ElementOfSeq
      <4> QED
        BY <4>1 DEF EntryType
    <3> QED
      BY <2>1, <3>1, <3>2 DEF Differ
  <2> QED
    BY <2>2, <2>3
<1>2. AllBulk(more, list, new, win)
  BY <1>1, CarriedBulk
<1> QED
  BY <1>1, <1>2 DEF QueueMoved

(* What tcp_gro_receive and the label normal make of the queue that the    *)
(* flow of a bulk segment holds.                                           *)
LEMMA FoundMoves ==
  ASSUME NEW win, Rooms(win), BInv(win), SegmentsApart, BulkFits, NEW p \in Packets,
         NEW skb, NEW f, NEW W, NEW more, Arrives(win, p, skb, f, W, more),
         NEW e \in 1..Len(gro_list), gro_list[e].flow = f,
         NEW queue, queue = ofo[gro_list[e].q], NEW head, head = gro_list[e].head,
         NEW r, r = tcp_gro_receive(queue, head, skb, FALSE),
         NEW next, next = IF r.kept THEN r.queue ELSE Advance(r.queue, skb)
  PROVE  Moved(BulkSkbs(more, f, W), queue.items, skb, r, next)
<1>1. PICK items, G : items = queue.items /\ G = BulkSkbs(more, f, W)
  OBVIOUS
<1>2. W = win[f]
  BY DEF Arrives
<1>3. IsBulk(rx) /\ skb \in G /\ Space(G, W)
  BY <1>1, ArrivesParts
<1>4. /\ queue \in QueueType /\ W # {} /\ BulkQueue(rx, W, f, queue) /\ queue.seq_next \in W
      /\ Orderly(rx, W, f, queue) /\ Rising(items) /\ items # <<>> /\ head = items[1].id
  BY <1>1, <1>2, <1>3, HeldBulk
<1>5. items \in Seq(G) /\ BulkCase(items, skb)
  BY <1>1, ArrivesJoins, Zenon
<1>6. queue.skb_num = Len(items) /\ ~before(items[1].seq, queue.seq_next)
  BY <1>1, <1>4, Zenon DEF Orderly, BulkQueue
<1>7. Moved(G, items, skb, r, next)
  BY <1>1, <1>3, <1>4, <1>5, <1>6, FoundQueue, Zenon
<1> QED
  BY <1>1, <1>7

(* The flow of the segment holds packets.                                  *)
LEMMA FoundBulk ==
  ASSUME NEW win, Rooms(win), BInv(win), SegmentsApart, BulkFits, NEW p \in Packets,
         ReceiveFound(p), IsBulk(rx')
  PROVE  GoesOn(rx', gro_list', ofo', win, out, out')
<1> DEFINE e    == EntryOf(p.flow)
           q    == gro_list[e].q
           skb  == SkbOf(p, Len(rx) + 1)
           ctl  == p.kind = "ctl"
           r    == tcp_gro_receive(ofo[q], gro_list[e].head, skb, ctl)
           next == IF r.kept THEN r.queue ELSE Advance(r.queue, skb)
           own  == IF r.kept THEN <<>> ELSE <<skb.pkts>>
<1>1. /\ Receiving(p) /\ e # 0
      /\ gro_list' = [gro_list EXCEPT ![e].head = r.head]
      /\ ofo' = [ofo EXCEPT ![q] = next]
      /\ out' = (out \o PktsOf(r.out)) \o own
  BY Zenon DEF ReceiveFound
<1>2. PICK s, f, W, more, head, old :
        /\ more = rx' /\ s = skb /\ f = p.flow /\ W = win[f]
        /\ head = gro_list[e].head /\ old = ofo[q]
  BY Zenon
<1>3. Arrives(win, p, s, f, W, more)
  BY <1>1, <1>2, Zenon DEF Arrives
<1>4. f \in Flows /\ p.kind = "data" /\ PoolInv /\ TypeOK
  BY <1>3, ArrivesParts, Zenon
<1>5. /\ e \in 1..Len(gro_list) /\ gro_list[e].flow = f /\ q \in Queues
      /\ ofo \in [Queues -> QueueType] /\ gro_list \in Seq(EntryType) /\ QInj(gro_list)
  BY <1>1, <1>2, <1>4, EntryOfFlow, Basics, Zenon DEF PoolInv, QInj
<1>6. r = tcp_gro_receive(old, head, s, FALSE)
  <2>1. ctl = FALSE
    BY <1>4
  <2> QED
    BY <1>2, <2>1
<1>7. PICK h, n, i, x : h = r /\ n = next /\ i = e /\ x = q
  OBVIOUS
<1>8. /\ i \in 1..Len(gro_list) /\ gro_list[i].flow = f /\ x = gro_list[i].q /\ x \in Queues
      /\ old = ofo[x] /\ head = gro_list[i].head
      /\ h = tcp_gro_receive(old, head, s, FALSE)
      /\ n = IF h.kept THEN h.queue ELSE Advance(h.queue, s)
  BY <1>2, <1>5, <1>6, <1>7
<1>9. Moved(BulkSkbs(more, f, W), old.items, s, h, n)
  BY <1>3, <1>8, FoundMoves
<1>10. PICK list, new, was, now : list = gro_list' /\ new = ofo' /\ was = out /\ now = out'
  OBVIOUS
<1>11. /\ CameFrom(list, gro_list) /\ new = [ofo EXCEPT ![x] = n]
       /\ now = (was \o PktsOf(h.out)) \o (IF h.kept THEN <<>> ELSE <<s.pkts>>)
  <2>1. PICK y : y = r.head
    BY Zenon
  <2>2. list = [gro_list EXCEPT ![e].head = y]
    BY <1>1, <1>10, <2>1, Zenon
  <2> HIDE DEF e, r, next, own, skb
  <2>3. CameFrom(list, gro_list)
    BY <1>5, <2>2, SameEntries
  <2>4. own = IF h.kept THEN <<>> ELSE <<s.pkts>>
    BY <1>2, <1>7 DEF own
  <2> QED
    BY <1>1, <1>7, <1>10, <2>3, <2>4
<1> HIDE DEF e, q, skb, ctl, r, next, own
<1>12. /\ rx \in Seq(Packets) /\ More(rx, more) /\ AllBulk(rx, gro_list, ofo, win)
       /\ s \in SkbType /\ s \in BulkSkbs(more, f, W) /\ was \in Seq(Seq(Nat))
  BY <1>3, <1>10, ArrivesParts
<1>13. BulkQueue(more, W, f, n)
  BY <1>9 DEF Moved, BulkQueue
<1>14. /\ AllBulk(more, list, new, win)
       /\ \A j \in 1..Len(list) : list[j].flow = f => new[list[j].q] = n
  <2>1. new[x] = n /\ \A y \in Queues : y # x => new[y] = ofo[y]
    BY <1>5, <1>8, <1>11, Zenon
  <2>2. OneEntry(gro_list)
    BY DEF BInv
  <2>3. PICK log, l, o : log = rx /\ l = gro_list /\ o = ofo
    OBVIOUS
  <2>4. log \in Seq(Packets) /\ More(log, more) /\ AllBulk(log, l, o, win)
    BY <1>12, <2>3
  <2>5. x = l[i].q /\ new[x] = n /\ Differ(new, o, x)
    BY <1>8, <2>1, <2>3 DEF Differ
  <2>6. f = l[i].flow /\ W = win[f] /\ BulkQueue(more, W, f, n)
    BY <1>2, <1>8, <1>13, <2>3, Zenon
  <2>7. /\ i \in 1..Len(l) /\ l \in Seq(EntryType) /\ QInj(l) /\ OneEntry(l)
        /\ CameFrom(list, l)
    BY <1>5, <1>8, <1>11, <2>2, <2>3, Zenon
  <2>8. QueueMoved(win, more, list, new, f, n)
    BY ONLY <2>4, <2>5, <2>6, <2>7, OneBulk
  <2> QED
    BY <2>8, Zenon DEF QueueMoved
<1>15. PktsOf(h.out) = <<>>
  <2>1. h.out = <<>>
    BY <1>9 DEF Moved
  <2>2. PICK o, z : o = h.out /\ z = PktsOf(h.out)
    OBVIOUS
  <2>3. o = <<>> /\ o \in Seq(SkbType) /\ z = PktsOf(o) /\ Len(o) = 0
    BY <2>1, <2>2
  <2>4. z \in Seq(Seq(Nat)) /\ Len(z) = 0
    BY <2>3, PktsOfType
  <2>5. z = <<>>
    BY <2>4, EmptySeq
  <2> QED
    BY <2>2, <2>5
<1>16. was \o <<>> = was
  BY <1>12, ConcatEmptySeq
<1>17. CASE h.kept
  <2>1. now = was
    BY <1>11, <1>15, <1>16, <1>17
  <2> QED
    BY <1>2, <1>10, <1>14, <2>1 DEF GoesOn
<1>18. CASE ~h.kept
  <2>1. PICK ahead : ahead = <<s>>
    OBVIOUS
  <2>2. n.items = old.items /\ \A j \in 1..Len(old.items) : UpTo(SeqEnd(s), old.items[j].seq)
    BY <1>9, <1>18 DEF Moved
  <2>3. ASSUME NEW k \in 1..Len(list), list[k].flow = f
        PROVE  \A j \in 1..Len(new[list[k].q].items) : UpTo(SeqEnd(s), new[list[k].q].items[j].seq)
    BY <1>14, <2>2, <2>3
  <2>4. InTurn(more, list, new, f, W, ahead)
    BY <1>12, <2>1, <2>3, OneInTurn
  <2>5. PktsOf(ahead) = <<s.pkts>>
    BY <1>12, <2>1, PassesOne
  <2>6. now = was \o PktsOf(ahead)
    BY <1>11, <1>15, <1>16, <1>18, <2>5
  <2>7. InTurn(more, list, new, f, win[f], ahead)
    BY <1>2, <2>4
  <2>8. GoesOn(more, list, new, win, was, now)
    BY <1>4, <1>14, <2>6, <2>7 DEF GoesOn
  <2> QED
    BY <1>2, <1>10, <2>8
<1> QED
  BY <1>17, <1>18

(* The entries of a list whose queues have not changed.                    *)
Still(rest, old, new, queues) ==
  \A j \in 1..Len(rest) :
    \E m \in 1..Len(old) : rest[j] = old[m] /\ new[rest[j].q] = queues[rest[j].q]

LEMMA NewEntryBulk ==
  ASSUME NEW win, NEW log \in Seq(Packets), NEW more, More(log, more),
         NEW old, NEW queues, AllBulk(log, old, queues, win),
         NEW entry, NEW rest, NEW list, Behind(list, entry, rest),
         NEW new, Still(rest, old, new, queues),
         NEW f, f = entry.flow, NEW W, W = win[f], NEW x, x = entry.q,
         BulkQueue(more, W, f, new[x])
  PROVE  AllBulk(more, list, new, win)
<1>1. ASSUME NEW j \in 1..Len(list)
      PROVE  \/ \E m \in 1..Len(old) :
                  /\ list[j].flow = old[m].flow
                  /\ new[list[j].q].items = queues[old[m].q].items
                  /\ new[list[j].q].seq_next = queues[old[m].q].seq_next
             \/ BulkQueue(more, win[list[j].flow], list[j].flow, new[list[j].q])
  <2>1. CASE j = 1
    <3>1. list[j] = entry
      BY <2>1 DEF Behind
    <3> QED
      BY <3>1
  <2>2. CASE j # 1
    <3>1. PICK n \in 1..Len(rest) : list[j] = rest[n]
      BY <2>2 DEF Behind
    <3>2. PICK m \in 1..Len(old) : rest[n] = old[m] /\ new[rest[n].q] = queues[rest[n].q]
      BY DEF Still
    <3> QED
      BY <3>1, <3>2
  <2> QED
    BY <2>1, <2>2
<1> QED
  BY <1>1, CarriedBulk

(* A flow that makes room passes up all it holds.                          *)
LEMMA LastInTurn ==
  ASSUME NEW win, NEW log \in Seq(Packets), NEW more, More(log, more),
         NEW old, OneEntry(old), NEW queues, AllBulk(log, old, queues, win),
         NEW n \in 1..Len(old), NEW g, g = old[n].flow,
         NEW ahead, ahead = queues[old[n].q].items,
         NEW entry, entry.flow # g, NEW rest, Among(rest, old, n),
         NEW list, Behind(list, entry, rest), NEW new
  PROVE  InTurn(more, list, new, g, win[g], ahead)
<1>1. PICK V : V = win[g]
  OBVIOUS
<1>2. BulkQueue(log, V, g, queues[old[n].q])
  BY <1>1 DEF AllBulk
<1>3. ahead \in Seq(BulkSkbs(log, g, V)) /\ Apart(ahead)
  BY <1>2 DEF BulkQueue
<1>4. ahead \in Seq(BulkSkbs(more, g, V))
  <2>1. BulkSkbs(log, g, V) \subseteq BulkSkbs(more, g, V)
    BY BulkMore
  <2> QED
    BY <1>3, <2>1, SubSeqOf
<1>5. ASSUME NEW j \in 1..Len(list) PROVE list[j].flow # g
  <2>1. CASE j = 1
    BY <2>1 DEF Behind
  <2>2. CASE j # 1
    <3>1. PICK k \in 1..Len(rest) : list[j] = rest[k]
      BY <2>2 DEF Behind
    <3>2. PICK m \in 1..Len(old) : m # n /\ rest[k] = old[m]
      BY DEF Among
    <3> QED
      BY <3>1, <3>2 DEF OneEntry
  <2> QED
    BY <2>1, <2>2
<1>6. InTurn(more, list, new, g, V, ahead)
  BY <1>3, <1>4, <1>5, Zenon DEF InTurn
<1> QED
  BY <1>1, <1>6

LEMMA HoldBulk ==
  ASSUME NEW win, Rooms(win), BInv(win), SegmentsApart, NEW p \in Packets,
         ReceiveHold(p), IsBulk(rx')
  PROVE  GoesOn(rx', gro_list', ofo', win, out, out')
<1> DEFINE hash  == TcpHash[p.flow]
           i     == IdleIndex(hash)
           x     == idle[i]
           skb   == SkbOf(p, Len(rx) + 1)
           got   == napi_get_tcp_ofo_queue(hash)
           queue == TakenForData(got, skb)
           one   == 1
           z     == 0
           items == <<skb>>
           held  == [queue EXCEPT !.items = items, !.skb_num = one, !.age = z, !.hash = hash]
           entry == [flow |-> p.flow, q |-> x, head |-> skb.id]
           l     == gro_list[Len(gro_list)].q
           old   == ofo[l]
           empty == Complete(old, Len(old.items))
           keep  == Front(gro_list)
<1>1. Receiving(p) /\ EntryOf(p.flow) = 0 /\ ~before(skb.seq, queue.seq_next)
  BY DEF ReceiveHold
<1>2. PICK list, new, was, now : list = gro_list' /\ new = ofo' /\ was = out /\ now = out'
  OBVIOUS
<1>3. PICK s, f, W, more : more = rx' /\ s = skb /\ f = p.flow /\ W = win[f]
  BY Zenon
<1>4. \/ /\ list = <<entry>> \o gro_list
         /\ new = [ofo EXCEPT ![x] = held]
         /\ now = was
      \/ /\ gro_count >= MAX_GRO_SKBS
         /\ list = <<entry>> \o keep
         /\ new = [ofo EXCEPT ![x] = held, ![l] = empty]
         /\ now = was \o PktsOf(old.items)
  BY <1>2, Zenon DEF ReceiveHold
<1>5. Arrives(win, p, s, f, W, more)
  BY <1>1, <1>3 DEF Arrives
<1>6. /\ f \in Flows /\ TypeOK /\ IInv /\ PoolInv /\ ~Deleted
      /\ rx \in Seq(Packets) /\ More(rx, more) /\ AllBulk(rx, gro_list, ofo, win)
      /\ s \in SkbType /\ s \in BulkSkbs(more, f, W)
  BY <1>5, ArrivesParts
<1>7. i \in 1..Len(idle) /\ got \in QueueType
  <2> HIDE DEF hash
  <2>1. hash # 0 /\ hash = TcpHash[p.flow]
    <3>1. TcpHash[p.flow] \in Nat \ {0}
      BY <1>3, <1>6, TcpHashAssumption
    <3> QED
      BY <3>1 DEF hash
  <2> QED
    BY <1>6, <2>1, IdleNotEmpty, IdleIndexRange
<1>8. queue \in QueueType
  <2> HIDE DEF got, skb
  <2> QED
    BY <1>3, <1>6, <1>7, TakenForDataType
<1> HIDE DEF i, items, queue, one, z, hash, skb
<1>9. held.items = items /\ held.seq_next = queue.seq_next
  BY <1>8 DEF QueueType
<1> HIDE DEF held
<1>10. BulkQueue(more, W, f, held)
  <2>1. items = <<s>>
    BY <1>3 DEF items
  <2>2. /\ items \in Seq(BulkSkbs(more, f, W)) /\ Len(items) = 1 /\ items[1] = s
    BY <1>6, <2>1
  <2>3. Apart(items)
    BY <2>2 DEF Apart
  <2>4. ~before(items[1].seq, held.seq_next)
    BY <1>1, <1>3, <1>9, <2>2
  <2> QED
    BY <1>9, <2>2, <2>3, <2>4 DEF BulkQueue
<1>11. /\ gro_list \in Seq(EntryType) /\ idle \in Seq(Queues) /\ OneEntry(gro_list)
       /\ ofo \in [Queues -> QueueType] /\ QInj(gro_list) /\ Len(gro_list) \in Nat
  BY <1>6, Basics DEF PoolInv, QInj, BInv
<1>12. x \in Queues /\ \A j \in 1..Len(gro_list) : gro_list[j].q # x /\ gro_list[j].q \in Queues
  BY <1>6, <1>7, <1>11, ElementOfSeq, Basics DEF PoolInv
<1>13. entry \in EntryType /\ entry.q = x /\ entry.flow = f
  <2>1. s.id \in Nat
    BY <1>6 DEF SkbType
  <2> HIDE DEF x
  <2> QED
    BY <1>3, <1>6, <1>12, <2>1 DEF EntryType
<1> HIDE DEF entry, x
<1>14. ASSUME NEW rest, Behind(list, entry, rest), Still(rest, gro_list, new, ofo), new[x] = held
       PROVE  AllBulk(more, list, new, win)
  <2>1. PICK log, t, o : log = rx /\ t = gro_list /\ o = ofo
    OBVIOUS
  <2>2. /\ log \in Seq(Packets) /\ More(log, more) /\ AllBulk(log, t, o, win)
        /\ Still(rest, t, new, o)
    BY <1>6, <1>14, <2>1
  <2>3. f = entry.flow /\ W = win[f] /\ x = entry.q /\ BulkQueue(more, W, f, new[x])
    BY <1>3, <1>10, <1>13, <1>14
  <2> QED
    BY ONLY <1>14, <2>2, <2>3, NewEntryBulk
<1>15. CASE /\ list = <<entry>> \o gro_list
            /\ new = [ofo EXCEPT ![x] = held]
            /\ now = was
  <2>1. new[x] = held /\ \A q \in Queues : q # x => new[q] = ofo[q]
    BY <1>11, <1>12, <1>15
  <2>2. Behind(list, entry, gro_list)
    BY <1>11, <1>12, <1>13, <1>15, ConsEntry
  <2>3. Still(gro_list, gro_list, new, ofo)
    BY <1>12, <2>1 DEF Still
  <2>4. AllBulk(more, list, new, win)
    BY <1>14, <2>1, <2>2, <2>3
  <2> QED
    BY <1>2, <1>3, <1>15, <2>4 DEF GoesOn
<1>16. CASE /\ gro_count >= MAX_GRO_SKBS
            /\ list = <<entry>> \o keep
            /\ new = [ofo EXCEPT ![x] = held, ![l] = empty]
            /\ now = was \o PktsOf(old.items)
  <2>0. Len(gro_list) \in 1..Len(gro_list)
    <3>1. gro_count = Len(gro_list) /\ gro_count >= MAX_GRO_SKBS
      BY <1>6, <1>16 DEF PoolInv
    <3> QED
      BY <1>11, <3>1, MaxGroSkbsAssumption
  <2>1. l \in Queues /\ l # x
    BY <1>12, <2>0
  <2> HIDE DEF empty
  <2>2. /\ new[x] = held
        /\ \A q \in Queues : q # x /\ q # l => new[q] = ofo[q]
    BY <1>11, <1>12, <1>16, <2>1
  <2>3. PICK k : k = keep
    OBVIOUS
  <2>4. k \in Seq(EntryType) /\ QInj(k) /\ Among(k, gro_list, Len(gro_list))
    BY <1>11, <2>0, <2>3, FrontEntries
  <2>5. \A j \in 1..Len(k) : k[j].q # entry.q
    BY <1>12, <1>13, <2>4 DEF Among
  <2>6. list = <<entry>> \o k
    BY <1>16, <2>3
  <2>7. Behind(list, entry, k)
    BY <1>13, <2>4, <2>5, <2>6, ConsEntry
  <2>8. Still(k, gro_list, new, ofo)
    <3>1. ASSUME NEW j \in 1..Len(k)
          PROVE  \E m \in 1..Len(gro_list) : k[j] = gro_list[m] /\ new[k[j].q] = ofo[k[j].q]
      <4>1. PICK m \in 1..Len(gro_list) : m # Len(gro_list) /\ k[j] = gro_list[m]
        BY <2>4 DEF Among
      <4>2. gro_list[m].q # l
        BY <1>6, <2>0, <4>1 DEF PoolInv
      <4> QED
        BY <1>12, <2>2, <4>1, <4>2
    <3> QED
      BY <3>1 DEF Still
  <2>9. AllBulk(more, list, new, win)
    BY <1>14, <2>2, <2>7, <2>8
  <2>10. PICK n, g, ahead : n = Len(gro_list) /\ g = gro_list[n].flow /\ ahead = ofo[gro_list[n].q].items
    OBVIOUS
  <2>11. n \in 1..Len(gro_list) /\ g \in Flows /\ entry.flow # g
    <3>1. \A m \in 1..Len(gro_list) : gro_list[m].flow # f
      BY <1>1, <1>3, <1>6, NoEntry
    <3>2. gro_list[n] \in EntryType
      BY <1>11, <2>0, <2>10, ElementOfSeq
    <3> QED
      BY <1>13, <2>0, <2>10, <3>1, <3>2 DEF EntryType
  <2>12. InTurn(more, list, new, g, win[g], ahead)
    <3>1. PICK log, t, o : log = rx /\ t = gro_list /\ o = ofo
      OBVIOUS
    <3>2. /\ log \in Seq(Packets) /\ More(log, more) /\ AllBulk(log, t, o, win)
          /\ OneEntry(t) /\ n \in 1..Len(t) /\ g = t[n].flow /\ ahead = o[t[n].q].items
          /\ entry.flow # g /\ Among(k, t, n) /\ Behind(list, entry, k)
      BY <1>6, <1>11, <2>4, <2>7, <2>10, <2>11, <3>1
    <3> QED
      BY ONLY <3>2, LastInTurn
  <2>13. now = was \o PktsOf(ahead)
    BY <1>16, <2>10
  <2>14. GoesOn(more, list, new, win, was, now)
    BY <2>9, <2>11, <2>12, <2>13 DEF GoesOn
  <2> QED
    BY <1>2, <1>3, <2>14
<1> QED
  BY <1>4, <1>15, <1>16, Zenon

LEMMA NextBulk ==
  ASSUME NEW win, Rooms(win), BInv(win), SegmentsApart, BulkFits, [Next]_vars, IsBulk(rx')
  PROVE  GoesOn(rx', gro_list', ofo', win, out, out')
<1>1. CASE /\ rx' = rx /\ out' = out /\ gro_list' = gro_list /\ ofo' = ofo
  BY <1>1, SameBulk
<1>2. ASSUME NEW p \in Packets, napi_gro_receive(p)
      PROVE  GoesOn(rx', gro_list', ofo', win, out, out')
  <2>1. ASSUME Receiving(p) PROVE p.kind = "data"
    <3>1. PICK skb, f, W, more :
            /\ more = rx' /\ skb = SkbOf(p, Len(rx) + 1) /\ f = p.flow /\ W = win[f]
      OBVIOUS
    <3>2. Arrives(win, p, skb, f, W, more)
      BY <2>1, <3>1 DEF Arrives
    <3> QED
      BY <3>2, ArrivesParts
  <2>2. CASE ReceiveBypass(p)
    BY <2>1, <2>2 DEF ReceiveBypass
  <2>3. CASE ReceiveFound(p)
    BY <2>3, FoundBulk
  <2>4. CASE ReceiveControl(p)
    BY <2>1, <2>4 DEF ReceiveControl
  <2>5. CASE ReceiveStale(p)
    BY <2>5, StaleBulk
  <2>6. CASE ReceiveHold(p)
    BY <2>6, HoldBulk
  <2> QED
    BY <1>2, <2>2, <2>3, <2>4, <2>5, <2>6 DEF napi_gro_receive
<1>3. ASSUME NEW old \in BOOLEAN, FlushBegin(old)
      PROVE  GoesOn(rx', gro_list', ofo', win, out, out')
  BY <1>1, <1>3 DEF FlushBegin, engine_vars
<1>4. CASE FlushEntry
  BY <1>4, FlushEntryBulk
<1>5. CASE napi_clean_tcp_ofo_queue
  BY <1>5, CleanBulk
<1>6. CASE netif_napi_del
  <2>1. gro_list' = <<>> /\ out' = out
    BY <1>6 DEF netif_napi_del
  <2>2. AllBulk(rx', gro_list', ofo', win)
    BY <2>1 DEF AllBulk
  <2> QED
    BY <2>1, <2>2 DEF GoesOn
<1>7. CASE Tick
  BY <1>7, TickBulk
<1>8. CASE UNCHANGED vars
  BY <1>1, <1>8 DEF vars
<1> QED
  BY <1>2, <1>3, <1>4, <1>5, <1>6, <1>7, <1>8 DEF Next

LEMMA InitBInv ==
  ASSUME NEW win, Init
  PROVE  BInv(win)
<1>1. SInv(win) /\ CInv
  BY InitSInv, InitCInv
<1>2. gro_list = <<>>
  BY DEF Init
<1>3. OneEntry(gro_list) /\ AllBulk(rx, gro_list, ofo, win)
  BY <1>2 DEF OneEntry, AllBulk
<1> QED
  BY <1>1, <1>3 DEF BInv

LEMMA NextKeepsBInv ==
  ASSUME NEW win, Rooms(win), BInv(win), SegmentsApart, BulkFits, [Next]_vars
  PROVE  BInv(win)'
<1>1. SInv(win)' /\ CInv'
  BY NextKeepsSInv, NextKeepsCInv DEF BInv
<1>2. OneEntry(gro_list')
  <2>1. IInv /\ IInv'
    BY <1>1 DEF BInv, CInv
  <2> QED
    BY <2>1, NextKeepsOneEntry DEF BInv
<1>3. IsBulk(rx') => AllBulk(rx', gro_list', ofo', win)
  BY NextBulk DEF GoesOn
<1> QED
  BY <1>1, <1>2, <1>3 DEF BInv

(* Whatever is passed up goes in front of all its flow still holds.        *)
LEMMA BulkInOrder ==
  ASSUME NEW win, Rooms(win), BInv(win), SegmentsApart, BulkFits, [Next]_vars, IsBulk(rx')
  PROVE  InOrder
<1>1. GoesOn(rx', gro_list', ofo', win, out, out')
  BY NextBulk
<1>2. rx' \in Seq(Packets) /\ gro_list' \in Seq(EntryType) /\ out \in Seq(Seq(Nat))
  <2>1. SInv(win)'
    BY NextKeepsSInv DEF BInv
  <2>2. TypeOK' /\ TypeOK
    BY <2>1 DEF SInv, OInv, IInv, BInv
  <2> QED
    BY <2>2 DEF TypeOK
<1>3. AllBulk(rx', gro_list', ofo', win)
  BY <1>1 DEF GoesOn
<1>4. CASE out' = out
  BY <1>2, <1>4, NothingPassed
<1>5. CASE \E f \in Flows : \E ahead :
             InTurn(rx', gro_list', ofo', f, win[f], ahead) /\ out' = out \o PktsOf(ahead)
  BY <1>2, <1>3, <1>5, PassedInTurn
<1> QED
  BY <1>1, <1>4, <1>5 DEF GoesOn

(* Bulk data never changes its order in the engine: whatever is passed up  *)
(* at once is in order, and nothing of its flow that precedes it is still  *)
(* held, however the segments arrive and whenever a flow is flushed or     *)
(* makes room.  There are two assumptions besides those of                 *)
(* SeqNextMonotoneCorrect, which are explained where they are defined.     *)
THEOREM BulkNotOvertakenCorrect ==
  ASSUME PortPairHalfSpace, SegmentsApart, BulkFits
  PROVE  Spec => BulkNotOvertaken
<1>1. PICK win : Rooms(win)
  BY PortPairRooms
<1>2. Init => BInv(win)
  BY InitBInv
<1>3. BInv(win) /\ [Next]_vars => BInv(win)'
  BY <1>1, NextKeepsBInv
<1>4. BInv(win) /\ [Next]_vars => (IsBulk(rx') => InOrder)
  BY <1>1, BulkInOrder
<1>5. BInv(win) /\ [Next]_vars => [IsBulk(rx') => InOrder]_vars
  BY <1>4
<1> QED
  BY <1>2, <1>3, <1>5, PTL DEF Spec, BulkNotOvertaken
=============================================================================
