----------------------------- MODULE GroEngine -----------------------------
(***************************************************************************)
(* The GRO engine of one NAPI context in linux-4.1/net/core/dev.c: the     *)
(* pool of MAX_GRO_SKBS + 1 out-of-order queues, the list of flows that    *)
(* hold packets (gro_list), and the operations on them.  A NAPI context    *)
(* is owned by one CPU at a time (NAPI_STATE_SCHED), so each operation     *)
(* runs to its end before the next one starts; napi_gro_flush is one step  *)
(* per gro_list entry because each entry is aged against its own reading   *)
(* of the clock.                                                           *)
(*                                                                         *)
(* rx logs the packets received, a packet's id is its position in rx; out  *)
(* logs the skbs passed up the stack, each as the ids merged into it;      *)
(* freed logs what netif_napi_del gives back to the allocator.             *)
(***************************************************************************)
EXTENDS GroQueue, FiniteSets

CONSTANTS
  MAX_GRO_SKBS,   \* how many flows may hold packets at once
  Packets,        \* the packets the driver may hand over
  TcpHash,        \* *(u32 * )&th->source of each flow: its port pair
  InseqTimeout,   \* gro_inseq_timeout, in clock ticks
  OfoTimeout,     \* gro_ofo_timeout
  CleanTimeout,   \* the 100 ms of napi_clean_tcp_ofo_queue
  Garbage,        \* what kmalloc may leave in a queue's flushed byte
  MaxPackets,     \* bound on the packets received in one behaviour
  MaxCopies       \* bound on the copies of one packet (1: no duplicates)

Flows == DOMAIN TcpHash

(* A packet is plain data, a control segment (SYN, FIN, RST, URG, an IP    *)
(* header inet_gro_receive wants flushed) or one that never reaches        *)
(* tcp_gro_receive (GRO off, not TCP, bad checksum).                       *)
PacketType ==
  [flow : Flows, seq : 0..(SeqRange - 1), len : Nat, psh : BOOLEAN,
   hdr : Nat, kind : {"data", "ctl", "bypass"}]

ASSUME MaxGroSkbsAssumption == MAX_GRO_SKBS \in Nat \ {0}
ASSUME PacketsAssumption ==
  /\ \A p \in Packets : p \in PacketType
  /\ \A p \in Packets : p.kind = "data" => p.len > 0
ASSUME TcpHashAssumption == \A f \in Flows : TcpHash[f] \in Nat \ {0}
ASSUME TimeoutAssumption ==
  /\ InseqTimeout \in Nat /\ OfoTimeout \in Nat /\ CleanTimeout \in Nat
ASSUME GarbageAssumption == Garbage \subseteq BOOLEAN /\ Garbage # {}
ASSUME MaxPacketsAssumption == MaxPackets \in Nat /\ MaxCopies \in Nat

VARIABLES
  rx, out, freed,
  ofo,         \* the queues
  idle,        \* out_of_order_queue_list, most recently used first
  gro_list,    \* the flows that hold packets, youngest first
  gro_count,
  cursor,      \* entry napi_gro_flush looks at next; 0 outside of it
  flush_old    \* its argument

engine_vars == <<ofo, idle, gro_list, gro_count>>
vars == <<rx, out, freed, ofo, idle, gro_list, gro_count, cursor, flush_old>>

Queues == 0..MAX_GRO_SKBS

(* Ages saturate one tick above the largest timeout they are compared to.  *)
AgeMax == 1 + Max({InseqTimeout, OfoTimeout, CleanTimeout})

Deleted == freed # <<>>

-----------------------------------------------------------------------------
(* netif_napi_add.  It sets every field of a queue but flushed, which has  *)
(* whatever value the allocator left there.                                *)
FreshQueue(flushed) ==
  [hash |-> 0, seq_next |-> 0, flushed |-> flushed, age |-> AgeMax,
   skb_num |-> 0, items |-> <<>>]

Init ==
  /\ rx = <<>> /\ out = <<>> /\ freed = <<>>
  /\ \E garbage \in [Queues -> Garbage] : ofo = [q \in Queues |-> FreshQueue(garbage[q])]
  /\ idle = [i \in 1..(MAX_GRO_SKBS + 1) |-> (MAX_GRO_SKBS + 1) - i]
  /\ gro_list = <<>> /\ gro_count = 0
  /\ cursor = 0 /\ flush_old = FALSE

-----------------------------------------------------------------------------
(* dev_gro_complete: how many skbs at the front of the queue it passes up. *)

(* seq_next after the first i skbs were passed up.                         *)
SeqNextAfter(queue) ==
  LET next[i \in 0..Len(queue.items)] ==
        IF i = 0 THEN queue.seq_next
                 ELSE max_seq(next[i - 1], SeqEnd(queue.items[i]))
  IN  next

HasInSeq(queue) == ~before(queue.seq_next, queue.items[1].seq)

(* The in-sequence run at the front of the queue.                          *)
InSeqRun(queue) ==
  LET gaps == {j \in 1..Len(queue.items) :
                 before(SeqNextAfter(queue)[j - 1], queue.items[j].seq)}
  IN  IF gaps = {} THEN Len(queue.items) ELSE Min(gaps) - 1

CompleteCount(queue, old) ==
  CASE ~old \/ (~HasInSeq(queue) /\ queue.age > OfoTimeout) -> Len(queue.items)
    [] old /\ HasInSeq(queue) /\ queue.age > InseqTimeout   -> InSeqRun(queue)
    [] OTHER                                                -> 0

(* Mutant of Complete: the skb behind the last one passed up is lost.      *)
CompleteOneMore(queue, k) ==
  IF k = 0 THEN queue
  ELSE [queue EXCEPT !.items    = SubSeq(@, k + 2, Len(@)),
                     !.seq_next = SeqNextAfter(queue)[k],
                     !.age      = 0,
                     !.flushed  = TRUE,
                     !.skb_num  = @ - k]

Complete(queue, k) ==
  IF k = 0 THEN queue
  ELSE [queue EXCEPT !.items    = SubSeq(@, k + 1, Len(@)),
                     !.seq_next = SeqNextAfter(queue)[k],
                     !.age      = 0,
                     !.flushed  = TRUE,
                     !.skb_num  = @ - k]

-----------------------------------------------------------------------------
(* dev_gro_receive.                                                        *)

SkbOf(p, id) ==
  [id |-> id, seq |-> p.seq, len |-> p.len, psh |-> p.psh, hdr |-> p.hdr,
   gso |-> p.len, gso_end |-> FALSE, pkts |-> <<id>>]

(* The label normal: the skb goes up the stack at once, and the queue it   *)
(* was matched with learns that the flow has advanced.                     *)
Advance(queue, skb) ==
  LET seq_next == max_seq(queue.seq_next, SeqEnd(skb))
  IN  IF seq_next = queue.seq_next THEN queue
      ELSE [queue EXCEPT !.seq_next = seq_next, !.age = 0, !.flushed = TRUE]

(* gro_list_prepare, inet_gro_receive and tcp_gro_receive narrow same_flow *)
(* down to the entry of the packet's own flow.                             *)
EntryOf(f) ==
  LET same == {e \in 1..Len(gro_list) : gro_list[e].flow = f}
  IN  IF same = {} THEN 0 ELSE Min(same)

(* napi_get_tcp_ofo_queue: the first idle queue that remembers this port   *)
(* pair or is unused, or else the least recently used one, reset.          *)
ResetQueue(queue) ==
  [queue EXCEPT !.age = AgeMax, !.hash = 0, !.skb_num = 0, !.seq_next = 0]

IdleIndex(hash) ==
  LET usable == {i \in 1..Len(idle) : ofo[idle[i]].hash \in {hash, 0}}
  IN  IF usable = {} THEN Len(idle) ELSE Min(usable)

napi_get_tcp_ofo_queue(hash) ==
  LET queue == ofo[idle[IdleIndex(hash)]]
  IN  IF queue.hash \in {hash, 0} THEN queue ELSE ResetQueue(queue)

Receiving(p) ==
  /\ cursor = 0 /\ ~Deleted
  /\ Len(rx) < MaxPackets
  /\ Cardinality({i \in 1..Len(rx) : rx[i] = p}) < MaxCopies
  /\ rx' = Append(rx, p)
  /\ UNCHANGED <<freed, cursor, flush_old>>

(* goto normal before, or without, any out-of-order queue.                 *)
ReceiveBypass(p) ==
  /\ Receiving(p)
  /\ p.kind = "bypass"
  /\ out' = Append(out, <<Len(rx) + 1>>)
  /\ UNCHANGED engine_vars

(* The flow holds packets.  tcp_gro_receive's return value, which asks for *)
(* the whole queue to be flushed, is dropped by inet_gro_receive's caller. *)
ReceiveFound(p) ==
  /\ Receiving(p)
  /\ p.kind # "bypass"
  /\ EntryOf(p.flow) # 0
  /\ LET e   == EntryOf(p.flow)
         q   == gro_list[e].q
         skb == SkbOf(p, Len(rx) + 1)
         r   == tcp_gro_receive(ofo[q], gro_list[e].head, skb, p.kind = "ctl")
     IN  /\ gro_list' = [gro_list EXCEPT ![e].head = r.head]
         /\ ofo' = [ofo EXCEPT ![q] = IF r.kept THEN r.queue ELSE Advance(r.queue, skb)]
         /\ out' = out \o PktsOf(r.out) \o (IF r.kept THEN <<>> ELSE <<skb.pkts>>)
  /\ UNCHANGED <<idle, gro_count>>

(* Mutants of Requeue: the queue is not unlinked; it goes to the end.      *)
RequeueNoUnlink(i) == idle' = <<idle[i]>> \o idle

RequeueLast(i) == idle' = Append(RemoveAt(idle, i), idle[i])

(* The queue comes off the idle list and goes back to its front.           *)
Requeue(i) == idle' = <<idle[i]>> \o RemoveAt(idle, i)

(* No packet of the flow is held, and this one must not be: it is only     *)
(* recorded in the queue the flow would use.                               *)
ReceiveControl(p) ==
  /\ Receiving(p)
  /\ p.kind = "ctl"
  /\ EntryOf(p.flow) = 0
  /\ LET hash  == TcpHash[p.flow]
         i     == IdleIndex(hash)
         queue == napi_get_tcp_ofo_queue(hash)
         skb   == SkbOf(p, Len(rx) + 1)
         taken == [queue EXCEPT !.seq_next = IF queue.hash = 0 THEN skb.seq ELSE @,
                                !.age      = 0,
                                !.hash     = hash]
     IN  /\ ofo' = [ofo EXCEPT ![idle[i]] = Advance(taken, skb)]
         /\ Requeue(i)
         /\ out' = Append(out, skb.pkts)
  /\ UNCHANGED <<gro_list, gro_count>>

(* A queue taken for data: an unused one starts at this segment.           *)
TakenForData(queue, skb) ==
  IF queue.hash = 0 THEN [queue EXCEPT !.seq_next = skb.seq, !.flushed = FALSE]
                    ELSE queue

(* Flush point 10: the segment starts before what was already passed up.   *)
ReceiveStale(p) ==
  /\ Receiving(p)
  /\ p.kind = "data"
  /\ EntryOf(p.flow) = 0
  /\ LET hash  == TcpHash[p.flow]
         i     == IdleIndex(hash)
         skb   == SkbOf(p, Len(rx) + 1)
         queue == TakenForData(napi_get_tcp_ofo_queue(hash), skb)
     IN  /\ before(skb.seq, queue.seq_next)
         /\ ofo' = [ofo EXCEPT ![idle[i]] = Advance([queue EXCEPT !.age = 0], skb)]
         /\ Requeue(i)
         /\ out' = Append(out, skb.pkts)
  /\ UNCHANGED <<gro_list, gro_count>>

(* The flow starts to hold packets; the oldest flow makes room when the    *)
(* list is full.                                                           *)
ReceiveHold(p) ==
  /\ Receiving(p)
  /\ p.kind = "data"
  /\ EntryOf(p.flow) = 0
  /\ LET hash  == TcpHash[p.flow]
         i     == IdleIndex(hash)
         q     == idle[i]
         skb   == SkbOf(p, Len(rx) + 1)
         queue == TakenForData(napi_get_tcp_ofo_queue(hash), skb)
         held  == [queue EXCEPT !.items = <<skb>>, !.skb_num = 1, !.age = 0, !.hash = hash]
         entry == [flow |-> p.flow, q |-> q, head |-> skb.id]
         last  == gro_list[Len(gro_list)]
         old   == ofo[last.q]
     IN  /\ ~before(skb.seq, queue.seq_next)
         /\ \/ /\ gro_count < MAX_GRO_SKBS
               /\ gro_list' = <<entry>> \o gro_list
               /\ gro_count' = gro_count + 1
               /\ idle' = RemoveAt(idle, i)
               /\ ofo' = [ofo EXCEPT ![q] = held]
               /\ UNCHANGED out
            \/ /\ gro_count >= MAX_GRO_SKBS
               /\ gro_list' = <<entry>> \o Front(gro_list)
               /\ idle' = <<last.q>> \o RemoveAt(idle, i)
               /\ ofo' = [ofo EXCEPT ![q] = held,
                                     ![last.q] = Complete(old, Len(old.items))]
               /\ out' = out \o PktsOf(old.items)
               /\ UNCHANGED gro_count

napi_gro_receive(p) ==
  \/ ReceiveBypass(p)
  \/ ReceiveFound(p)
  \/ ReceiveControl(p)
  \/ ReceiveStale(p)
  \/ ReceiveHold(p)

-----------------------------------------------------------------------------
(* napi_gro_flush visits gro_list from its oldest entry to its youngest.   *)
FlushBegin(old) ==
  /\ cursor = 0 /\ gro_list # <<>>
  /\ cursor' = Len(gro_list)
  /\ flush_old' = old
  /\ UNCHANGED <<rx, out, freed, engine_vars>>

FlushEntry ==
  /\ cursor > 0
  /\ LET q     == gro_list[cursor].q
         k     == CompleteCount(ofo[q], flush_old)
         queue == Complete(ofo[q], k)
     IN  /\ ofo' = [ofo EXCEPT ![q] = queue]
         /\ out' = out \o PktsOf(SubSeq(ofo[q].items, 1, k))
         /\ \/ /\ queue.items = <<>>
               /\ gro_list' = RemoveAt(gro_list, cursor)
               /\ gro_count' = gro_count - 1
               /\ idle' = <<q>> \o idle
            \/ /\ queue.items # <<>>
               /\ gro_list' = [gro_list EXCEPT ![cursor].head = queue.items[1].id]
               /\ UNCHANGED <<gro_count, idle>>
  /\ cursor' = cursor - 1
  /\ UNCHANGED <<rx, freed, flush_old>>

(* napi_clean_tcp_ofo_queue: an idle queue forgets its flow after 100 ms.  *)
napi_clean_tcp_ofo_queue ==
  /\ cursor = 0 /\ ~Deleted
  /\ ofo' = [q \in Queues |->
               IF (\E i \in 1..Len(idle) : idle[i] = q) /\ ofo[q].age > CleanTimeout
               THEN ResetQueue(ofo[q]) ELSE ofo[q]]
  /\ UNCHANGED <<rx, out, freed, idle, gro_list, gro_count, cursor, flush_old>>

(* netif_napi_del frees the packets of each flow and its queue, then the   *)
(* idle queues.                                                            *)
HeldItems == [i \in 1..Len(gro_list) |-> ofo[gro_list[i].q].items]

netif_napi_del ==
  /\ cursor = 0 /\ ~Deleted
  /\ freed' = <<[queues |-> [i \in 1..Len(gro_list) |-> gro_list[i].q] \o idle,
                 skbs   |-> [i \in 1..Len(gro_list) |-> PktsOf(HeldItems[i])]]>>
  /\ gro_list' = <<>> /\ gro_count' = 0 /\ idle' = <<>>
  /\ UNCHANGED <<rx, out, ofo, cursor, flush_old>>

(* The clock advances.                                                     *)
Tick ==
  /\ ~Deleted
  /\ ofo' = [q \in Queues |-> [ofo[q] EXCEPT !.age = IF @ < AgeMax THEN @ + 1 ELSE @]]
  /\ UNCHANGED <<rx, out, freed, idle, gro_list, gro_count, cursor, flush_old>>

Next ==
  \/ \E p \in Packets : napi_gro_receive(p)
  \/ \E old \in BOOLEAN : FlushBegin(old)
  \/ FlushEntry
  \/ napi_clean_tcp_ofo_queue
  \/ netif_napi_del
  \/ Tick

Spec == Init /\ [][Next]_vars

-----------------------------------------------------------------------------
(* Properties.                                                             *)

Ids == 1..Len(rx)

EntryType == [flow : Flows, q : Queues, head : Nat]

(* Every variable has the shape the code gives it.                         *)
TypeOK ==
  /\ rx \in Seq(Packets)
  /\ out \in Seq(Seq(Nat))
  /\ freed \in Seq([queues : Seq(Queues), skbs : Seq(Seq(Seq(Nat)))])
  /\ ofo \in [Queues -> QueueType]
  /\ idle \in Seq(Queues)
  /\ gro_list \in Seq(EntryType)
  /\ gro_count \in Nat
  /\ cursor \in 0..Len(gro_list)
  /\ flush_old \in BOOLEAN

(* The queues in use, those of gro_list first.                             *)
PoolSeq == [i \in 1..Len(gro_list) |-> gro_list[i].q] \o idle

(* gro_count is the length of gro_list and never exceeds MAX_GRO_SKBS, and *)
(* every queue allocated by netif_napi_add is at all times either idle or  *)
(* attached to exactly one flow.  Since there is one queue more than flows *)
(* that may hold packets, napi_get_tcp_ofo_queue, which dereferences the   *)
(* last idle queue without a check (dev.c:4179), always finds one; and     *)
(* netif_napi_del frees each queue exactly once.                           *)
PoolAccounting ==
  /\ gro_count = Len(gro_list)
  /\ gro_count <= MAX_GRO_SKBS
  /\ LET pool == IF Deleted THEN freed[1].queues ELSE PoolSeq
     IN  /\ Len(pool) = MAX_GRO_SKBS + 1
         /\ \A i, j \in 1..Len(pool) : pool[i] = pool[j] => i = j

(* "need to make sure the one in gro_list is always the head of the        *)
(* ofo_queue" (tcp_offload.c:334): the skb linked into gro_list for a flow *)
(* is the first skb of its queue, whichever of the insertions, merges and  *)
(* partial flushes came last, so a queue in gro_list is never empty.       *)
HeadIsQueueHead ==
  \A i \in 1..Len(gro_list) :
    LET items == ofo[gro_list[i].q].items
    IN  items # <<>> /\ gro_list[i].head = items[1].id

(* Where packets can be, each place as a list of the ids in every skb:     *)
(* the queue of a flow that gro_list reaches, a flow's skbs that were      *)
(* freed, and what was passed up.                                          *)
Piles ==
  [i \in 1..Len(gro_list) |-> PktsOf(HeldItems[i])]
    \o (IF Deleted THEN freed[1].skbs ELSE <<>>)
    \o <<out>>

Places(piles) ==
  UNION {UNION {{<<i, j, k>> : k \in 1..Len(piles[i][j])}
                  : j \in 1..Len(piles[i])} : i \in 1..Len(piles)}

EachInOnePlace(piles, ids) ==
  LET at(p) == piles[p[1]][p[2]][p[3]]
  IN  /\ {at(p) : p \in Places(piles)} = ids
      /\ \A p, q \in Places(piles) : at(p) = at(q) => p = q

(* Every packet handed to napi_gro_receive is in exactly one place: held   *)
(* in the queue of a flow that gro_list still reaches, passed up the stack *)
(* once, or freed once by netif_napi_del.                                  *)
Conservation == EachInOnePlace(Piles, Ids)

(* The skbs of a queue are ordered by sequence number, skb_num counts      *)
(* them, and they belong to the flow that gro_list says.                   *)
QueueOrdered ==
  \A i \in 1..Len(gro_list) :
    LET queue == ofo[gro_list[i].q]
        items == queue.items
    IN  /\ queue.skb_num = Len(items)
        /\ \A j \in 1..(Len(items) - 1) : before(items[j].seq, items[j + 1].seq)
        /\ \A j \in 1..Len(items) : \A k \in 1..Len(items[j].pkts) :
             rx[items[j].pkts[k]].flow = gro_list[i].flow

(* The packets merged into one skb follow one another without a gap, carry *)
(* the same header, are all of the size of the first except possibly the   *)
(* last, which may be shorter, and only the last may carry PSH: the skb    *)
(* can be cut back into the very packets that were received.               *)
Resegmentable(pkts) ==
  \A k \in 1..(Len(pkts) - 1) :
    LET a == rx[pkts[k]]
        b == rx[pkts[k + 1]]
    IN  /\ SeqEnd(a) = b.seq
        /\ a.hdr = b.hdr
        /\ a.len = rx[pkts[1]].len
        /\ b.len <= a.len
        /\ ~a.psh

MergesResegmentable ==
  /\ \A i \in 1..Len(out) : Resegmentable(out[i])
  /\ \A i \in 1..Len(gro_list) :
       \A j \in 1..Len(HeldItems[i]) : Resegmentable(HeldItems[i][j].pkts)

(* No two queues remember the same port pair, so a flow cannot be split    *)
(* over two queues with different ideas of seq_next.  It holds because the *)
(* idle list is kept in order of age, so the queues that                   *)
(* napi_clean_tcp_ofo_queue resets are behind those it leaves alone.       *)
OneQueuePerHash ==
  ~Deleted => \A p, q \in Queues :
                ofo[p].hash = ofo[q].hash /\ ofo[p].hash # 0 => p = q

(* Once a queue has passed something up, seq_next never moves back while   *)
(* the queue remembers the same flow: skb_gro_flush assigns it without     *)
(* max_seq.                                                                *)
SeqNextMonotone ==
  [][\A q \in Queues :
       ofo[q].hash # 0 /\ ofo'[q].hash = ofo[q].hash /\ ofo[q].flushed
         => ~before(ofo'[q].seq_next, ofo[q].seq_next)]_vars

(* The packets passed up by a step, in order.                              *)
NewlyOut == FlattenSeq(SubSeq(out', Len(out) + 1, Len(out')))

StillHeld == {id \in 1..Len(rx') :
                \E i \in 1..Len(gro_list') : \E j \in 1..Len(HeldItems'[i]) :
                  \E k \in 1..Len(HeldItems'[i][j].pkts) : HeldItems'[i][j].pkts[k] = id}

Overtakes(x, y) == rx'[x].flow = rx'[y].flow /\ before(rx'[y].seq, rx'[x].seq)

InOrder ==
  /\ \A i \in 1..Len(NewlyOut) : \A y \in StillHeld : ~Overtakes(NewlyOut[i], y)
  /\ \A i, j \in 1..Len(NewlyOut) : i < j => ~Overtakes(NewlyOut[i], NewlyOut[j])

(* The engine does not itself reorder a flow: a packet is never passed up  *)
(* while an earlier packet of its flow is held back, nor ahead of one that *)
(* the same step passes up after it.                                       *)
NoOvertaking == [][InOrder]_vars

(* Distinct segments of equal length without PSH and with the same header, *)
(* too few of them to fill an skb.                                         *)
IsBulk(packets) ==
  /\ Len(packets) <= MaxFrags
  /\ \A i, j \in 1..Len(packets) :
       LET p == packets[i]
           q == packets[j]
       IN  /\ p.kind = "data" /\ ~p.psh
           /\ p.hdr = q.hdr /\ p.len = q.len
           /\ p = q => i = j

(* Bulk data, which is what the engine is made for, is never reordered,    *)
(* however it arrives and whenever it is flushed.                          *)
BulkNotOvertaken == [][IsBulk(rx') => InOrder]_vars
=============================================================================
