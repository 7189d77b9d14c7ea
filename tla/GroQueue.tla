------------------------------ MODULE GroQueue ------------------------------
(***************************************************************************)
(* The out-of-order queue of one TCP flow in the modified GRO layer of     *)
(* linux-4.1: what tcp_gro_receive does to the queue when a segment of a   *)
(* flow that is already held arrives, how two skbs are merged              *)
(* (skb_gro_merge), and how a prefix of the queue is passed up             *)
(* (skb_gro_flush).  Everything here is a function of the queue and the    *)
(* segment; GroEngine adds the pool of queues and the list of flows.       *)
(*                                                                         *)
(* An skb is abstracted to the fields these decisions read: seq and len of *)
(* its TCP payload, the PSH flag, hdr (everything skb_gro_merge requires   *)
(* to be equal: TOS, ack_seq, CWR/ECE/ACK, doff, options), gso (gso_size), *)
(* gso_end, and pkts, the ids of the packets merged into it in the order   *)
(* of their payload.  Len(pkts) stands for both NAPI_GRO_CB(skb)->count    *)
(* and nr_frags: drivers that keep headers out of the linear part deliver  *)
(* one fragment per packet.  id names the sk_buff itself.                  *)
(***************************************************************************)
EXTENDS Integers, Sequences, SequencesExt

CONSTANTS
  SeqRange,      \* size of the sequence-number space (2^32 in the code)
  MaxFrags,      \* MAX_SKB_FRAGS
  MaxLen         \* payload at which p->len + len reaches 65536

ASSUME SeqRangeAssumption == SeqRange \in Nat /\ SeqRange % 2 = 0 /\ SeqRange > 0
ASSUME MaxFragsAssumption == MaxFrags \in Nat \ {0}
ASSUME MaxLenAssumption == MaxLen \in Nat \ {0}

-----------------------------------------------------------------------------
(* Serial-number arithmetic of include/net/tcp.h, and max_seq of dev.c.    *)

before(a, b) == (a - b) % SeqRange >= SeqRange \div 2

after(a, b) == before(b, a)

max_seq(a, b) == IF before(a, b) THEN b ELSE a

(* Mutant of SeqEnd: the sum is not reduced to the width of a __u32.       *)
SeqEndUnwrapped(skb) == skb.seq + skb.len

SeqEnd(skb) == (skb.seq + skb.len) % SeqRange

-----------------------------------------------------------------------------
(* skb_gro_merge(p, s): may the payload of s be chained behind that of p?  *)

(* Mutant of MergeFail: an skb that ends in a short segment is extended.   *)
MergeFailNoGsoEnd(p, s) ==
  \/ p.psh
  \/ p.hdr # s.hdr
  \/ p.gso > s.gso /\ Len(s.pkts) > 1
  \/ p.gso < s.gso

MergeFail(p, s) ==
  \/ p.psh
  \/ p.hdr # s.hdr
  \/ p.gso_end
  \/ p.gso > s.gso /\ Len(s.pkts) > 1
  \/ p.gso < s.gso

Merge2Big(p, s) ==
  \/ p.len + s.len >= MaxLen
  \/ Len(p.pkts) + Len(s.pkts) > MaxFrags

Mergeable(p, s) == ~MergeFail(p, s) /\ ~Merge2Big(p, s)

(* The error of a failed merge is SKB_MERGE_2BIG only when the header and  *)
(* gso checks, which come first, have passed.                              *)
ErrIs2Big(p, s) == ~MergeFail(p, s) /\ Merge2Big(p, s)

Merged(p, s) ==
  [p EXCEPT !.psh     = s.psh,
            !.gso_end = s.gso_end \/ p.gso > s.gso,
            !.len     = p.len + s.len,
            !.pkts    = p.pkts \o s.pkts]

-----------------------------------------------------------------------------
(* The queue itself.  A queue record has the fields of sk_buff_head_gro:   *)
(* hash, seq_next, flushed, age (now - timestamp), skb_num, and items, the *)
(* doubly linked list of skbs.  qlen, which is only printed, is left out.  *)

SkbType ==
  [id : Nat, seq : 0..(SeqRange - 1), len : Nat, psh : BOOLEAN, hdr : Nat,
   gso : Nat, gso_end : BOOLEAN, pkts : Seq(Nat)]

QueueType ==
  [hash : Nat, seq_next : 0..(SeqRange - 1), flushed : BOOLEAN, age : Nat,
   skb_num : Int, items : Seq(SkbType)]

(* The ids merged into each of a list of skbs.                             *)
PktsOf(items) == [i \in 1..Len(items) |-> items[i].pkts]

(* An outcome of tcp_gro_receive: the queue, the skbs passed up so far, in *)
(* order, the id of the skb that stands for the flow in gro_list, and      *)
(* whether the received skb was kept (same_flow) or must be delivered      *)
(* (flush).                                                                *)
Outcome(queue, out, head, kept) ==
  [queue |-> queue, out |-> out, head |-> head, kept |-> kept]

(* skb_gro_flush(ofo_queue, items[k]), together with the assignment        *)
(* *head = p3 that precedes each of its calls.                             *)
FlushTo(r, k) ==
  LET queue == r.queue
      items == queue.items
  IN  [r EXCEPT
         !.queue = [queue EXCEPT !.items    = SubSeq(items, k + 1, Len(items)),
                                 !.seq_next = SeqEnd(items[k]),
                                 !.age      = 0,
                                 !.flushed  = TRUE,
                                 !.skb_num  = queue.skb_num - k],
         !.out  = r.out \o SubSeq(items, 1, k),
         !.head = items[k + 1].id]

(* Mutant of Insert: gro_list keeps pointing at the skb that was first.    *)
InsertKeepHead(r, k, skb) ==
  LET queue == r.queue
  IN  [r EXCEPT !.queue = [queue EXCEPT !.items   = InsertAt(queue.items, k, skb),
                                        !.skb_num = queue.skb_num + 1],
                !.kept  = TRUE]

(* skb is linked into the queue in front of items[k] (k = Len + 1: behind  *)
(* the last one); it becomes the flow's gro_list entry when it is first.   *)
Insert(r, k, skb) ==
  LET queue == r.queue
  IN  [r EXCEPT !.queue = [queue EXCEPT !.items   = InsertAt(queue.items, k, skb),
                                        !.skb_num = queue.skb_num + 1],
                !.head  = IF k = 1 THEN skb.id ELSE r.head,
                !.kept  = TRUE]

(* items[k] is replaced by skb, into which it was merged or which was      *)
(* merged into it.                                                         *)
Replace(r, k, skb) ==
  LET queue == r.queue
  IN  [r EXCEPT !.queue = [queue EXCEPT !.items = [queue.items EXCEPT ![k] = skb]],
                !.head  = IF k = 1 THEN skb.id ELSE r.head,
                !.kept  = TRUE]

(* items[k] is unlinked; it was merged into its predecessor.               *)
Unlink(r, k) ==
  LET queue == r.queue
  IN  [r EXCEPT !.queue = [queue EXCEPT !.items   = RemoveAt(queue.items, k),
                                        !.skb_num = queue.skb_num - 1]]

(* tcp_gro_receive sets NAPI_GRO_CB(skb)->flush: the caller delivers skb.  *)
Deliver(r) == [r EXCEPT !.kept = FALSE]

(* The walk over the queue stops at items[k]; one operator per branch.     *)
(* inseq is in_seq: where the in-sequence run that starts at seq_next ends *)
(* in front of items[k].                                                   *)

(* Mutant of StopsBefore: skb is linked behind items[k].                   *)
StopsBeforeInsertsBehind(r, k, skb, inseq) ==
  IF skb.psh /\ skb.seq = inseq
  THEN Deliver(IF k > 1 THEN FlushTo(r, k - 1) ELSE r)
  ELSE Insert(r, k + 1, skb)

(* before(seq_next, seq2): a gap remains between skb and items[k].         *)
StopsBefore(r, k, skb, inseq) ==
  IF skb.psh /\ skb.seq = inseq
  THEN Deliver(IF k > 1 THEN FlushTo(r, k - 1) ELSE r)
  ELSE Insert(r, k, skb)

(* seq_next == seq2: skb ends where items[k] starts.                       *)
JoinsNext(r, k, skb, inseq) ==
  LET p2 == r.queue.items[k]
      n  == Len(r.queue.items)
  IN  CASE Mergeable(skb, p2) ->
             Replace(r, k, Merged(skb, p2))
        [] ~Mergeable(skb, p2) /\ inseq # skb.seq ->
             Insert(r, k, skb)
        [] /\ ~Mergeable(skb, p2) /\ inseq = skb.seq
           /\ ErrIs2Big(skb, p2) \/ p2.psh \/ p2.gso_end ->
             Deliver(IF k < n THEN FlushTo(r, k) ELSE r)
        [] OTHER ->
             Deliver(IF k > 1 THEN FlushTo(r, k - 1) ELSE r)

(* seq == seq_next2, merge refused, items[k] is the last one.              *)
CannotJoinLast(r, k, skb, inseq) ==
  LET isInSeq == inseq = r.queue.items[k].seq
  IN  CASE isInSeq /\ skb.psh  -> Deliver(r)
        [] isInSeq /\ ~skb.psh -> FlushTo(Insert(r, k + 1, skb), k)
        [] OTHER               -> Insert(r, k + 1, skb)

(* seq == seq_next2, merged: skb may have closed the hole to items[k+1].   *)
JoinsPrev(r, k, skb, inseq) ==
  LET p2      == r.queue.items[k]
      p3      == r.queue.items[k + 1]
      n       == Len(r.queue.items)
      m       == Merged(p2, skb)
      isInSeq == inseq = p2.seq
      closes  == k < n /\ SeqEnd(skb) = p3.seq
      joined  == Replace(r, k, m)
      filled  == Unlink(Replace(r, k, Merged(m, p3)), k + 1)
  IN  CASE isInSeq /\ m.psh ->
             IF k < n THEN FlushTo(joined, k) ELSE joined
        [] ~(isInSeq /\ m.psh) /\ closes /\ ~Mergeable(m, p3) ->
             IF isInSeq THEN FlushTo(joined, k) ELSE joined
        [] ~(isInSeq /\ m.psh) /\ closes /\ Mergeable(m, p3) ->
             IF isInSeq /\ p3.psh /\ k + 1 < n THEN FlushTo(filled, k) ELSE filled
        [] OTHER -> joined

-----------------------------------------------------------------------------
(* skb ends behind the start of p2: neither of the first two branches.     *)
EndsPast(skb, p2) == ~before(SeqEnd(skb), p2.seq) /\ SeqEnd(skb) # p2.seq

(* in_seq in front of each position of the queue.                          *)
InSeq(queue) ==
  LET items == queue.items
      run[i \in 1..Len(items)] ==
        IF i = 1 THEN queue.seq_next
        ELSE IF run[i - 1] = items[i - 1].seq THEN SeqEnd(items[i - 1])
        ELSE run[i - 1]
  IN  run

(* The walk passes items[i]: skb lies behind it, and either does not touch *)
(* it or cannot be merged to its end.                                      *)
Passes(items, i, skb) ==
  /\ i < Len(items)
  /\ EndsPast(skb, items[i])
  /\ \/ skb.seq = SeqEnd(items[i]) /\ ~Mergeable(items[i], skb)
     \/ after(skb.seq, SeqEnd(items[i]))

StopIndex(items, skb) == Min({i \in 1..Len(items) : ~Passes(items, i, skb)})

(* Positions passed by the walk whose skb is in sequence but cannot take   *)
(* skb: each is flushed with everything in front of it (flush point 40).   *)
FlushedOnTheWay(queue, skb) ==
  {i \in 1..(StopIndex(queue.items, skb) - 1) :
     /\ skb.seq = SeqEnd(queue.items[i])
     /\ InSeq(queue)[i] = queue.items[i].seq}

(* The walk of tcp_gro_receive over the queue of the flow that skb belongs *)
(* to.                                                                     *)
Walk(queue, head, skb) ==
  LET stop  == StopIndex(queue.items, skb)
      way   == FlushedOnTheWay(queue, skb)
      f     == IF way = {} THEN 0 ELSE Max(way)
      start == Outcome(queue, <<>>, head, FALSE)
      r     == IF f = 0 THEN start ELSE FlushTo(start, f)
      k     == stop - f
      p2    == queue.items[stop]
      inseq == InSeq(queue)[stop]
  IN  CASE before(SeqEnd(skb), p2.seq) -> StopsBefore(r, k, skb, inseq)
        [] SeqEnd(skb) = p2.seq        -> JoinsNext(r, k, skb, inseq)
        [] EndsPast(skb, p2) /\ skb.seq = SeqEnd(p2) ->
             IF Mergeable(p2, skb) THEN JoinsPrev(r, k, skb, inseq)
                                   ELSE CannotJoinLast(r, k, skb, inseq)
        [] EndsPast(skb, p2) /\ after(skb.seq, SeqEnd(p2)) ->
             Insert(r, k + 1, skb)
        [] OTHER -> Deliver(r)

(* Mutant of tcp_gro_receive: seq_next moves back even after a flush.      *)
tcp_gro_receive_ignores_flushed(queue, head, skb, ctl) ==
  CASE ctl -> Outcome(queue, <<>>, head, FALSE)
    [] ~ctl /\ before(skb.seq, queue.seq_next) ->
         Walk([queue EXCEPT !.seq_next = skb.seq], head, skb)
    [] OTHER -> Walk(queue, head, skb)

(* tcp_gro_receive once the flow was found in gro_list: a control segment  *)
(* and one that starts before what was already passed up are delivered at  *)
(* once; before anything was passed up seq_next moves back instead.        *)
tcp_gro_receive(queue, head, skb, ctl) ==
  CASE ctl -> Outcome(queue, <<>>, head, FALSE)
    [] ~ctl /\ before(skb.seq, queue.seq_next) /\ queue.flushed ->
         Outcome(queue, <<>>, head, FALSE)
    [] ~ctl /\ before(skb.seq, queue.seq_next) /\ ~queue.flushed ->
         Walk([queue EXCEPT !.seq_next = skb.seq], head, skb)
    [] OTHER -> Walk(queue, head, skb)
=============================================================================
