---------------------------- MODULE ReorderPair -----------------------------
(***************************************************************************)
(* The netfilter queue handler of kernel_modules/reorder_fedora: at most   *)
(* one packet that is ahead of seq_next is put aside, and the next packet  *)
(* of any kind releases it, so that two neighbours which the network has   *)
(* exchanged reach TCP in order.  Each call is one step, as in DupackDrop. *)
(***************************************************************************)
EXTENDS Integers, Sequences

CONSTANTS
  SeqRange,     \* size of the sequence-number space
  Packets,      \* the packets that may arrive, [syn, seq, len]
  MaxPackets    \* bound on their number

VARIABLES
  rx,            \* the packets taken, in order of arrival
  given,         \* those reinjected, in order, each with NF_ACCEPT
  seq_next,
  entry_saved,   \* position in rx of the one put aside, 0 for none so far
  has_reorder,
  abandoned      \* those put aside and then forgotten

vars == <<rx, given, seq_next, entry_saved, has_reorder, abandoned>>

Accept(id) == [id |-> id, v |-> "accept"]

Init ==
  /\ rx = <<>> /\ given = <<>>
  /\ seq_next = 0 /\ entry_saved = 0 /\ has_reorder = FALSE
  /\ abandoned = {}

-----------------------------------------------------------------------------
Before(a, b) == (a - b) % SeqRange >= SeqRange \div 2

SeqEnd(p) == (p.seq + p.len) % SeqRange

This == Len(rx) + 1

(* seq_saved and length_saved.                                             *)
saved == rx[entry_saved]

(* A SYN starts over.  What was put aside before is not released.          *)
EnqueueSyn(p) ==
  /\ p.syn
  /\ seq_next' = (p.seq + 1) % SeqRange
  /\ has_reorder' = FALSE
  /\ given' = Append(given, Accept(This))
  /\ abandoned' = IF has_reorder THEN abandoned \cup {entry_saved} ELSE abandoned
  /\ UNCHANGED entry_saved

EnqueueEmpty(p) ==
  /\ ~p.syn /\ p.len = 0
  /\ given' = IF has_reorder THEN given \o <<Accept(entry_saved), Accept(This)>>
                             ELSE Append(given, Accept(This))
  /\ has_reorder' = FALSE
  /\ UNCHANGED <<seq_next, entry_saved, abandoned>>

(* Mutant of EnqueueOld: old data releases what was put aside, behind it.  *)
EnqueueOldReleases(p) ==
  /\ ~p.syn /\ p.len > 0 /\ Before(p.seq, seq_next)
  /\ given' = given \o <<Accept(This), Accept(entry_saved)>>
  /\ UNCHANGED <<seq_next, entry_saved, has_reorder, abandoned>>

EnqueueOld(p) ==
  /\ ~p.syn /\ p.len > 0 /\ Before(p.seq, seq_next)
  /\ given' = Append(given, Accept(This))
  /\ UNCHANGED <<seq_next, entry_saved, has_reorder, abandoned>>

IsNew(p) == ~p.syn /\ p.len > 0 /\ ~Before(p.seq, seq_next)

EnqueueNext(p) ==
  /\ IsNew(p) /\ ~has_reorder
  /\ p.seq = seq_next
  /\ seq_next' = SeqEnd(p)
  /\ given' = Append(given, Accept(This))
  /\ UNCHANGED <<entry_saved, has_reorder, abandoned>>

EnqueueSave(p) ==
  /\ IsNew(p) /\ ~has_reorder
  /\ p.seq # seq_next
  /\ entry_saved' = This
  /\ has_reorder' = TRUE
  /\ UNCHANGED <<given, seq_next, abandoned>>

(* Mutant of EnqueuePair: in the order of arrival.                         *)
EnqueuePairUnsorted(p) ==
  /\ IsNew(p) /\ has_reorder
  /\ seq_next' = IF Before(SeqEnd(p), SeqEnd(saved)) THEN SeqEnd(saved) ELSE SeqEnd(p)
  /\ given' = given \o <<Accept(entry_saved), Accept(This)>>
  /\ has_reorder' = FALSE
  /\ UNCHANGED <<entry_saved, abandoned>>

(* The packet and the one put aside go in the order of their numbers.      *)
EnqueuePair(p) ==
  /\ IsNew(p) /\ has_reorder
  /\ seq_next' = IF Before(SeqEnd(p), SeqEnd(saved)) THEN SeqEnd(saved) ELSE SeqEnd(p)
  /\ given' = IF Before(p.seq, saved.seq)
              THEN given \o <<Accept(This), Accept(entry_saved)>>
              ELSE given \o <<Accept(entry_saved), Accept(This)>>
  /\ has_reorder' = FALSE
  /\ UNCHANGED <<entry_saved, abandoned>>

reorder_queue_enqueue_packet(p) ==
  /\ Len(rx) < MaxPackets
  /\ rx' = Append(rx, p)
  /\ \/ EnqueueSyn(p) \/ EnqueueEmpty(p)
     \/ EnqueueOld(p) \/ EnqueueNext(p)
     \/ EnqueueSave(p) \/ EnqueuePair(p)

Next == \E p \in Packets : reorder_queue_enqueue_packet(p)

Spec == Init /\ [][Next]_vars

-----------------------------------------------------------------------------
(* Properties.                                                             *)

Saved == IF has_reorder THEN {entry_saved} ELSE {}

(* The handler is a packet buffer; as in DupackDrop each SYN may make it   *)
(* forget a packet, which then waits for ever.                             *)
Buffer == INSTANCE PacketBuffer WITH
  Capacity <- MaxPackets + 1,
  Verdicts <- {"accept"},
  taken    <- Len(rx),
  held     <- Saved \cup abandoned

PairBufferSpec == Buffer!Spec

(* A SYN and then data that starts where the SYN says.                     *)
OneConnection ==
  /\ Len(rx) > 0 /\ rx[1].syn
  /\ \A i \in 2..Len(rx) :
       ~rx[i].syn /\ rx[i].len > 0 /\ ~Before(rx[i].seq, (rx[1].seq + 1) % SeqRange)
  /\ \A i, j \in 2..Len(rx) : rx[i].seq = rx[j].seq => i = j

(* The i-th packet has been overtaken by two others, or has overtaken two. *)
Displaced(i) ==
  \/ \E j, k \in 2..(i - 1) :
       j # k /\ Before(rx[i].seq, rx[j].seq) /\ Before(rx[i].seq, rx[k].seq)
  \/ \E p, q \in Packets \ {rx[j] : j \in 1..i} :
       /\ p.len > 0 /\ q.len > 0 /\ p.seq # q.seq
       /\ Before(p.seq, rx[i].seq) /\ Before(q.seq, rx[i].seq)

(* What the handler is for: if the network has done no more to a           *)
(* connection than to exchange neighbours, TCP sees no reordering at all.  *)
OrderRestored ==
  OneConnection /\ (\A i \in 2..Len(rx) : ~Displaced(i))
    => \A i, j \in 1..Len(given) : i < j => ~Before(rx[given[j].id].seq, rx[given[i].id].seq)

=============================================================================
