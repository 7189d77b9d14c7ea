----------------------------- MODULE DupackDrop -----------------------------
(***************************************************************************)
(* The netfilter queue handler of kernel_modules/dupack_drop,              *)
(* dupack_drop_fedora and reorder, which hides single duplicate            *)
(* acknowledgements from the sender: the first duplicate is put aside; a   *)
(* newer acknowledgement drops it, a second duplicate releases it.  The    *)
(* copies differ in how they compare acknowledgement numbers.              *)
(*                                                                         *)
(* The handler runs in the softirq of the receive queue of the connection, *)
(* so its calls for one connection do not overlap and each is one step.    *)
(***************************************************************************)
EXTENDS Integers, Sequences

CONSTANTS
  SeqRange,     \* size of the sequence-number space
  Acks,         \* the acknowledgements that may arrive, [syn, ack]
  MaxPackets    \* bound on their number

VARIABLES
  rx,              \* the acknowledgements taken, in order of arrival
  given,           \* the verdicts, in order
  entry_saved,     \* position in rx of the one put aside, 0 for none so far
  dupack_count,
  ack_seq_old,
  abandoned        \* those put aside and then forgotten

vars == <<rx, given, entry_saved, dupack_count, ack_seq_old, abandoned>>

Accept(id) == [id |-> id, v |-> "accept"]

Drop(id) == [id |-> id, v |-> "drop"]

Init ==
  /\ rx = <<>> /\ given = <<>>
  /\ entry_saved = 0 /\ dupack_count = 0 /\ ack_seq_old = 0
  /\ abandoned = {}

-----------------------------------------------------------------------------
(* Serial numbers: a is ahead of b.                                        *)
Ahead(a, b) == a # b /\ (a - b) % SeqRange < SeqRange \div 2

(* dupack_drop and reorder compare the numbers as unsigned integers, which *)
(* goes wrong when they wrap around; the properties hold for the copy that *)
(* was corrected.                                                          *)
IsNewerUnsigned(new, old) == new > old

IsNewer(new, old) == Ahead(new, old)

(* The position of the acknowledgement being handled.                      *)
This == Len(rx) + 1

Arrives(p) == Len(rx) < MaxPackets /\ rx' = Append(rx, p)

(* A SYN starts over.  What was put aside before is not released.          *)
EnqueueSyn(p) ==
  /\ Arrives(p)
  /\ p.syn
  /\ ack_seq_old' = p.ack
  /\ dupack_count' = 0
  /\ given' = Append(given, Accept(This))
  /\ abandoned' = IF dupack_count = 1 THEN abandoned \cup {entry_saved} ELSE abandoned
  /\ UNCHANGED entry_saved

(* Mutant of EnqueueNewer: what was put aside is dropped whatever became   *)
(* of it.                                                                  *)
EnqueueNewerDropsAlways(p) ==
  /\ Arrives(p)
  /\ ~p.syn /\ IsNewer(p.ack, ack_seq_old)
  /\ ack_seq_old' = p.ack
  /\ dupack_count' = 0
  /\ given' = IF dupack_count >= 1 THEN given \o <<Drop(entry_saved), Accept(This)>>
                                   ELSE Append(given, Accept(This))
  /\ UNCHANGED <<entry_saved, abandoned>>

EnqueueNewer(p) ==
  /\ Arrives(p)
  /\ ~p.syn /\ IsNewer(p.ack, ack_seq_old)
  /\ ack_seq_old' = p.ack
  /\ dupack_count' = 0
  /\ given' = IF dupack_count = 1 THEN given \o <<Drop(entry_saved), Accept(This)>>
                                  ELSE Append(given, Accept(This))
  /\ UNCHANGED <<entry_saved, abandoned>>

IsDuplicate(p) == ~p.syn /\ ~IsNewer(p.ack, ack_seq_old) /\ p.ack = ack_seq_old

(* Mutant of EnqueueFirstDup: the wrong entry is remembered.               *)
EnqueueFirstDupNext(p) ==
  /\ Arrives(p)
  /\ IsDuplicate(p) /\ dupack_count = 0
  /\ entry_saved' = This + 1
  /\ dupack_count' = 1
  /\ UNCHANGED <<given, ack_seq_old, abandoned>>

EnqueueFirstDup(p) ==
  /\ Arrives(p)
  /\ IsDuplicate(p) /\ dupack_count = 0
  /\ entry_saved' = This
  /\ dupack_count' = 1
  /\ UNCHANGED <<given, ack_seq_old, abandoned>>

EnqueueSecondDup(p) ==
  /\ Arrives(p)
  /\ IsDuplicate(p) /\ dupack_count = 1
  /\ given' = given \o <<Accept(entry_saved), Accept(This)>>
  /\ dupack_count' = 2
  /\ UNCHANGED <<entry_saved, ack_seq_old, abandoned>>

EnqueueMoreDup(p) ==
  /\ Arrives(p)
  /\ IsDuplicate(p) /\ dupack_count = 2
  /\ given' = Append(given, Accept(This))
  /\ UNCHANGED <<entry_saved, dupack_count, ack_seq_old, abandoned>>

(* Mutant of EnqueueOlder: an acknowledgement overtaken by a newer one is  *)
(* taken for a duplicate of it.                                            *)
EnqueueOlderSaved(p) ==
  /\ Arrives(p)
  /\ ~p.syn /\ ~IsNewer(p.ack, ack_seq_old) /\ p.ack # ack_seq_old
  /\ entry_saved' = This
  /\ dupack_count' = 1
  /\ UNCHANGED <<given, ack_seq_old, abandoned>>

EnqueueOlder(p) ==
  /\ Arrives(p)
  /\ ~p.syn /\ ~IsNewer(p.ack, ack_seq_old) /\ p.ack # ack_seq_old
  /\ given' = Append(given, Accept(This))
  /\ UNCHANGED <<entry_saved, dupack_count, ack_seq_old, abandoned>>

dupack_drop_enqueue_packet(p) ==
  \/ EnqueueSyn(p) \/ EnqueueNewer(p)
  \/ EnqueueFirstDup(p) \/ EnqueueSecondDup(p) \/ EnqueueMoreDup(p)
  \/ EnqueueOlder(p)

Next == \E p \in Acks : dupack_drop_enqueue_packet(p)

Spec == Init /\ [][Next]_vars

-----------------------------------------------------------------------------
(* Properties.                                                             *)

Saved == IF dupack_count = 1 THEN {entry_saved} ELSE {}

(* The handler is a packet buffer: every acknowledgement gets one verdict, *)
(* the one put aside later than the others; but each SYN may abandon one,  *)
(* which then waits for ever, so that no number bounds those that wait.    *)
Buffer == INSTANCE PacketBuffer WITH
  Capacity <- MaxPackets + 1,
  Verdicts <- {"accept", "drop"},
  taken    <- Len(rx),
  held     <- Saved \cup abandoned

AckBufferSpec == Buffer!Spec

Accepted == {given[i].id : i \in {j \in 1..Len(given) : given[j].v = "accept"}}

(* What the sender does not get to see carries no news: whenever an        *)
(* acknowledgement is put aside, dropped or abandoned, one with the same   *)
(* number that arrived before it was accepted.  Number 0 is the initial    *)
(* value of ack_seq_old, and nothing was accepted for it.                  *)
NothingNewWithheld ==
  \A id \in 1..Len(rx) :
    id \notin Accepted /\ rx[id].ack # 0 =>
      \E j \in 1..(id - 1) : j \in Accepted /\ rx[j].ack = rx[id].ack

(* Only a SYN makes the handler forget the acknowledgement it has put      *)
(* aside; a newer one or a second duplicate settles it at once, even when  *)
(* the numbers wrap around between them.                                   *)
ProgressSettlesSaved ==
  [][\A id \in Saved :
       LET p == rx'[Len(rx')]
       IN  rx' # rx /\ ~p.syn /\ (p.ack = ack_seq_old \/ Ahead(p.ack, ack_seq_old))
             => \E i \in (Len(given) + 1)..Len(given') : given'[i].id = id]_vars
=============================================================================
