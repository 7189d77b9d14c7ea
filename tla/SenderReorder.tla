--------------------------- MODULE SenderReorder ----------------------------
(***************************************************************************)
(* The netfilter queue handler of kernel_modules/sender_reorder_3.2, which *)
(* reorders what a sender transmits to port 5001: every other packet is    *)
(* put aside and sent behind its successor.  A packet with one of the      *)
(* flags SYN, FIN, URG, RST, PSH (ctl) is sent behind the one put aside.   *)
(* A connection transmits under its socket lock, so the calls for one      *)
(* connection do not overlap and each is one step; SenderReorderSmp is     *)
(* about several connections.                                              *)
(***************************************************************************)
EXTENDS Integers, Sequences

CONSTANT MaxPackets     \* bound on the packets transmitted

VARIABLES
  tx,            \* for each packet transmitted, whether it is ctl
  given,         \* the verdicts, in order
  entry_saved    \* the packet put aside, 0 for NULL

vars == <<tx, given, entry_saved>>

Accept(id) == [id |-> id, v |-> "accept"]

Init == tx = <<>> /\ given = <<>> /\ entry_saved = 0

-----------------------------------------------------------------------------
This == Len(tx) + 1

(* Mutant of EnqueueControl: what was put aside stays there.               *)
EnqueueControlKeeps ==
  /\ tx' = Append(tx, TRUE)
  /\ given' = Append(given, Accept(This))
  /\ UNCHANGED entry_saved

EnqueueControl ==
  /\ tx' = Append(tx, TRUE)
  /\ given' = IF entry_saved # 0 THEN given \o <<Accept(entry_saved), Accept(This)>>
                                 ELSE Append(given, Accept(This))
  /\ entry_saved' = 0

EnqueueSave ==
  /\ entry_saved = 0
  /\ tx' = Append(tx, FALSE)
  /\ entry_saved' = This
  /\ UNCHANGED given

EnqueueSwap ==
  /\ entry_saved # 0
  /\ tx' = Append(tx, FALSE)
  /\ given' = given \o <<Accept(This), Accept(entry_saved)>>
  /\ entry_saved' = 0

sender_reorder_enqueue_packet == EnqueueControl \/ EnqueueSave \/ EnqueueSwap

Next == Len(tx) < MaxPackets /\ sender_reorder_enqueue_packet

Spec == Init /\ [][Next]_vars

-----------------------------------------------------------------------------
(* Properties.                                                             *)

(* No packet is overtaken by more than one other, and none overtakes more  *)
(* than one; a ctl packet takes no part in this.                           *)
NeighboursOnly ==
  \A i, j \in 1..Len(given) :
    i < j /\ given[j].id < given[i].id =>
      /\ j = i + 1 /\ given[i].id = given[j].id + 1
      /\ ~tx[given[i].id] /\ ~tx[given[j].id]
=============================================================================
