------------------------------ MODULE SwapPath ------------------------------
(***************************************************************************)
(* An experiment of this repository end to end: SenderReorder on the       *)
(* sender, a network that keeps the order, ReorderPair on the receiver.    *)
(* One connection transmits a SYN, the acknowledgement of the handshake,   *)
(* Segments segments of data, any of which may carry PSH, and a FIN.       *)
(***************************************************************************)
EXTENDS Integers, Sequences

CONSTANTS
  SeqRange,      \* size of the sequence-number space
  Isn,           \* sequence number of the SYN
  Segments       \* number of data segments, each of length 2

VARIABLES
  tx, sent, aside,                                            \* sender
  rx, passed, seq_next, entry_saved, has_reorder, abandoned   \* receiver

sender_vars == <<tx, sent, aside>>
receiver_vars == <<rx, passed, seq_next, entry_saved, has_reorder, abandoned>>
vars == <<sender_vars, receiver_vars>>

Total == Segments + 3

Data(k) == [syn |-> FALSE, seq |-> (Isn + 1 + 2 * k) % SeqRange, len |-> 2]

Empty(k) == [syn |-> FALSE, seq |-> (Isn + 1 + 2 * k) % SeqRange, len |-> 0]

(* The n-th packet of the connection.                                      *)
Packet(n) ==
  CASE n = 1     -> [syn |-> TRUE, seq |-> Isn, len |-> 0]
    [] n = 2     -> Empty(0)
    [] n = Total -> Empty(Segments)
    [] OTHER     -> Data(n - 3)

Sender == INSTANCE SenderReorder WITH
  MaxPackets <- Total, given <- sent, entry_saved <- aside

Receiver == INSTANCE ReorderPair WITH
  Packets <- {Packet(n) : n \in 1..Total}, MaxPackets <- Total, given <- passed

Init == Sender!Init /\ Receiver!Init

-----------------------------------------------------------------------------
(* SYN and FIN are ctl packets, the acknowledgement of the handshake is    *)
(* not, data is if it carries PSH.                                         *)
Transmit ==
  /\ Len(tx) < Total
  /\ \/ Len(tx) + 1 # 2 /\ Sender!EnqueueControl
     \/ /\ Len(tx) + 1 \notin {1, Total}
        /\ Sender!EnqueueSave \/ Sender!EnqueueSwap
  /\ UNCHANGED receiver_vars

Deliver ==
  /\ Len(rx) < Len(sent)
  /\ Receiver!reorder_queue_enqueue_packet(Packet(sent[Len(rx) + 1].id))
  /\ UNCHANGED sender_vars

Next == Transmit \/ Deliver

(* The connection goes on transmitting, and the network does not lose      *)
(* packets.                                                                *)
Spec == Init /\ [][Next]_vars /\ WF_vars(Transmit) /\ WF_vars(Deliver)

-----------------------------------------------------------------------------
(* Properties.                                                             *)

(* The packet that stands at position i of what TCP is given.              *)
PassedPacket(i) == sent[passed[i].id].id

(* Whatever the sender's handler does to the order, the receiver's handler *)
(* undoes it: TCP is given the data in the order in which it was sent.     *)
EndToEndOrder ==
  \A i, j \in 1..Len(passed) :
    LET a == Packet(PassedPacket(i))
        b == Packet(PassedPacket(j))
    IN  i < j /\ a.len > 0 /\ b.len > 0 => PassedPacket(i) < PassedPacket(j)

(* Neither handler has a timer, but the FIN drives out of both of them     *)
(* what they have put aside, so the whole connection arrives.              *)
WholeConnectionArrives ==
  <>({PassedPacket(i) : i \in 1..Len(passed)} = 1..Total)
=============================================================================
