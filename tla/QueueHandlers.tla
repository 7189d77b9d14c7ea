--------------------------- MODULE QueueHandlers ----------------------------
(***************************************************************************)
(* The handlers that put aside one packet at most, side by side.  A host   *)
(* has one queue handler at a time, so each behaviour is one of a single   *)
(* handler, or of the sender's and the receiver's together (path), and     *)
(* leaves the others in their initial state.                               *)
(***************************************************************************)
EXTENDS Integers, Sequences

CONSTANTS
  SeqRange,        \* size of the sequence-number space
  Acks,            \* the acknowledgements that may arrive, [syn, ack]
  Packets,         \* the packets that may arrive, [syn, seq, len]
  CPUs,
  Serialised,      \* are the calls of all CPUs serialised by one socket lock?
  Period,          \* sender_drop drops one packet in Period
  Isn, Segments,   \* of the connection through both hosts
  MaxAcks, MaxPackets, MaxSwaps, MaxRaces, MaxDrops   \* bounds on the calls

ASSUME MaxAssumption == MaxAcks \in Nat /\ MaxPackets \in Nat
ASSUME PeriodAssumption == Period \in Nat \ {0}

VARIABLES
  handler,
  acks, ack_given, ack_saved, dupack_count, ack_seq_old, ack_abandoned,
  rx, pair_given, seq_next, pair_saved, has_reorder, pair_abandoned,
  tx, swap_given, swap_saved,
  taken, race_given, race_saved, pc, entry, overlapped,
  sent, drop_given, loop_count,
  path_tx, path_sent, aside, path_rx, passed, path_next, path_saved, path_reorder, path_abandoned

dupack_vars == <<acks, ack_given, ack_saved, dupack_count, ack_seq_old, ack_abandoned>>
pair_vars == <<rx, pair_given, seq_next, pair_saved, has_reorder, pair_abandoned>>
swap_vars == <<tx, swap_given, swap_saved>>
race_vars == <<taken, race_given, race_saved, pc, entry, overlapped>>
drop_vars == <<sent, drop_given, loop_count>>
path_vars == <<path_tx, path_sent, aside, path_rx, passed, path_next, path_saved, path_reorder, path_abandoned>>

vars == <<handler, dupack_vars, pair_vars, swap_vars, race_vars, drop_vars, path_vars>>

Dupack == INSTANCE DupackDrop WITH
  MaxPackets <- MaxAcks,
  rx <- acks, given <- ack_given, entry_saved <- ack_saved, abandoned <- ack_abandoned

Pair == INSTANCE ReorderPair WITH
  given <- pair_given, entry_saved <- pair_saved, abandoned <- pair_abandoned

Swap == INSTANCE SenderReorder WITH
  MaxPackets <- MaxSwaps, given <- swap_given, entry_saved <- swap_saved

Race == INSTANCE SenderReorderSmp WITH
  MaxPackets <- MaxRaces, given <- race_given, entry_saved <- race_saved

Lossy == INSTANCE SenderDrop WITH
  MaxPackets <- MaxDrops, tx <- sent, given <- drop_given

Path == INSTANCE SwapPath WITH
  tx <- path_tx, sent <- path_sent, rx <- path_rx, seq_next <- path_next,
  entry_saved <- path_saved, has_reorder <- path_reorder, abandoned <- path_abandoned

Init ==
  /\ handler \in {"dupack_drop", "reorder_fedora", "sender_reorder", "sender_reorder smp",
                  "sender_drop", "path"}
  /\ Dupack!Init /\ Pair!Init /\ Swap!Init /\ Race!Init /\ Lossy!Init /\ Path!Init

DupackStep ==
  /\ handler = "dupack_drop" /\ Dupack!Next
  /\ UNCHANGED <<handler, pair_vars, swap_vars, race_vars, drop_vars, path_vars>>

PairStep ==
  /\ handler = "reorder_fedora" /\ Pair!Next
  /\ UNCHANGED <<handler, dupack_vars, swap_vars, race_vars, drop_vars, path_vars>>

SwapStep ==
  /\ handler = "sender_reorder" /\ Swap!Next
  /\ UNCHANGED <<handler, dupack_vars, pair_vars, race_vars, drop_vars, path_vars>>

RaceStep ==
  /\ handler = "sender_reorder smp" /\ Race!Next
  /\ UNCHANGED <<handler, dupack_vars, pair_vars, swap_vars, drop_vars, path_vars>>

DropStep ==
  /\ handler = "sender_drop" /\ Lossy!Next
  /\ UNCHANGED <<handler, dupack_vars, pair_vars, swap_vars, race_vars, path_vars>>

OffPath == <<handler, dupack_vars, pair_vars, swap_vars, race_vars, drop_vars>>

PathTransmit == handler = "path" /\ Path!Transmit /\ UNCHANGED OffPath

PathDeliver == handler = "path" /\ Path!Deliver /\ UNCHANGED OffPath

Next ==
  \/ DupackStep \/ PairStep \/ SwapStep \/ RaceStep \/ DropStep
  \/ PathTransmit \/ PathDeliver

Spec == Init /\ [][Next]_vars /\ WF_vars(PathTransmit) /\ WF_vars(PathDeliver)

-----------------------------------------------------------------------------
(* The properties of the handlers, stated in their modules.                *)

(* dupack_drop: what the sender does not get to see carries no news.       *)
NothingNewWithheld == Dupack!NothingNewWithheld

(* dupack_drop: a newer acknowledgement or a second duplicate settles the  *)
(* one put aside at once.                                                  *)
ProgressSettlesSaved == Dupack!ProgressSettlesSaved

(* dupack_drop implements PacketBuffer, what a SYN abandons included.      *)
AckBufferSpec == Dupack!AckBufferSpec

(* reorder_fedora: neighbours that were exchanged reach TCP in order.      *)
OrderRestored == Pair!OrderRestored

(* reorder_fedora implements PacketBuffer, what a SYN abandons included.   *)
PairBufferSpec == Pair!PairBufferSpec

(* sender_reorder exchanges neighbours and does no more than that.         *)
NeighboursOnly == Swap!NeighboursOnly

(* sender_reorder loses or repeats a packet only if two calls overlap.     *)
AccountedUnlessOverlapped == Race!AccountedUnlessOverlapped

(* sender_drop drops exactly one of any Period consecutive data packets.   *)
OneInPeriod == Lossy!OneInPeriod

(* The receiver's handler undoes what the sender's handler does to the     *)
(* order.                                                                  *)
EndToEndOrder == Path!EndToEndOrder

(* The whole connection reaches TCP through both handlers; only the        *)
(* behaviours of the path transmit it.                                     *)
WholeConnectionArrives == handler = "path" => Path!WholeConnectionArrives
=============================================================================
