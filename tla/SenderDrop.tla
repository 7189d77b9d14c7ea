----------------------------- MODULE SenderDrop -----------------------------
(***************************************************************************)
(* The netfilter queue handler of kernel_modules/sender_drop_3.2 and       *)
(* sender_drop_3.18, which drops one packet in Period of what a sender     *)
(* transmits to port 5001; a SYN or FIN always passes and restarts the     *)
(* count.  Each call is one step, as in SenderReorder.                     *)
(***************************************************************************)
EXTENDS Integers, Sequences, FiniteSets

CONSTANTS
  Period,        \* 100 in the code
  MaxPackets     \* bound on the packets transmitted

VARIABLES
  tx,            \* for each packet transmitted, whether it is a SYN or FIN
  given,         \* the verdicts, in order
  loop_count

vars == <<tx, given, loop_count>>

Init == tx = <<>> /\ given = <<>> /\ loop_count = 0

-----------------------------------------------------------------------------
Verdict(v) == given' = Append(given, [id |-> Len(tx) + 1, v |-> v])

EnqueueControl ==
  /\ tx' = Append(tx, TRUE)
  /\ Verdict("accept")
  /\ loop_count' = 0

(* Mutant of EnqueueData: the count goes up to the period.                 *)
EnqueueDataOneMore ==
  /\ tx' = Append(tx, FALSE)
  /\ Verdict(IF loop_count < 1 THEN "drop" ELSE "accept")
  /\ loop_count' = (loop_count + 1) % (Period + 1)

EnqueueData ==
  /\ tx' = Append(tx, FALSE)
  /\ Verdict(IF loop_count < 1 THEN "drop" ELSE "accept")
  /\ loop_count' = (loop_count + 1) % Period

sender_drop_enqueue_packet == EnqueueControl \/ EnqueueData

Next == Len(tx) < MaxPackets /\ sender_drop_enqueue_packet

Spec == Init /\ [][Next]_vars

-----------------------------------------------------------------------------
(* Properties.                                                             *)

Dropped == {id \in 1..Len(tx) : \E i \in 1..Len(given) : given[i] = [id |-> id, v |-> "drop"]}

(* Of any Period consecutive data packets exactly one is dropped, and a    *)
(* SYN or FIN never is: a dropped packet that is resent within the period  *)
(* gets through.                                                           *)
OneInPeriod ==
  /\ \A id \in Dropped : ~tx[id]
  /\ \A first \in 1..(Len(tx) - Period + 1) :
       LET window == first..(first + Period - 1)
       IN  (\A id \in window : ~tx[id]) => Cardinality(window \cap Dropped) = 1
=============================================================================
