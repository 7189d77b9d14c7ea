-------------------------- MODULE MCQueueHandlers --------------------------
(* Small instances of the handlers that put aside one packet at most.      *)
EXTENDS QueueHandlers

(* Acknowledgements of one connection and the SYN of the next one; the     *)
(* numbers wrap around after the third.                                    *)
Ack(n) == [syn |-> FALSE, ack |-> n]

Acknowledgements == {[syn |-> TRUE, ack |-> 30], Ack(30), Ack(31), Ack(1)}

(* A connection whose data wraps around, and the bare acknowledgement that *)
(* may come at any time.                                                   *)
Data(s) == [syn |-> FALSE, seq |-> s, len |-> 2]

SomePackets ==
  {[syn |-> TRUE, seq |-> 27, len |-> 0], [syn |-> FALSE, seq |-> 28, len |-> 0]}
    \cup {Data(s) : s \in {28, 30, 0, 2}}
=============================================================================
