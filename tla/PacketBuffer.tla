---------------------------- MODULE PacketBuffer ----------------------------
(***************************************************************************)
(* What every component of this repository that holds packets back         *)
(* promises, whatever it holds them for: the netfilter queue handlers of   *)
(* src/kernel_modules and the GRO engine of linux-4.1.  Packets are taken  *)
(* one at a time and numbered in the order in which they are taken; each   *)
(* gets exactly one verdict, at once or later; and no more than Capacity   *)
(* of them are waiting for theirs.  It has no counterpart in the code: the *)
(* modules of the components instantiate it.                               *)
(***************************************************************************)
EXTENDS Integers, Sequences, FiniteSets

CONSTANTS
  Capacity,   \* how many packets may wait for their verdict
  Verdicts    \* what may become of a packet

VARIABLES
  taken,      \* number of packets taken so far
  held,       \* the packets waiting for their verdict
  given       \* the verdicts given so far, in order

bufferVars == <<taken, held, given>>

Init == taken = 0 /\ held = {} /\ given = <<>>

(* The verdicts a step has added to those given before it.                 *)
Fresh == (Len(given) + 1)..Len(given')

(* Some of the packets of base get a verdict, each one verdict, and the    *)
(* others are held.                                                        *)
Settle(base) ==
  /\ given' \in Seq([id : Nat, v : Verdicts])
  /\ Len(given) <= Len(given')
  /\ \A i \in 1..Len(given) : given'[i] = given[i]
  /\ \A i \in Fresh : given'[i].id \in base
  /\ \A i, j \in Fresh : given'[i].id = given'[j].id => i = j
  /\ held' = base \ {given'[i].id : i \in Fresh}
  /\ Cardinality(held') <= Capacity

Take ==
  /\ taken' = taken + 1
  /\ Settle(held \cup {taken + 1})

Expire ==
  /\ taken' = taken
  /\ Settle(held)

Next == Take \/ Expire

Spec == Init /\ [][Next]_bufferVars

-----------------------------------------------------------------------------
Settled == {given[i].id : i \in 1..Len(given)}

(* Every packet taken either waits for its verdict or has got one, never   *)
(* both, and none has got two.                                             *)
ExactlyOnce ==
  /\ held \cup Settled = 1..taken
  /\ held \cap Settled = {}
  /\ \A i, j \in 1..Len(given) : given[i].id = given[j].id => i = j
=============================================================================
