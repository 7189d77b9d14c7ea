----------------------------- MODULE ReorderSmp -----------------------------
(***************************************************************************)
(* ReorderQueue on a multiprocessor: what reorder_queue_enqueue_packet     *)
(* does before it takes reorder_queue_lock, and the timer interrupt.       *)
(*                                                                         *)
(* The header of a packet is parsed into variables of the file, hdr, which *)
(* all CPUs share; then the timer is started; then the lock is taken and   *)
(* the handler runs on whatever hdr holds by now.  hr_timer expires as an  *)
(* interrupt of the CPU that started it, whatever that CPU is doing, and   *)
(* its callback takes the same lock.  reorder_fedora_advanced is the same  *)
(* code with spin_lock_irqsave (IrqSave), which keeps the interrupt out    *)
(* while its CPU is inside.                                                *)
(***************************************************************************)
EXTENDS ReorderQueue

CONSTANTS
  CPUs,
  IrqSave      \* is the lock taken with interrupts disabled?

ASSUME IrqSaveAssumption == IrqSave \in BOOLEAN
ASSUME CPUsAssumption == NULL \notin CPUs

VARIABLES
  pc,          \* what the packet path of each CPU does next
  entry,       \* the packet it was called with
  hdr,         \* tcp_header->syn, seq, length == 0 and seq_next_tmp
  lock,        \* the CPU whose packet path is inside, or NULL
  base,        \* the CPU on which hr_timer is pending
  irq          \* the CPU runs hrtimer_callback, which spins on the lock

smp_vars == <<vars, pc, entry, hdr, lock, base, irq>>

SmpInit ==
  /\ Init
  /\ pc = [c \in CPUs |-> "idle"] /\ entry = [c \in CPUs |-> 0]
  /\ hdr = [syn |-> FALSE, empty |-> TRUE, seq |-> 0, end |-> 0]
  /\ lock = NULL /\ base = NULL
  /\ irq = [c \in CPUs |-> FALSE]

StepsFrom(c, from, to) ==
  /\ pc[c] = from /\ ~irq[c]
  /\ pc' = [pc EXCEPT ![c] = to]

Unlocked == <<given, list_vars, count, seq_next>>

(* The stores to the shared variables: first those of the TCP header.      *)
ParseSeq(c) ==
  \E p \in Packets :
    /\ StepsFrom(c, "idle", "length")
    /\ Arrives(p)
    /\ entry' = [entry EXCEPT ![c] = Len(rx) + 1]
    /\ hdr' = [hdr EXCEPT !.syn = p.syn, !.seq = p.seq]
    /\ UNCHANGED <<Unlocked, armed, lock, base, irq>>

ParseLength(c) ==
  /\ StepsFrom(c, "length", "start")
  /\ hdr' = [hdr EXCEPT !.empty = rx[entry[c]].empty, !.end = rx[entry[c]].end]
  /\ UNCHANGED <<rx, Unlocked, armed, entry, lock, base, irq>>

(* Mutant of StartTimer: only the first packet of a list starts it.        *)
StartTimerOnce(c) ==
  /\ StepsFrom(c, "start", "spin")
  /\ armed' = (armed \/ head = NULL)
  /\ base' = IF \E d \in CPUs : irq[d] THEN CHOOSE d \in CPUs : irq[d] ELSE c
  /\ UNCHANGED <<rx, Unlocked, entry, hdr, lock, irq>>

(* hrtimer_start moves the timer to this CPU, unless its callback runs.    *)
StartTimer(c) ==
  /\ StepsFrom(c, "start", "spin")
  /\ armed' = TRUE
  /\ base' = IF \E d \in CPUs : irq[d] THEN CHOOSE d \in CPUs : irq[d] ELSE c
  /\ UNCHANGED <<rx, Unlocked, entry, hdr, lock, irq>>

(* Mutant of Enter: the entry is shared like the header.                   *)
EnterSharedEntry(c) ==
  /\ StepsFrom(c, "spin", "inside")
  /\ lock = NULL
  /\ lock' = c
  /\ Handle(Len(rx), hdr)
  /\ UNCHANGED <<rx, armed, entry, hdr, base, irq>>

Enter(c) ==
  /\ StepsFrom(c, "spin", "inside")
  /\ lock = NULL
  /\ lock' = c
  /\ Handle(entry[c], hdr)
  /\ UNCHANGED <<rx, armed, entry, hdr, base, irq>>

Leave(c) ==
  /\ StepsFrom(c, "inside", "idle")
  /\ lock' = NULL
  /\ UNCHANGED <<rx, Unlocked, armed, entry, hdr, base, irq>>

(* Mutant of Expires: interrupts stay enabled whatever the lock.           *)
ExpiresAnytime(c) ==
  /\ armed /\ base = c /\ ~irq[c]
  /\ irq' = [irq EXCEPT ![c] = TRUE]
  /\ armed' = FALSE
  /\ UNCHANGED <<rx, Unlocked, pc, entry, hdr, lock, base>>

Expires(c) ==
  /\ armed /\ base = c /\ ~irq[c]
  /\ ~(IrqSave /\ lock = c)
  /\ irq' = [irq EXCEPT ![c] = TRUE]
  /\ armed' = FALSE
  /\ UNCHANGED <<rx, Unlocked, pc, entry, hdr, lock, base>>

Callback(c) ==
  /\ irq[c] /\ lock = NULL
  /\ FlushAll
  /\ irq' = [irq EXCEPT ![c] = FALSE]
  /\ UNCHANGED <<rx, armed, pc, entry, hdr, lock, base>>

PacketPath(c) == ParseLength(c) \/ StartTimer(c) \/ Enter(c) \/ Leave(c)

SmpNext ==
  \E c \in CPUs : ParseSeq(c) \/ PacketPath(c) \/ Expires(c) \/ Callback(c)

(* The lock is a ticket lock, so whoever waits gets it in turn; a pending  *)
(* timer expires as soon as interrupts are enabled.                        *)
SmpSpec ==
  /\ SmpInit /\ [][SmpNext]_smp_vars
  /\ \A c \in CPUs : SF_smp_vars(PacketPath(c)) /\ SF_smp_vars(Expires(c)) /\ SF_smp_vars(Callback(c))

-----------------------------------------------------------------------------
(* Properties.                                                             *)

(* The timer callback never waits for a lock that the code it has          *)
(* interrupted holds: that CPU would spin for ever.                        *)
NoSelfDeadlock == \A c \in CPUs : ~(irq[c] /\ lock = c)

(* Packets the CPUs are still working on.                                  *)
InFlight == {entry[c] : c \in {d \in CPUs : pc[d] \in {"length", "start", "spin"}}}

(* Two CPUs with the same shared header still lose nothing and reinject    *)
(* nothing twice: the entries themselves are not shared.                   *)
SmpBuffer == INSTANCE PacketBuffer WITH
  Capacity <- MAX_REORDER_COUNT + 1 + Cardinality(CPUs),
  Verdicts <- {"accept"},
  taken    <- Len(rx),
  held     <- Held \cup InFlight,
  given    <- [i \in 1..Len(given) |-> [id |-> given[i], v |-> "accept"]]

SmpBufferSpec == SmpBuffer!Spec

Quiet(n) == Len(rx) = n /\ \A c \in CPUs : pc[c] = "idle"

(* A packet that the handler has put aside is reinjected at the latest     *)
(* when another packet comes: the timer may expire after it was started    *)
(* but before the packet is in the list, and then only the next packet     *)
(* starts it again.                                                        *)
ReinjectedAfterNext ==
  \A n \in 1..MaxPackets : Quiet(n) ~> (1..n \subseteq Gone \/ [](Len(rx) = n))
=============================================================================
