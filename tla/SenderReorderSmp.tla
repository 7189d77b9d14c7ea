-------------------------- MODULE SenderReorderSmp --------------------------
(***************************************************************************)
(* sender_reorder_enqueue_packet one shared access at a time.  It takes no *)
(* lock.  Connections transmit each under its own socket lock, so with one *)
(* connection (Serialised) the calls do not overlap; with several, CPUs    *)
(* meet at entry_saved.                                                    *)
(***************************************************************************)
EXTENDS Integers, Sequences, FiniteSets

CONSTANTS
  CPUs,
  Serialised,    \* are the calls of all CPUs serialised by one socket lock?
  MaxPackets     \* bound on the packets transmitted

VARIABLES
  taken,         \* number of packets transmitted
  given,         \* the verdicts, in order; id 0 is a NULL entry
  entry_saved,   \* the packet put aside, 0 for NULL
  pc,            \* next access of each CPU
  entry,         \* the packet each CPU was called with
  overlapped     \* some call has begun while another one was under way

vars == <<taken, given, entry_saved, pc, entry, overlapped>>

Accept(id) == [id |-> id, v |-> "accept"]

Init ==
  /\ taken = 0 /\ given = <<>> /\ entry_saved = 0
  /\ pc = [c \in CPUs |-> "idle"] /\ entry = [c \in CPUs |-> 0]
  /\ overlapped = FALSE

Busy == {c \in CPUs : pc[c] # "idle"}

Goes(c, from, to) == pc[c] = from /\ pc' = [pc EXCEPT ![c] = to]

-----------------------------------------------------------------------------
(* The call, up to its test of entry_saved.                                *)
Call(c) ==
  /\ taken < MaxPackets
  /\ Serialised => Busy = {}
  /\ \E ctl \in BOOLEAN :
       Goes(c, "idle", IF ctl THEN IF entry_saved = 0 THEN "accept" ELSE "flush"
                              ELSE IF entry_saved = 0 THEN "save"   ELSE "first")
  /\ taken' = taken + 1
  /\ entry' = [entry EXCEPT ![c] = taken + 1]
  /\ overlapped' = (overlapped \/ Busy # {})
  /\ UNCHANGED <<given, entry_saved>>

Save(c) ==
  /\ Goes(c, "save", "idle")
  /\ entry_saved' = entry[c]
  /\ UNCHANGED <<taken, given, entry, overlapped>>

(* A ctl packet: reinject entry_saved, forget it, reinject the packet.     *)
FlushSaved(c) ==
  /\ Goes(c, "flush", "forget")
  /\ given' = Append(given, Accept(entry_saved))
  /\ UNCHANGED <<taken, entry_saved, entry, overlapped>>

Forget(c) ==
  /\ Goes(c, "forget", "accept")
  /\ entry_saved' = 0
  /\ UNCHANGED <<taken, given, entry, overlapped>>

AcceptEntry(c) ==
  /\ Goes(c, "accept", "idle")
  /\ given' = Append(given, Accept(entry[c]))
  /\ UNCHANGED <<taken, entry_saved, entry, overlapped>>

(* Any other packet: reinject it, reinject entry_saved, forget that.       *)
AcceptFirst(c) ==
  /\ Goes(c, "first", "second")
  /\ given' = Append(given, Accept(entry[c]))
  /\ UNCHANGED <<taken, entry_saved, entry, overlapped>>

AcceptSaved(c) ==
  /\ Goes(c, "second", "clear")
  /\ given' = Append(given, Accept(entry_saved))
  /\ UNCHANGED <<taken, entry_saved, entry, overlapped>>

(* Mutant of Clear: the packet put aside is not taken out.                 *)
ClearNothing(c) ==
  /\ Goes(c, "clear", "idle")
  /\ UNCHANGED <<taken, given, entry_saved, entry, overlapped>>

Clear(c) ==
  /\ Goes(c, "clear", "idle")
  /\ entry_saved' = 0
  /\ UNCHANGED <<taken, given, entry, overlapped>>

Next ==
  \E c \in CPUs :
    \/ Call(c) \/ Save(c)
    \/ FlushSaved(c) \/ Forget(c) \/ AcceptEntry(c)
    \/ AcceptFirst(c) \/ AcceptSaved(c) \/ Clear(c)

Spec == Init /\ [][Next]_vars

-----------------------------------------------------------------------------
(* Properties.                                                             *)

TypeOK ==
  /\ taken \in Nat
  /\ given \in Seq([id : Nat, v : {"accept"}])
  /\ entry_saved \in 0..taken
  /\ pc \in [CPUs -> {"idle", "save", "flush", "forget", "accept", "first", "second", "clear"}]
  /\ entry \in [CPUs -> 0..taken]
  /\ overlapped \in BOOLEAN

Settled == {given[i].id : i \in 1..Len(given)}

(* Packets that the handler can still reinject.                            *)
Waiting ==
  ({entry_saved} \ ({0} \cup {entry_saved : c \in {d \in CPUs : pc[d] \in {"forget", "clear"}}}))
    \cup {entry[c] : c \in {d \in CPUs : pc[d] \in {"save", "flush", "forget", "accept", "first"}}}

(* As long as no two calls have overlapped, every packet is put aside,     *)
(* under way or sent, and none is sent twice.  With overlapping calls one  *)
(* CPU can overwrite what another has put aside, or two can reinject the   *)
(* same entry.                                                             *)
AccountedUnlessOverlapped ==
  ~overlapped =>
    /\ Waiting \cup Settled = 1..taken
    /\ Waiting \cap Settled = {}
    /\ \A i, j \in 1..Len(given) : given[i].id = given[j].id => i = j

(* With one connection the handler is a packet buffer: one packet is put   *)
(* aside and one is under way.                                             *)
Buffer == INSTANCE PacketBuffer WITH
  Capacity <- 2,
  Verdicts <- {"accept"},
  held     <- Waiting

SerialBufferSpec == Buffer!Spec
=============================================================================
