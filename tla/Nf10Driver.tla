----------------------------- MODULE Nf10Driver -----------------------------
(***************************************************************************)
(* The NetFPGA-10G driver of the switch.  The four interfaces share the    *)
(* descriptor rings and the packet memory of one card.  nf10priv_xmit runs *)
(* on any CPU, under tx_lock up to the point where it has its place in the *)
(* rings; work_handler runs in a work queue, takes another lock, and frees *)
(* what the card has sent.  They meet in the counters, in the state of the *)
(* interfaces' queues, and, through the card, in the completion buffers.   *)
(*                                                                         *)
(* Write and read pointers are counted without wrap-around here; the entry *)
(* of a ring is their remainder, and a packet is named by its position in  *)
(* the transmit ring.                                                      *)
(***************************************************************************)
EXTENDS Integers, FiniteSets

CONSTANTS
  Ports,
  RingSize,      \* descriptors and completion entries of a ring (32)
  Lines,         \* 64-byte lines of the packet memory (512), each direction
  Sizes,         \* lines a packet may need, 2..25
  StopLines,     \* an interface with less room than this stops (32)
  WakeSlots,     \* descriptors (8) and
  WakeLines,     \*   lines (4*32) that must be free to restart them
  RxLines,       \* lines of a receive descriptor (24)
  TcntMax,       \* bound of the credit tcnt (10000)
  MaxTraffic     \* bound on the packets transmitted and frames received

ASSUME RoomAssumption ==
  /\ RingSize \in Nat \ {0, 1} /\ Lines \in Nat \ {0} /\ RxLines \in Nat \ {0}
  /\ StopLines \in Nat /\ TcntMax \in Nat \ {0}
  /\ Sizes \subseteq 1..StopLines
  /\ WakeSlots \in 0..RingSize /\ WakeLines \in 0..Lines

VARIABLES
  tx_wr, tx_rd,         \* mem_tx_dsc.wr_ptr and host_tx_dne.rd_ptr
  tx_cnt, tx_lines,     \* mem_tx_dsc.cnt and mem_tx_pkt.cnt
  pkt_wr,               \* mem_tx_pkt.wr_ptr, a line
  tx_bk,                \* tx_bk_skb, tx_bk_size and the address in tx_dsc
  tx_posted,            \* descriptors the card has yet to serve
  tx_done,              \* entries of host_tx_dne that the card has written
  stopped,              \* netif_queue_stopped
  pc, mine,             \* nf10priv_xmit of each interface and its place
  rx_wr, rx_rd,         \* mem_rx_dsc.wr_ptr and host_rx_dne.rd_ptr
  rx_cnt, rx_lines,     \* mem_rx_dsc.cnt and mem_rx_pkt.cnt
  rx_posted, rx_done,
  rx_failed,            \* allocations that failed
  int_enabled,          \* the card may interrupt
  irq,                  \* it does
  queued,               \* work_handler is in the work queue
  step, seen,           \* what work_handler does next, what it has found
  tcnt, worked          \* its credit; work_counter > 0

tx_ring == <<tx_wr, pkt_wr, mine, tx_bk>>
tx_vars == <<tx_ring, tx_rd, tx_cnt, tx_lines, tx_posted, tx_done, stopped, pc>>
rx_vars == <<rx_wr, rx_rd, rx_cnt, rx_lines, rx_posted, rx_done, rx_failed>>
loop_vars == <<step, seen, tcnt, worked>>
vars == <<tx_vars, rx_vars, int_enabled, irq, queued, loop_vars>>

Entries == 0..(RingSize - 1)

Entry(ptr) == ptr % RingSize

NoPlace == [pos |-> -1, size |-> 0, line |-> 0]

(* The descriptors that nf10iface_probe gives to the card: two less than   *)
(* the ring holds, or as many as there is packet memory for.               *)
RxGiven == IF RingSize - 2 < Lines \div RxLines THEN RingSize - 2 ELSE Lines \div RxLines

Init ==
  /\ tx_wr = 0 /\ tx_rd = 0 /\ tx_cnt = 0 /\ tx_lines = 0 /\ pkt_wr = 0
  /\ tx_bk = [e \in Entries |-> NoPlace]
  /\ tx_posted = {} /\ tx_done = {}
  /\ stopped = {} /\ pc = [p \in Ports |-> "idle"] /\ mine = [p \in Ports |-> NoPlace]
  /\ rx_wr = RxGiven /\ rx_rd = 0 /\ rx_cnt = RxGiven /\ rx_lines = RxGiven * RxLines
  /\ rx_posted = 0..(RxGiven - 1) /\ rx_done = {} /\ rx_failed = 0
  /\ int_enabled = TRUE /\ irq = FALSE /\ queued = FALSE
  /\ step = "idle" /\ seen = {} /\ tcnt = 0 /\ worked = FALSE

-----------------------------------------------------------------------------
(* nf10priv_xmit, called for an interface whose queue is not stopped.      *)

Traffic == tx_wr + rx_rd + Cardinality(rx_done)

OwnsTxLock(p) == pc[p] \in {"check", "stop"}

(* Mutant of Fits: the packet memory is not looked at.                     *)
FitsRing(size) == tx_cnt + 1 <= RingSize

Fits(size) == tx_cnt + 1 <= RingSize /\ tx_lines + size <= Lines

Calls(p) ==
  /\ pc[p] = "idle" /\ p \notin stopped
  /\ \A q \in Ports : ~OwnsTxLock(q)
  /\ Traffic < MaxTraffic

AdvancePointers(size) ==
  /\ tx_wr' = tx_wr + 1
  /\ pkt_wr' = (pkt_wr + size) % Lines

Reserve(p, size) ==
  /\ Calls(p)
  /\ Fits(size)
  /\ AdvancePointers(size)
  /\ mine' = [mine EXCEPT ![p] = [pos |-> tx_wr, size |-> size, line |-> pkt_wr]]
  /\ tx_cnt' = tx_cnt + 1 /\ tx_lines' = tx_lines + size
  /\ pc' = [pc EXCEPT ![p] = "check"]
  /\ UNCHANGED <<tx_bk, tx_rd, tx_posted, tx_done, stopped, rx_vars, int_enabled, irq, queued, loop_vars>>

(* pci_map_single fails after the pointers have moved; the packet is       *)
(* dropped.  Spec assumes that it does not, MappingFailsSpec that it may.  *)
ReserveUnmapped(p, size) ==
  /\ Calls(p)
  /\ Fits(size)
  /\ AdvancePointers(size)
  /\ UNCHANGED <<mine, tx_bk, tx_rd, tx_cnt, tx_lines, tx_posted, tx_done, stopped, pc,
                 rx_vars, int_enabled, irq, queued, loop_vars>>

(* No room: another interface has used it up.  The packet is dropped.      *)
ReserveFull(p, size) ==
  /\ Calls(p)
  /\ ~Fits(size)
  /\ UNCHANGED vars

CheckRoom(p) ==
  /\ pc[p] = "check"
  /\ pc' = [pc EXCEPT ![p] =
              IF tx_cnt + 1 <= RingSize /\ tx_lines + StopLines <= Lines THEN "post" ELSE "stop"]
  /\ UNCHANGED <<tx_ring, tx_rd, tx_cnt, tx_lines, tx_posted, tx_done, stopped,
                 rx_vars, int_enabled, irq, queued, loop_vars>>

StopQueue(p) ==
  /\ pc[p] = "stop"
  /\ pc' = [pc EXCEPT ![p] = "post"]
  /\ stopped' = stopped \cup {p}
  /\ UNCHANGED <<tx_ring, tx_rd, tx_cnt, tx_lines, tx_posted, tx_done,
                 rx_vars, int_enabled, irq, queued, loop_vars>>

(* Book keeping and the descriptor, without a lock.                        *)
Post(p) ==
  /\ pc[p] = "post"
  /\ pc' = [pc EXCEPT ![p] = "idle"]
  /\ mine' = [mine EXCEPT ![p] = NoPlace]
  /\ tx_bk' = [tx_bk EXCEPT ![Entry(mine[p].pos)] = mine[p]]
  /\ tx_posted' = tx_posted \cup {Entry(mine[p].pos)}
  /\ UNCHANGED <<tx_wr, pkt_wr, tx_rd, tx_cnt, tx_lines, tx_done, stopped,
                 rx_vars, int_enabled, irq, queued, loop_vars>>

nf10priv_xmit(p) ==
  \/ \E size \in Sizes : Reserve(p, size) \/ ReserveFull(p, size)
  \/ CheckRoom(p) \/ StopQueue(p) \/ Post(p)

-----------------------------------------------------------------------------
(* The card.  It reports a descriptor in the completion entry of the same  *)
(* number; transmit descriptors may be finished in any order.              *)

Interrupts == irq' = (irq \/ int_enabled)

CardSends(e) ==
  /\ e \in tx_posted
  /\ tx_posted' = tx_posted \ {e}
  /\ tx_done' = tx_done \cup {e}
  /\ Interrupts
  /\ UNCHANGED <<tx_ring, tx_rd, tx_cnt, tx_lines, stopped, pc, rx_vars, int_enabled, queued, loop_vars>>

(* A frame goes where the oldest descriptor points.                        *)
CardReceives ==
  LET filled == Cardinality(rx_done)
  IN  /\ Entry(rx_rd + filled) \in rx_posted
      /\ Traffic < MaxTraffic
      /\ rx_posted' = rx_posted \ {Entry(rx_rd + filled)}
      /\ rx_done' = rx_done \cup {Entry(rx_rd + filled)}
  /\ Interrupts
  /\ UNCHANGED <<tx_vars, rx_wr, rx_rd, rx_cnt, rx_lines, rx_failed, int_enabled, queued, loop_vars>>

(* int_handler; queue_work does nothing if the work is queued already.     *)
int_handler ==
  /\ irq
  /\ irq' = FALSE /\ queued' = TRUE
  /\ UNCHANGED <<tx_vars, rx_vars, int_enabled, loop_vars>>

-----------------------------------------------------------------------------
(* work_handler.  A pass looks at both completion buffers and handles one  *)
(* completion of each.  Passes that find something earn credit, the others *)
(* use it up.                                                              *)

Goes(from, to) == step = from /\ step' = to

Begin ==
  /\ queued
  /\ Goes("idle", "top")
  /\ queued' = FALSE
  /\ tcnt' = 1 /\ worked' = FALSE
  /\ UNCHANGED <<tx_vars, rx_vars, int_enabled, irq, seen>>

(* From its second pass on the handler keeps the card from interrupting.   *)
MaskInterrupts ==
  /\ Goes("top", "read")
  /\ int_enabled' = (int_enabled /\ ~worked)
  /\ UNCHANGED <<tx_vars, rx_vars, irq, queued, seen, tcnt, worked>>

ReadBuffers ==
  /\ seen' = {d \in {"tx", "rx"} : IF d = "tx" THEN Entry(tx_rd) \in tx_done ELSE Entry(rx_rd) \in rx_done}
  /\ Goes("read", IF "tx" \in seen' THEN "clean" ELSE IF "rx" \in seen' THEN "receive" ELSE "turn")
  /\ UNCHANGED <<tx_vars, rx_vars, int_enabled, irq, queued, tcnt, worked>>

(* The skb is freed and the place given back; what tx_bk still says about  *)
(* it is not read again, and forgotten here.                               *)
Clean ==
  /\ Goes("clean", "invalidate")
  /\ tx_bk' = [tx_bk EXCEPT ![Entry(tx_rd)] = NoPlace]
  /\ tx_rd' = tx_rd + 1
  /\ tx_lines' = tx_lines - tx_bk[Entry(tx_rd)].size
  /\ tx_cnt' = tx_cnt - 1
  /\ UNCHANGED <<tx_wr, pkt_wr, mine, tx_posted, tx_done, stopped, pc, rx_vars, int_enabled, irq, queued, seen, tcnt, worked>>

(* The completion is erased after its place was given back.                *)
Invalidate ==
  /\ Goes("invalidate", "restart")
  /\ tx_done' = tx_done \ {Entry(tx_rd - 1)}
  /\ UNCHANGED <<tx_ring, tx_rd, tx_cnt, tx_lines, tx_posted, stopped, pc,
                 rx_vars, int_enabled, irq, queued, seen, tcnt, worked>>

AfterTx == IF "rx" \in seen THEN "receive" ELSE "turn"

(* Mutant of Restart: only one interface at a time.                        *)
RestartOne ==
  /\ Goes("restart", AfterTx)
  /\ stopped' = IF tx_cnt + WakeSlots <= RingSize /\ tx_lines + WakeLines <= Lines
                  THEN {p \in stopped : p # CHOOSE q \in stopped : TRUE} ELSE stopped
  /\ UNCHANGED <<tx_ring, tx_rd, tx_cnt, tx_lines, tx_posted, tx_done, pc,
                 rx_vars, int_enabled, irq, queued, seen, tcnt, worked>>

Restart ==
  /\ Goes("restart", AfterTx)
  /\ stopped' = IF tx_cnt + WakeSlots <= RingSize /\ tx_lines + WakeLines <= Lines
                  THEN {} ELSE stopped
  /\ UNCHANGED <<tx_ring, tx_rd, tx_cnt, tx_lines, tx_posted, tx_done, pc,
                 rx_vars, int_enabled, irq, queued, seen, tcnt, worked>>

(* nf10priv_send_rx_dsc, with these counts; nobody looks at what it        *)
(* returns.                                                                *)
SendRxDsc(cnt, lines) ==
  \E allocated \in BOOLEAN :
    LET fits == cnt + 1 <= RingSize /\ lines + RxLines <= Lines
        sent == fits /\ allocated
    IN  /\ rx_cnt' = IF sent THEN cnt + 1 ELSE cnt
        /\ rx_lines' = IF sent THEN lines + RxLines ELSE lines
        /\ rx_posted' = IF sent THEN rx_posted \cup {Entry(rx_wr)} ELSE rx_posted
        /\ rx_wr' = IF sent THEN rx_wr + 1 ELSE rx_wr
        /\ rx_failed' = IF fits /\ ~allocated THEN rx_failed + 1 ELSE rx_failed

(* Mutant of ReceiveFrame: the lines of the descriptor are not given back. *)
ReceiveFrameLeak ==
  /\ Goes("receive", "turn")
  /\ rx_rd' = rx_rd + 1
  /\ rx_done' = rx_done \ {Entry(rx_rd)}
  /\ SendRxDsc(rx_cnt - 1, rx_lines)
  /\ UNCHANGED <<tx_vars, int_enabled, irq, queued, seen, tcnt, worked>>

(* The frame leaves the driver, for the stack or because its port is down, *)
(* and the card is given a new descriptor.                                 *)
ReceiveFrame ==
  /\ Goes("receive", "turn")
  /\ rx_rd' = rx_rd + 1
  /\ rx_done' = rx_done \ {Entry(rx_rd)}
  /\ SendRxDsc(rx_cnt - 1, rx_lines - RxLines)
  /\ UNCHANGED <<tx_vars, int_enabled, irq, queued, seen, tcnt, worked>>

Credit == IF seen = {} THEN tcnt - 1 ELSE IF tcnt < TcntMax THEN tcnt + 1 ELSE tcnt

(* Mutant of Turn: no pass follows the one that lets the card interrupt    *)
(* again.                                                                  *)
TurnAtOnce ==
  LET unmask == Credit <= 1 /\ ~int_enabled
  IN  /\ worked' = ~unmask
      /\ tcnt' = IF unmask THEN 0 ELSE Credit
      /\ int_enabled' = (int_enabled \/ unmask)
      /\ Goes("turn", IF tcnt' = 0 THEN "idle" ELSE "top")
      /\ UNCHANGED <<tx_vars, rx_vars, irq, queued, seen>>

Turn ==
  LET unmask == Credit <= 1 /\ ~int_enabled
  IN  /\ worked' = ~unmask
      /\ tcnt' = IF unmask THEN 1 ELSE Credit
      /\ int_enabled' = (int_enabled \/ unmask)
      /\ Goes("turn", IF tcnt' = 0 THEN "idle" ELSE "top")
      /\ UNCHANGED <<tx_vars, rx_vars, irq, queued, seen>>

work_handler ==
  \/ Begin \/ MaskInterrupts \/ ReadBuffers
  \/ Clean \/ Invalidate \/ Restart
  \/ ReceiveFrame \/ Turn

-----------------------------------------------------------------------------
Transmit(p) == CheckRoom(p) \/ StopQueue(p) \/ Post(p)

Next ==
  \/ \E p \in Ports : nf10priv_xmit(p)
  \/ \E e \in Entries : CardSends(e)
  \/ CardReceives
  \/ int_handler
  \/ work_handler

(* A call under way, the interrupt and the work queue run, and the card    *)
(* serves every descriptor; nobody need transmit and no frame need come.   *)
Fairness ==
  /\ \A p \in Ports : WF_vars(Transmit(p))
  /\ \A e \in Entries : WF_vars(CardSends(e))
  /\ WF_vars(int_handler) /\ WF_vars(work_handler)

Spec == Init /\ [][Next]_vars /\ Fairness

MappingFailsSpec ==
  Init /\ [][Next \/ \E p \in Ports, size \in Sizes : ReserveUnmapped(p, size)]_vars /\ Fairness

-----------------------------------------------------------------------------
(* Properties.                                                             *)

(* The places that calls have reserved and not yet handed over, and those  *)
(* whose descriptor or completion still stands.                            *)
Reserved == {mine[p] : p \in {q \in Ports : pc[q] # "idle"}}

Standing == {tx_bk[e] : e \in tx_posted \cup (tx_done \ {Entry(tx_rd - 1) : s \in {step} \cap {"invalidate"}})}

LinesOf(place) == {(place.line + i) % Lines : i \in 0..(place.size - 1)}

(* "make sure we fit in the descriptor ring and packet buffer": no packet  *)
(* is given the descriptor or the lines of another one that is not         *)
(* finished.                                                               *)
FitsBehindOthers ==
  \A a \in Reserved, b \in Reserved \cup Standing :
    a.pos # b.pos => Entry(a.pos) # Entry(b.pos) /\ LinesOf(a) \cap LinesOf(b) = {}

(* A queue is stopped only while a packet is under way whose completion    *)
(* will find room enough to restart it, although the test that stops it    *)
(* and the test that restarts it share no lock.                            *)
StoppedHasCompletion ==
  stopped # {} =>
    \/ Reserved # {} \/ tx_posted # {} \/ tx_done # {}
    \/ step \in {"invalidate", "restart"}

(* The driver catches up: every packet accepted is freed and every frame   *)
(* received leaves the driver, so the handler never leaves a completion    *)
(* behind with the card's interrupts masked or its only interrupt spent,   *)
(* and never erases one that it has not handled.                           *)
CompletionsHandled == []<>(tx_rd = tx_wr /\ rx_done = {})

(* The card holds as many receive descriptors as it was given at first,    *)
(* less one for each allocation that has failed.                           *)
RxRingRefilled == Cardinality(rx_posted \cup rx_done) + rx_failed = RxGiven
=============================================================================
