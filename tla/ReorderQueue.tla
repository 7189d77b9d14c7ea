---------------------------- MODULE ReorderQueue ----------------------------
(***************************************************************************)
(* The netfilter queue handler of kernel_modules/reorder_advanced, which   *)
(* puts the packets sent to TCP port 5001 back in order: a doubly linked   *)
(* list of held packets sorted by sequence number, one seq_next for all of *)
(* them, and a timer that flushes the list.  The list is modelled with its *)
(* pointers, because the code leaves some of them behind: a node is a cell *)
(* of memory that kmalloc hands out and kfree takes back, and the prev     *)
(* pointer of a new head keeps naming the cell that was released.          *)
(*                                                                         *)
(* Each operation runs under reorder_queue_lock and is one step here;      *)
(* ReorderSmp splits what happens around the lock.  A packet is reduced to *)
(* the header fields the handler reads.  rx counts the packets received,   *)
(* which are named by the order of their arrival; given logs the packets   *)
(* reinjected, all of them with NF_ACCEPT.                                 *)
(***************************************************************************)
EXTENDS Integers, Sequences, SequencesExt, FiniteSets, FiniteSetsExt

CONSTANTS
  SeqRange,            \* size of the sequence-number space (2^32 in the code)
  MAX_REORDER_COUNT,
  Addresses,           \* cells kmalloc may return
  NULL,
  Packets,             \* the packets that may arrive
  MaxPackets,          \* bound on the packets received in one behaviour
  MaxCopies            \* bound on the copies of one packet

(* seq, seq_next_tmp as end, tcp_header->syn and length == 0 as empty.      *)
HeaderType ==
  [syn : BOOLEAN, empty : BOOLEAN, seq : 0..(SeqRange - 1), end : 0..(SeqRange - 1)]

ASSUME SeqRangeAssumption == SeqRange \in Nat /\ SeqRange % 2 = 0 /\ SeqRange > 0
ASSUME LimitAssumption == MAX_REORDER_COUNT \in Nat
ASSUME AddressesAssumption == IsFiniteSet(Addresses) /\ NULL \notin Addresses
ASSUME PacketsAssumption == \A p \in Packets : p \in HeaderType
ASSUME BoundsAssumption == MaxPackets \in Nat /\ MaxCopies \in Nat

VARIABLES
  rx,          \* packets received, in the order of arrival
  given,       \* packets reinjected, in order
  node,        \* contents of every cell
  allocated,   \* cells that are in use
  head, tail,  \* reorder_queue_head, reorder_queue_tail
  count,       \* reorder_count
  seq_next,
  armed        \* hr_timer is pending

list_vars == <<node, allocated, head, tail>>
vars == <<rx, given, list_vars, count, seq_next, armed>>

-----------------------------------------------------------------------------
(* (__s32)(a - b) < 0 and (__s32)(a - b) <= 0.                             *)
Before(a, b) == (a - b) % SeqRange >= SeqRange \div 2

NotAfter(a, b) == a = b \/ Before(a, b)

(* Mutant of Later: seq_next is assigned without the comparison.           *)
LaterUnchecked(a, b) == b

Later(a, b) == IF Before(a, b) THEN b ELSE a

Blank == [entry |-> 0, seq |-> 0, end |-> 0, prev |-> NULL, next |-> NULL]

Init ==
  /\ rx = <<>> /\ given = <<>>
  /\ node = [a \in Addresses |-> Blank] /\ allocated = {}
  /\ head = NULL /\ tail = NULL
  /\ count = 0 /\ seq_next = 0 /\ armed = FALSE

(* The cells reached from first along next.                                *)
CellsFrom(first, cells) ==
  LET n == Cardinality(Addresses) + 1
      at[k \in 1..n] == IF k = 1 THEN first
                        ELSE IF at[k - 1] = NULL THEN NULL ELSE cells[at[k - 1]].next
  IN  [k \in 1..(Min({k \in 1..n : at[k] = NULL} \cup {n}) - 1) |-> at[k]]

Queue == CellsFrom(head, node)

EntriesOf(cells) == [i \in 1..Len(cells) |-> node[cells[i]].entry]

-----------------------------------------------------------------------------
(* Parts of the handler.  id is the entry it was called with, h the header *)
(* it works from.                                                          *)

(* Mutant of Pop: the tail survives the node it points to.                 *)
PopKeepTail(k) ==
  /\ head' = IF k < Len(Queue) THEN Queue[k + 1] ELSE NULL
  /\ tail' = tail
  /\ allocated' = allocated \ {Queue[i] : i \in 1..k}
  /\ count' = count - k
  /\ UNCHANGED node

(* Mutant of Pop: the head stays where it was.                             *)
PopKeepHead(k) ==
  /\ UNCHANGED <<head, tail, node>>
  /\ allocated' = allocated \ {Queue[i] : i \in 1..k}
  /\ count' = count - k

(* The first k nodes are released.  The prev of the new head is not reset. *)
Pop(k) ==
  /\ head' = IF k < Len(Queue) THEN Queue[k + 1] ELSE NULL
  /\ tail' = IF k < Len(Queue) THEN tail ELSE NULL
  /\ allocated' = allocated \ {Queue[i] : i \in 1..k}
  /\ count' = count - k
  /\ UNCHANGED node

(* seq_next when flush_reorder_queue has released k nodes.                 *)
FlushedTo(k) == IF k = 0 THEN seq_next ELSE node[Queue[k]].end

(* Mutant of FlushAndAccept: the packet goes, the nodes stay.              *)
AcceptUnflushed(k, id, h) ==
  /\ Pop(0)
  /\ given' = Append(given, id)
  /\ seq_next' = Later(seq_next, h.end)

(* flush_reorder_queue up to the k-th node, then the packet itself.        *)
FlushAndAccept(k, id, h) ==
  /\ Pop(k)
  /\ given' = given \o EntriesOf(SubSeq(Queue, 1, k)) \o <<id>>
  /\ seq_next' = Later(FlushedTo(k), h.end)

(* The packet is kept in a new cell; reorder_count becomes n.              *)
Keep(cell, n) ==
  /\ cell \in Addresses \ allocated
  /\ allocated' = allocated \cup {cell}
  /\ count' = n
  /\ UNCHANGED <<given, seq_next>>

Cell(id, h, prev, next) ==
  [entry |-> id, seq |-> h.seq, end |-> h.end, prev |-> prev, next |-> next]

-----------------------------------------------------------------------------
(* reorder_queue_enqueue_packet, one operator per branch.                  *)

EnqueueSyn(id, h) ==
  /\ h.syn
  /\ Pop(Len(Queue))
  /\ given' = given \o EntriesOf(Queue) \o <<id>>
  /\ seq_next' = (h.seq + 1) % SeqRange

EnqueueEmpty(id, h) ==
  /\ ~h.syn /\ h.empty
  /\ FlushAndAccept(Len(Queue), id, h)

IsData(h) == ~h.syn /\ ~h.empty

(* Nothing in the packet is new.                                           *)
EnqueueOld(id, h) ==
  /\ IsData(h)
  /\ NotAfter(h.end, seq_next)
  /\ given' = Append(given, id)
  /\ UNCHANGED <<list_vars, count, seq_next>>

(* seq_next after the packet and the first k held ones.                    *)
Runs(from) ==
  LET run[k \in 0..Len(Queue)] ==
        IF k = 0 THEN from ELSE Later(run[k - 1], node[Queue[k]].end)
  IN  run

(* The packet is the next one: it goes, and with it every held packet that *)
(* it makes the next one.                                                  *)
EnqueueInSeq(id, h) ==
  /\ IsData(h)
  /\ ~NotAfter(h.end, seq_next) /\ NotAfter(h.seq, seq_next)
  /\ LET gaps == {k \in 1..Len(Queue) :
                    ~NotAfter(node[Queue[k]].seq, Runs(h.end)[k - 1])}
         k    == Min(gaps \cup {Len(Queue) + 1}) - 1
     IN  /\ Pop(k)
         /\ given' = given \o <<id>> \o EntriesOf(SubSeq(Queue, 1, k))
         /\ seq_next' = Runs(h.end)[k]

Ahead(h) == IsData(h) /\ ~NotAfter(h.end, seq_next) /\ ~NotAfter(h.seq, seq_next)

(* Mutant of Full: one packet more.                                        *)
FullLate == count > MAX_REORDER_COUNT + 1

Full == count > MAX_REORDER_COUNT

(* The limit is tested before the packet is added.                         *)
EnqueueLimit(id, h) ==
  /\ Ahead(h)
  /\ Full
  /\ FlushAndAccept(Len(Queue), id, h)

(* Mutant of EnqueueFirst: the count is not restarted.                     *)
EnqueueFirstUncounted(id, h) ==
  /\ Ahead(h) /\ ~Full
  /\ head = NULL
  /\ \E cell \in Addresses :
       /\ Keep(cell, count)
       /\ node' = [node EXCEPT ![cell] = Cell(id, h, NULL, NULL)]
       /\ head' = cell /\ tail' = cell

EnqueueFirst(id, h) ==
  /\ Ahead(h) /\ ~Full
  /\ head = NULL
  /\ \E cell \in Addresses :
       /\ Keep(cell, 1)
       /\ node' = [node EXCEPT ![cell] = Cell(id, h, NULL, NULL)]
       /\ head' = cell /\ tail' = cell

(* Where the walk stops: the first node that starts no earlier than the    *)
(* packet ends, NULL if there is none.                                     *)
Stop(h) ==
  LET beyond == {k \in 1..Len(Queue) : NotAfter(h.end, node[Queue[k]].seq)}
  IN  IF beyond = {} THEN NULL ELSE Queue[Min(beyond)]

Walks(h) == Ahead(h) /\ ~Full /\ head # NULL

EnqueueOverTail(id, h) ==
  /\ Walks(h) /\ Stop(h) = NULL
  /\ Before(h.seq, node[tail].end)
  /\ FlushAndAccept(Len(Queue), id, h)

EnqueueTail(id, h) ==
  /\ Walks(h) /\ Stop(h) = NULL
  /\ ~Before(h.seq, node[tail].end)
  /\ \E cell \in Addresses :
       /\ Keep(cell, count + 1)
       /\ node' = [node EXCEPT ![cell] = Cell(id, h, tail, NULL), ![tail].next = cell]
       /\ tail' = cell
  /\ UNCHANGED head

(* Mutant of EnqueueHead: reorder_queue_head is not moved.                 *)
EnqueueHeadUnlinked(id, h) ==
  /\ Walks(h) /\ Stop(h) # NULL
  /\ node[Stop(h)].prev = NULL
  /\ \E cell \in Addresses :
       /\ Keep(cell, count + 1)
       /\ node' = [node EXCEPT ![cell] = Cell(id, h, NULL, head), ![head].prev = cell]
  /\ UNCHANGED <<head, tail>>

(* The code takes a node without a prev for the head.                      *)
EnqueueHead(id, h) ==
  /\ Walks(h) /\ Stop(h) # NULL
  /\ node[Stop(h)].prev = NULL
  /\ \E cell \in Addresses :
       /\ Keep(cell, count + 1)
       /\ node' = [node EXCEPT ![cell] = Cell(id, h, NULL, head), ![head].prev = cell]
       /\ head' = cell
  /\ UNCHANGED tail

(* Mutant of OverlapsPrev: the node in front is not looked at.             *)
OverlapsPrevNever(h) == {FALSE}

(* seq - node_tmp->prev->seq_next < 0.  When prev names a cell that was    *)
(* released, the comparison reads whatever is there by now.                *)
OverlapsPrev(h) ==
  LET prev == node[Stop(h)].prev
  IN  IF prev \in allocated THEN {Before(h.seq, node[prev].end)} ELSE BOOLEAN

EnqueueOverPrev(id, h) ==
  /\ Walks(h) /\ Stop(h) # NULL
  /\ node[Stop(h)].prev # NULL
  /\ TRUE \in OverlapsPrev(h)
  /\ \E k \in 1..Len(Queue) :
       Queue[k] = Stop(h) /\ FlushAndAccept(k - 1, id, h)

(* The packet goes between node_tmp->prev and node_tmp.  Four assignments  *)
(* in the code's order: cell may be the very one that prev still names.    *)
LinkBetween(cell, id, h) ==
  LET stop   == Stop(h)
      filled == [node EXCEPT ![cell] = Cell(id, h, node[stop].prev, stop)]
      behind == [filled EXCEPT ![filled[cell].prev].next = cell]
  IN  [behind EXCEPT ![behind[cell].next].prev = cell]

EnqueueBetween(id, h) ==
  /\ Walks(h) /\ Stop(h) # NULL
  /\ node[Stop(h)].prev # NULL
  /\ FALSE \in OverlapsPrev(h)
  /\ \E cell \in Addresses :
       /\ Keep(cell, count + 1)
       /\ node' = LinkBetween(cell, id, h)
  /\ UNCHANGED <<head, tail>>

(* What the handler does with the lock held.                               *)
Handle(id, h) ==
  \/ EnqueueSyn(id, h) \/ EnqueueEmpty(id, h)
  \/ EnqueueOld(id, h) \/ EnqueueInSeq(id, h)
  \/ EnqueueLimit(id, h) \/ EnqueueFirst(id, h)
  \/ EnqueueOverTail(id, h) \/ EnqueueTail(id, h)
  \/ EnqueueHead(id, h)
  \/ EnqueueOverPrev(id, h) \/ EnqueueBetween(id, h)

Arrives(p) ==
  /\ Len(rx) < MaxPackets
  /\ Cardinality({i \in 1..Len(rx) : rx[i] = p}) < MaxCopies
  /\ rx' = Append(rx, p)

(* Every packet restarts the timer before it is looked at.                 *)
Enqueue(p) ==
  /\ Arrives(p)
  /\ armed' = TRUE
  /\ Handle(Len(rx) + 1, p)

FlushAll ==
  /\ Pop(Len(Queue))
  /\ given' = given \o EntriesOf(Queue)
  /\ seq_next' = FlushedTo(Len(Queue))

hrtimer_callback ==
  /\ armed
  /\ armed' = FALSE
  /\ FlushAll
  /\ UNCHANGED rx

Next == hrtimer_callback \/ \E p \in Packets : Enqueue(p)

Spec == Init /\ [][Next]_vars

-----------------------------------------------------------------------------
(* Properties.                                                             *)

TypeOK ==
  /\ rx \in Seq(Packets)
  /\ given \in Seq(1..Len(rx))
  /\ node \in [Addresses -> [entry : 0..Len(rx), seq : 0..(SeqRange - 1),
                             end : 0..(SeqRange - 1),
                             prev : Addresses \cup {NULL}, next : Addresses \cup {NULL}]]
  /\ allocated \subseteq Addresses
  /\ {head, tail} \subseteq Addresses \cup {NULL}
  /\ count \in Nat /\ seq_next \in 0..(SeqRange - 1) /\ armed \in BOOLEAN

Held == {node[Queue[k]].entry : k \in 1..Len(Queue)}

Gone == ToSet(given)

(* Packets that nothing in the handler can reach any more.                 *)
Lost == 1..Len(rx) \ (Held \cup Gone)

(* Only one thing makes the handler lose a packet: it is put in front of a *)
(* head whose prev was left behind by the release of its predecessor, so   *)
(* that line 189 takes it for a node in the middle.                        *)
LostOnlyInFrontOfStaleHead ==
  [][Lost' # Lost =>
       /\ Lost' = Lost \cup {Len(rx')}
       /\ head # NULL /\ node[head].prev # NULL /\ node[head].prev \notin {Queue[k] : k \in 1..Len(Queue)}]_vars

(* The list stays usable whatever was released from it: the next pointers  *)
(* lead from head to tail over allocated cells, and behind the head each   *)
(* prev names the node in front.                                           *)
WellLinked ==
  /\ (head = NULL) = (tail = NULL)
  /\ head # NULL => Queue[Len(Queue)] = tail
  /\ {Queue[k] : k \in 1..Len(Queue)} \subseteq allocated
  /\ \A k \in 2..Len(Queue) : node[Queue[k]].prev = Queue[k - 1]

(* The packets held follow one another without overlap, however they were  *)
(* cut, and start behind seq_next.                                         *)
Sorted ==
  /\ \A k \in 2..Len(Queue) : NotAfter(node[Queue[k - 1]].end, node[Queue[k]].seq)
  /\ \A k \in 1..Len(Queue) : NotAfter(seq_next, node[Queue[k]].seq)

(* No packet is reinjected twice, and none is that is still held.          *)
AtMostOnce ==
  /\ \A i, j \in 1..Len(given) : given[i] = given[j] => i = j
  /\ Held \cap Gone = {}

(* The limit bounds the list, though one packet above its name, and counts *)
(* no fewer nodes than there are.                                          *)
Bounded == Len(Queue) <= count /\ count <= MAX_REORDER_COUNT + 1

(* A packet is never reinjected while one that precedes it is held back.   *)
NoOvertaking ==
  [][\A i \in (Len(given) + 1)..Len(given') : \A y \in Held' :
       ~Before(rx'[y].seq, rx'[given'[i]].seq)]_vars

(* Without a new connection seq_next never moves back, although            *)
(* flush_reorder_queue assigns it.                                         *)
SeqNextMonotone ==
  [][~Before(seq_next', seq_next) \/ (rx' # rx /\ rx'[Len(rx')].syn)]_vars

(* Every packet is still within reach of the handler or was reinjected.    *)
NoneLost == Lost = {}
=============================================================================
