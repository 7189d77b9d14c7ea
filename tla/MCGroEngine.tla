---------------------------- MODULE MCGroEngine ----------------------------
(* Small instances of GroEngine.  Sequence numbers live in a space of 32,  *)
(* a full-sized segment has length 2, and flow 1 starts at 28 so that its  *)
(* segments straddle the wrap-around.                                      *)
EXTENDS GroEngine

Pkt(f, s, l, psh, h, kind) ==
  [flow |-> f, seq |-> s, len |-> l, psh |-> psh, hdr |-> h, kind |-> kind]

Data(f, s) == Pkt(f, s, 2, FALSE, 0, "data")

(* One flow: full segments and what makes merging fail: PSH, another       *)
(* header, and a short segment with a full one behind it.                  *)
MixedPackets ==
  {Data(1, 28), Data(1, 30), Data(1, 0), Data(1, 3)}
    \cup {Pkt(1, 30, 2, TRUE, 0, "data"), Pkt(1, 0, 2, FALSE, 1, "data"),
          Pkt(1, 2, 1, FALSE, 0, "data")}

(* Those that also come twice.                                             *)
TwicePackets == {Data(1, 28), Data(1, 30), Data(1, 0), Pkt(1, 2, 1, FALSE, 0, "data")}

(* Bulk data of one flow, five full segments in any order and repeated.    *)
BulkPackets == {Data(1, s) : s \in {28, 30, 0, 2, 4}}

(* More flows than gro_list may hold, a control segment, and a packet that *)
(* bypasses the engine.                                                    *)
PoolPackets ==
  {Data(f, 4) : f \in 1..3}
    \cup {Pkt(1, 6, 0, FALSE, 0, "ctl"), Pkt(1, 8, 2, FALSE, 0, "bypass")}

(* Flow 1 sends data around a control segment; the other flows send one    *)
(* segment each, so that with two queues flow 1 gets one used by another.  *)
ReusePackets ==
  {Data(1, 28), Data(1, 30), Pkt(1, 30, 0, FALSE, 0, "ctl"),
   Data(2, 6), Pkt(3, 6, 0, FALSE, 0, "ctl")}

(* Two segments that arrive in order, the second with PSH and another      *)
(* acknowledgement number.                                                 *)
PushPackets == {Data(1, 0), Pkt(1, 2, 2, TRUE, 1, "data")}

(* A scenario: packets, how many of them arrive, and how often each.       *)
Scenario(packets, number, copies) ==
  [packets |-> packets, number |-> number, copies |-> copies]

OneFlow == {Scenario(MixedPackets, 4, 1), Scenario(TwicePackets, 4, 2), Scenario(ReusePackets, 5, 1)}

ManyFlows == {Scenario(BulkPackets, 5, 1), Scenario(PoolPackets, 4, 2)}

PacketsOf(scenarios) == UNION {s.packets : s \in scenarios}

OneFlowPackets == PacketsOf(OneFlow)

ManyFlowPackets == PacketsOf(ManyFlows)

(* What has been received belongs to one of the scenarios.                 *)
Follows(scenarios, packets) ==
  \E s \in scenarios :
    /\ Len(packets) <= s.number
    /\ \A i \in 1..Len(packets) :
         /\ packets[i] \in s.packets
         /\ Cardinality({j \in 1..Len(packets) : packets[j] = packets[i]}) <= s.copies

OneFlowSpec == Init /\ [][Next /\ (rx' # rx => Follows(OneFlow, rx'))]_vars

ManyFlowsSpec == Init /\ [][Next /\ (rx' # rx => Follows(ManyFlows, rx'))]_vars

ThreeHashes == <<1, 2, 3>>

OneHash == <<1>>
=============================================================================
