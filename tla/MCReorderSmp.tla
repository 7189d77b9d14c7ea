---------------------------- MODULE MCReorderSmp ----------------------------
(* Small instances of ReorderSmp: segments of one connection, which arrive *)
(* in any order.                                                           *)
EXTENDS ReorderSmp

Segment(s) == [syn |-> FALSE, empty |-> FALSE, seq |-> s, end |-> (s + 2) % SeqRange]

ThreeSegments == {Segment(s) : s \in {0, 2, 4}}
=============================================================================
