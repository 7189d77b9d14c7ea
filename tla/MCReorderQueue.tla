--------------------------- MODULE MCReorderQueue ---------------------------
(* Small instances of ReorderQueue: a sequence space of 32 that the data   *)
(* crosses, segments of length 2.                                          *)
EXTENDS ReorderQueue, TLC

Hdr(syn, s, l) ==
  [syn |-> syn, empty |-> l = 0, seq |-> s, end |-> (s + l) % SeqRange]

Segment(s) == Hdr(FALSE, s, 2)

Symmetric == Permutations(Addresses)

(* A connection: its SYN, six segments of which any may be missing, two of *)
(* them also cut elsewhere as they may be when they are resent, and the    *)
(* acknowledgement of the handshake, which may come late.                  *)
Connection ==
  {Hdr(TRUE, 27, 0), Hdr(FALSE, 28, 0)}
    \cup {Segment(s) : s \in {28, 30, 0, 2, 4}}
    \cup {Hdr(FALSE, 29, 2), Hdr(FALSE, 31, 4)}
=============================================================================
