---------------------------- MODULE MCNf10Driver ----------------------------
(* A small card: three packets fill its packet memory and leave one of its *)
(* four descriptors, as packets of more than 961 bytes do with the real    *)
(* sizes.                                                                  *)
EXTENDS Nf10Driver

CONSTANTS nf0, nf1

TwoPorts == {nf0, nf1}
=============================================================================
