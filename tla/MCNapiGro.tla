------------------------------ MODULE MCNapiGro ------------------------------
(* Small instances of NapiGro: one flow, two segments, two CPUs.           *)
EXTENDS NapiGro

Data(s) == [flow |-> 1, seq |-> s, len |-> 2, psh |-> FALSE, hdr |-> 0, kind |-> "data"]

TwoSegments == {Data(0), Data(2)}

OneHash == <<1>>
=============================================================================
