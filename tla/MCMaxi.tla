--------------------------------- MODULE MCMaxi --------------------------------
(* Maxi with a burst of two beats, two of one and one to a slave in either  *)
(* direction, and a queue of two.                                           *)
EXTENDS Maxi

CONSTANTS w1, w2, w3, ws, r1, r2, r3, rs

TwoOf == {w2, r2}
MCBeats == [t \in Bursts |-> IF t \in TwoOf THEN 2 ELSE 1]
MCLoads == {{w1, w2, w3, ws}, {r1, r2, r3, rs}}
================================================================================
