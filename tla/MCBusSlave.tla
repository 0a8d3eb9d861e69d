------------------------------- MODULE MCBusSlave -----------------------------
(* BusSlave on small sets: one slave serves all the registers.              *)
EXTENDS BusSlave

CONSTANTS c1, c2, s1, r1, r2, d1, d2, w1, w2

OneSlave(r) == s1
===============================================================================
