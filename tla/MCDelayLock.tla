------------------------------ MODULE MCDelayLock -----------------------------
(* DelayLock on two software holds, a hardware and an interrupt hold.       *)
EXTENDS DelayLock

CONSTANTS s1, s2, h1, i1
===============================================================================
