------------------------------- MODULE MCIsrWake ------------------------------
(* IsrWake on the holds of MCDelayLock.                                     *)
EXTENDS IsrWake

CONSTANTS s1, s2, h1, i1
===============================================================================
