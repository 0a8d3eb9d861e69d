-------------------------- MODULE MCInterruptService --------------------------
(* InterruptService with two vectors and two services.                      *)
EXTENDS InterruptService

CONSTANTS v1, v2, p1, p2
===============================================================================
