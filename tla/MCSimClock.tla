------------------------------ MODULE MCSimClock ------------------------------
(* SimClock with two clocks whose edges drift apart and meet again.         *)
EXTENDS SimClock

Param(period, phase, init, cpol, rpol) ==
  [dwPeriod |-> period, dwPhase |-> phase, bInitValue |-> init,
   ClockPolarity |-> cpol, ResetPolarity |-> rpol]

FourParams ==
  {Param(2, 0, 0, 1, 0), Param(3, 0, 1, 0, 1),
   Param(3, 1, 0, 1, 1), Param(2, 5, 1, 1, 0)}
===============================================================================
