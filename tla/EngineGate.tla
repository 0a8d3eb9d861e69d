------------------------------ MODULE EngineGate ------------------------------
(***************************************************************************)
(* What the simulation lock promises, with no counters and no semaphores:  *)
(* the engine thread clocks the hardware while somebody uses it and may    *)
(* fall asleep only when nobody does.  A hold may end before it begins: it *)
(* then owes its beginning, and may cover for one user until it comes.     *)
(* DelayLock implements this module.                                       *)
(***************************************************************************)
EXTENDS Integers, FiniteSets

CONSTANT Holds          \* everything that may ask for the simulation to run

VARIABLES users,        \* the holds whose UnLock has returned and whose Lock
                        \* has not yet been recorded
          owing,        \* those whose Lock was recorded first
          gate          \* what the engine thread does

gateVars == <<users, owing, gate>>

GateTypeOK ==
  /\ users \subseteq Holds
  /\ owing \subseteq Holds
  /\ gate \in {"awake", "asleep", "stopped"}

GateInit ==
  /\ users \subseteq Holds
  /\ owing = {}
  /\ gate = "awake"

(* A hold begins: a sleeping engine is woken in the same step.              *)
Begin(h) ==
  /\ h \notin users
  /\ IF h \in owing
       THEN owing' = owing \ {h} /\ UNCHANGED users
       ELSE users' = users \cup {h} /\ UNCHANGED owing
  /\ gate' = IF gate = "asleep" THEN "awake" ELSE gate

(* A hold ends.  The engine sleeps later, when the delay has run out.       *)
End(h) ==
  /\ h \in users
  /\ users' = users \ {h}
  /\ UNCHANGED <<owing, gate>>

(* A hold ends before it begins.  Only a running engine does this.          *)
EndFirst(h) ==
  /\ gate = "awake"
  /\ h \notin users \cup owing
  /\ owing' = owing \cup {h}
  /\ UNCHANGED <<users, gate>>

Unused(U) == Cardinality(U) <= Cardinality(owing)

(* The last hold ends with no delay: the engine parks on the spot.          *)
Park(h) ==
  /\ gate = "awake"
  /\ h \in users
  /\ Unused(users \ {h})
  /\ users' = users \ {h}
  /\ gate' = "asleep"
  /\ UNCHANGED owing

Sleep ==
  /\ gate = "awake"
  /\ Unused(users)
  /\ gate' = "asleep"
  /\ UNCHANGED <<users, owing>>

(* Termination wakes the engine although nobody uses it.                    *)
Wake ==
  /\ gate = "asleep"
  /\ gate' = "awake"
  /\ UNCHANGED <<users, owing>>

Stop ==
  /\ gate = "awake"
  /\ gate' = "stopped"
  /\ UNCHANGED <<users, owing>>

GateNext ==
  \/ \E h \in Holds : Begin(h) \/ End(h) \/ EndFirst(h) \/ Park(h)
  \/ Sleep \/ Wake \/ Stop

GateSpec == GateInit /\ [][GateNext]_gateVars
===============================================================================
