-------------------------------- MODULE IsrWake -------------------------------
(***************************************************************************)
(* DelayLock with a history of the interrupt services that have not yet    *)
(* been followed by a clock: InterruptService::MonitorThread unlocks and   *)
(* re-locks the engine after each ISR "to wake up simulation a little bit  *)
(* for h/w interrupt deassertion".                                         *)
(***************************************************************************)
EXTENDS DelayLock

VARIABLE unserved   \* vectors unlocked with no evaluation begun since

wakeVars == <<vars, unserved>>

WakeInit == Init /\ unserved = {}

WakeNext ==
  /\ Next
  /\ unserved' =
       (IF engine = "tik" /\ engine' = "eval" THEN {} ELSE unserved)
         \cup {v \in IsrHolds : stage[v] = "idle" /\ stage'[v] = "raised"}

WakeSpec == WakeInit /\ [][WakeNext]_wakeVars

(* When the engine sleeps, every interrupt service that has finished its    *)
(* UnLock and its Lock(1500) has been given a clock (the comment at         *)
(* InterruptService.cpp:75).                                                *)
IsrWakesSimulation ==
  Asleep => \A v \in unserved : stage[v] # "idle"
===============================================================================
