---------------------------- MODULE InterruptService ---------------------------
(***************************************************************************)
(* Interrupts from the simulated hardware to the software:                 *)
(* SimSystem/src/InterruptService.cpp, with ThreadManager::KillThread on   *)
(* its thread and the calls SimEngine.cpp and SystemSim.cpp make of it.    *)
(*                                                                         *)
(*   engine thread     Awake, while it evaluates; Enable(false) at its end *)
(*   interrupt thread  MonitorThread: takes vectors and calls the routine  *)
(*   main thread       Enable, RegisterService, KillThread                 *)
(*                                                                         *)
(* A section under m_QeueueLock is one step; every access to m_bEnable,    *)
(* m_bRun, m_ISR, m_pPrivate and m_Pending made outside it is a step of    *)
(* its own.  That m_Pending is a map that two of those steps may touch at  *)
(* once is not followed: each is taken to happen entirely.  The engine's   *)
(* Unlock and Lock(1500) that end a service are in DelayLock.              *)
(***************************************************************************)
EXTENDS Naturals, Sequences, SequencesExt

CONSTANTS Vectors,     \* interrupt vectors
          Services,    \* a routine with the private pointer that goes with it
          Default,     \* __interrupt_service_routine_default and NULL
          Calls,       \* what the main thread may call
          NoVector,
          MaxQueue     \* bound of the model: queued vectors, and tokens

ASSUME DefaultAssumption == Default \in Services
ASSUME VectorsAssumption == NoVector \notin Vectors
ASSUME CallsAssumption   == Calls \subseteq {"enable", "disable", "register"}

VARIABLES
  m_bRun, m_bEnable, m_ISR, m_pPrivate,
  m_Pending,           \* the vectors that map to true
  m_Qeueue, m_SemaInterrupt,
  lost,                \* history: the queued vectors whose token was taken from
                       \* m_SemaInterrupt while m_bEnable was false
  monitor, iVector,    \* the interrupt thread: its place, the vector in hand
  isr, priv,           \* the two pointers it has loaded for the call
  awake,               \* the vector whose Awake() is past its m_bEnable test
  up,                  \* the engine thread still evaluates
  main, bEnable,       \* the main thread: its place, the value it will enable
  service,             \* the service it registers
  forced,              \* it has called OnThreadKill(true)
  swept                \* history: RegisterService has emptied the queue since
                       \* the vector in hand was taken from it

flags    == <<m_bRun, m_bEnable>>
pair     == <<m_ISR, m_pPrivate>>
queueVars == <<m_Pending, m_Qeueue, m_SemaInterrupt, lost>>
monVars  == <<monitor, iVector, isr, priv>>
engVars  == <<awake, up>>
mainVars == <<main, bEnable, service, forced>>
vars     == <<flags, pair, queueVars, monVars, engVars, mainVars, swept>>

-------------------------------------------------------------------------------
Init ==
  /\ m_bRun = TRUE /\ m_bEnable = FALSE
  /\ m_ISR = Default /\ m_pPrivate = Default
  /\ m_Pending = {} /\ m_Qeueue = <<>> /\ m_SemaInterrupt = 0
  /\ lost = 0
  /\ monitor = "loop" /\ iVector = NoVector
  /\ isr = Default /\ priv = Default
  /\ awake = NoVector /\ up = TRUE
  /\ main = "idle" /\ bEnable = FALSE /\ service = Default /\ forced = FALSE
  /\ swept = FALSE

-------------------------------------------------------------------------------
(* Awake: the test of m_bEnable, then the section.                          *)
AwakeTest(v) ==
  /\ up
  /\ awake = NoVector
  /\ m_bEnable
  /\ Len(m_Qeueue) < MaxQueue /\ m_SemaInterrupt < MaxQueue
  /\ awake' = v
  /\ UNCHANGED <<flags, pair, queueVars, monVars, up, mainVars, swept>>

(* Mutant: the thread is woken for the first queued vector only.            *)
AwakeFirst ==
  /\ awake # NoVector
  /\ IF awake \in m_Pending THEN UNCHANGED queueVars
     ELSE /\ m_Pending' = m_Pending \cup {awake}
          /\ m_Qeueue' = Append(m_Qeueue, awake)
          /\ m_SemaInterrupt' =
               IF m_Qeueue = <<>> THEN m_SemaInterrupt + 1 ELSE m_SemaInterrupt
          /\ lost' = lost
  /\ awake' = NoVector
  /\ UNCHANGED <<flags, pair, monVars, up, mainVars, swept>>

AwakePush ==
  /\ awake # NoVector
  /\ IF awake \in m_Pending THEN UNCHANGED queueVars
     ELSE /\ m_Pending' = m_Pending \cup {awake}
          /\ m_Qeueue' = Append(m_Qeueue, awake)
          /\ m_SemaInterrupt' = m_SemaInterrupt + 1
          /\ lost' = lost
  /\ awake' = NoVector
  /\ UNCHANGED <<flags, pair, monVars, up, mainVars, swept>>

(* SimEngine::MonitorThread after its loop: Enable(false).                  *)
EngineEnds ==
  /\ up
  /\ awake = NoVector
  /\ up' = FALSE
  /\ m_bEnable' = FALSE
  /\ UNCHANGED <<m_bRun, pair, queueVars, monVars, awake, mainVars, swept>>

-------------------------------------------------------------------------------
(* MonitorThread.                                                           *)
Loop ==
  /\ monitor = "loop"
  /\ monitor' = IF m_bRun THEN "down" ELSE "stopped"
  /\ UNCHANGED <<flags, pair, queueVars, iVector, isr, priv, engVars, mainVars,
                 swept>>

Down ==
  /\ monitor = "down"
  /\ m_SemaInterrupt > 0
  /\ m_SemaInterrupt' = m_SemaInterrupt - 1
  /\ monitor' = "test"
  /\ UNCHANGED <<flags, pair, m_Pending, m_Qeueue, lost, iVector, isr, priv,
                 engVars, mainVars, swept>>

AtMost(n, bound) == IF n <= bound THEN n ELSE bound

Test ==
  /\ monitor = "test"
  /\ IF m_bEnable
       THEN monitor' = "pop" /\ UNCHANGED lost
       ELSE /\ monitor' = "loop"
            /\ lost' = AtMost(lost + 1, Len(m_Qeueue))
  /\ UNCHANGED <<flags, pair, m_Pending, m_Qeueue, m_SemaInterrupt, iVector,
                 isr, priv, engVars, mainVars, swept>>

Pop ==
  /\ monitor = "pop"
  /\ IF m_Qeueue = <<>>
       THEN monitor' = "loop" /\ UNCHANGED <<m_Qeueue, lost, iVector, swept>>
       ELSE /\ monitor' = "load"
            /\ iVector' = Head(m_Qeueue)
            /\ m_Qeueue' = Tail(m_Qeueue)
            /\ lost' = AtMost(lost, Len(m_Qeueue) - 1)
            /\ swept' = FALSE
  /\ UNCHANGED <<flags, pair, m_Pending, m_SemaInterrupt, isr, priv, engVars,
                 mainVars>>

(* The call loads m_ISR and m_pPrivate, in an order C++ leaves open.        *)
LoadIsr ==
  /\ monitor \in {"load", "isr left"}
  /\ isr' = m_ISR
  /\ monitor' = IF monitor = "load" THEN "private left" ELSE "call"
  /\ UNCHANGED <<flags, pair, queueVars, iVector, priv, engVars, mainVars, swept>>

LoadPrivate ==
  /\ monitor \in {"load", "private left"}
  /\ priv' = m_pPrivate
  /\ monitor' = IF monitor = "load" THEN "isr left" ELSE "call"
  /\ UNCHANGED <<flags, pair, queueVars, iVector, isr, engVars, mainVars, swept>>

(* The routine returns.                                                     *)
Return ==
  /\ monitor = "call"
  /\ monitor' = "served"
  /\ isr' = Default /\ priv' = Default
  /\ UNCHANGED <<flags, pair, queueVars, iVector, engVars, mainVars, swept>>

Served ==
  /\ monitor = "served"
  /\ m_Pending' = m_Pending \ {iVector}
  /\ iVector' = NoVector
  /\ monitor' = "loop"
  /\ swept' = FALSE
  /\ UNCHANGED <<flags, pair, m_Qeueue, m_SemaInterrupt, lost, isr, priv,
                 engVars, mainVars>>

-------------------------------------------------------------------------------
(* Enable(b): the comparison, m_Pending.clear(), the assignment.            *)
CallEnable(b) ==
  /\ main = "idle"
  /\ (IF b THEN "enable" ELSE "disable") \in Calls
  /\ main' = "compare"
  /\ bEnable' = b
  /\ UNCHANGED <<flags, pair, queueVars, monVars, engVars, service, forced, swept>>

Compare ==
  /\ main = "compare"
  /\ main' = IF m_bEnable = bEnable THEN "idle"
             ELSE IF bEnable THEN "clear" ELSE "set"
  /\ UNCHANGED <<flags, pair, queueVars, monVars, engVars, bEnable, service,
                 forced, swept>>

Clear ==
  /\ main = "clear"
  /\ m_Pending' = {}
  /\ main' = "set"
  /\ UNCHANGED <<flags, pair, m_Qeueue, m_SemaInterrupt, lost, monVars, engVars,
                 bEnable, service, forced, swept>>

Set ==
  /\ main = "set"
  /\ m_bEnable' = bEnable
  /\ main' = "idle"
  /\ UNCHANGED <<m_bRun, pair, queueVars, monVars, engVars, bEnable, service,
                 forced, swept>>

(* RegisterService: m_bEnable is kept, and Enable(false).                   *)
CallRegister(s) ==
  /\ main = "idle"
  /\ "register" \in Calls
  /\ bEnable' = m_bEnable
  /\ service' = s
  /\ main' = "disable"
  /\ UNCHANGED <<flags, pair, queueVars, monVars, engVars, forced, swept>>

Disable ==
  /\ main = "disable"
  /\ m_bEnable' = FALSE
  /\ main' = "routine"
  /\ UNCHANGED <<m_bRun, pair, queueVars, monVars, engVars, bEnable, service,
                 forced, swept>>

SetRoutine ==
  /\ main = "routine"
  /\ m_ISR' = service
  /\ main' = "private"
  /\ UNCHANGED <<flags, m_pPrivate, queueVars, monVars, engVars, bEnable,
                 service, forced, swept>>

(* Mutant: RegisterService empties the queue only when it has disabled      *)
(* interrupts itself.                                                       *)
SetPrivateOnly ==
  /\ main = "private"
  /\ m_pPrivate' = service
  /\ main' = IF bEnable THEN "sweep" ELSE "compare"
  /\ UNCHANGED <<flags, m_ISR, queueVars, monVars, engVars, bEnable, service,
                 forced, swept>>

SetPrivate ==
  /\ main = "private"
  /\ m_pPrivate' = service
  /\ main' = "sweep"
  /\ UNCHANGED <<flags, m_ISR, queueVars, monVars, engVars, bEnable, service,
                 forced, swept>>

(* Mutant: the queue is emptied, the pending marks stay.                    *)
SweepQueue ==
  /\ main = "sweep"
  /\ m_Qeueue' = <<>> /\ lost' = 0
  /\ swept' = (iVector # NoVector)
  /\ main' = "compare"
  /\ UNCHANGED <<flags, pair, m_Pending, m_SemaInterrupt, monVars, engVars,
                 bEnable, service, forced>>

Sweep ==
  /\ main = "sweep"
  /\ m_Pending' = {}
  /\ m_Qeueue' = <<>> /\ lost' = 0
  /\ swept' = (iVector # NoVector)
  /\ main' = "compare"
  /\ UNCHANGED <<flags, pair, m_SemaInterrupt, monVars, engVars, bEnable,
                 service, forced>>

-------------------------------------------------------------------------------
(* KillThread and OnThreadKill, which it calls once more on a timeout.      *)
Kill ==
  /\ main = "idle"
  /\ main' = IF monitor = "stopped" THEN "waiting" ELSE "stop"
  /\ UNCHANGED <<flags, pair, queueVars, monVars, engVars, bEnable, service,
                 forced, swept>>

KillRun ==
  /\ main = "stop"
  /\ m_bRun' = FALSE
  /\ main' = "mask"
  /\ UNCHANGED <<m_bEnable, pair, queueVars, monVars, engVars, bEnable, service,
                 forced, swept>>

KillEnable ==
  /\ main = "mask"
  /\ m_bEnable' = FALSE
  /\ main' = "forget"
  /\ UNCHANGED <<m_bRun, pair, queueVars, monVars, engVars, bEnable, service,
                 forced, swept>>

KillPending ==
  /\ main = "forget"
  /\ m_Pending' = {}
  /\ main' = "up"
  /\ UNCHANGED <<flags, pair, m_Qeueue, m_SemaInterrupt, lost, monVars, engVars,
                 bEnable, service, forced, swept>>

(* Mutant: OnThreadKill does not wake the thread.                           *)
KillSilent ==
  /\ main = "up"
  /\ main' = "waiting"
  /\ UNCHANGED <<flags, pair, queueVars, monVars, engVars, bEnable, service,
                 forced, swept>>

KillUp ==
  /\ main = "up"
  /\ m_SemaInterrupt' = m_SemaInterrupt + 1
  /\ main' = "waiting"
  /\ UNCHANGED <<flags, pair, m_Pending, m_Qeueue, lost, monVars, engVars,
                 bEnable, service, forced, swept>>

KillTimeout ==
  /\ main = "waiting"
  /\ monitor # "stopped"
  /\ ~ forced
  /\ forced' = TRUE
  /\ main' = "stop"
  /\ UNCHANGED <<flags, pair, queueVars, monVars, engVars, bEnable, service, swept>>

Join ==
  /\ main = "waiting"
  /\ monitor = "stopped"
  /\ main' = "joined"
  /\ UNCHANGED <<flags, pair, queueVars, monVars, engVars, bEnable, service,
                 forced, swept>>

-------------------------------------------------------------------------------
EngineStep == (\E v \in Vectors : AwakeTest(v)) \/ AwakePush \/ EngineEnds

MonitorStep ==
  \/ Loop \/ Down \/ Test \/ Pop \/ LoadIsr \/ LoadPrivate \/ Return \/ Served

Enabling == Compare \/ Clear \/ Set

Registering == Disable \/ SetRoutine \/ SetPrivate \/ Sweep

Killing == KillRun \/ KillEnable \/ KillPending \/ KillUp \/ Join

MainStep ==
  \/ \E b \in BOOLEAN : CallEnable(b)
  \/ \E s \in Services : CallRegister(s)
  \/ Enabling \/ Registering
  \/ Kill \/ Killing \/ KillTimeout

Next == EngineStep \/ MonitorStep \/ MainStep

Spec == Init /\ [][Next]_vars

(* Every thread goes on inside a call, the semaphore serves its waiter, and *)
(* the routine returns.  Nothing is assumed of when interrupts are raised   *)
(* or what the main thread calls, and nothing of the timeout.               *)
Fairness ==
  /\ WF_vars(AwakePush)
  /\ WF_vars(MonitorStep)
  /\ WF_vars(Enabling) /\ WF_vars(Registering) /\ WF_vars(Killing)

FairSpec == Spec /\ Fairness

-------------------------------------------------------------------------------
Serving == iVector # NoVector

(* The types of the state.                                                  *)
TypeOK ==
  /\ m_bRun \in BOOLEAN /\ m_bEnable \in BOOLEAN
  /\ m_ISR \in Services /\ m_pPrivate \in Services
  /\ m_Pending \subseteq Vectors
  /\ m_Qeueue \in Seq(Vectors)
  /\ m_SemaInterrupt \in Nat /\ lost \in Nat
  /\ monitor \in {"loop", "down", "test", "pop", "load", "isr left",
                  "private left", "call", "served", "stopped"}
  /\ iVector \in Vectors \cup {NoVector}
  /\ isr \in Services /\ priv \in Services
  /\ awake \in Vectors \cup {NoVector} /\ up \in BOOLEAN
  /\ main \in {"idle", "compare", "clear", "set", "disable", "routine",
               "private", "sweep", "stop", "mask", "forget", "up", "waiting",
               "joined"}
  /\ bEnable \in BOOLEAN /\ service \in Services /\ forced \in BOOLEAN
  /\ swept \in BOOLEAN

(* A vector marked pending is queued or in the routine's hands: Awake drops *)
(* every interrupt of a pending vector, so a mark left over would mask its  *)
(* vector until the next Enable or RegisterService.                         *)
MarksAccounted ==
  \A v \in m_Pending : v = iVector \/ Contains(m_Qeueue, v)

(* Every queued vector has a token of m_SemaInterrupt that will make the    *)
(* interrupt thread look for it, but for the tokens that the thread took    *)
(* while interrupts were disabled: those vectors wait for a later token.    *)
TokensAccounted ==
  Len(m_Qeueue) <=
    m_SemaInterrupt + lost + (IF monitor \in {"test", "pop"} THEN 1 ELSE 0)

(* Neither a mark without its vector nor, as long as interrupts stay        *)
(* enabled, a vector without its token (InterruptService.cpp: Awake, Enable,*)
(* RegisterService, OnThreadKill, MonitorThread, which clear the marks and  *)
(* test m_bEnable without the lock).                                        *)
PendingAccounted == MarksAccounted /\ TokensAccounted

(* A routine gets the private pointer it was registered with, except in the *)
(* one call whose vector had left the queue before RegisterService emptied  *)
(* it: no vector taken later meets a half-registered service.               *)
MixedOnlyInHand ==
  monitor = "call" /\ isr # priv => swept \/ main \in {"private", "sweep"}

(* KillThread joins the interrupt thread wherever it is, asleep in Down()   *)
(* or in a service, and whatever the main thread registered before.         *)
KillJoins == (main = "stop") ~> (main = "joined")

Masked == main \in {"disable", "stop", "joined"} \/ ~ up \/ (main = "compare" /\ ~ bEnable)

(* As long as nobody disables interrupts or ends the thread, every vector   *)
(* that is queued reaches the routine: m_SemaInterrupt never runs out while *)
(* m_Qeueue holds a vector.                                                 *)
QueuedIsServed ==
  [] ~ Masked =>
    \A v \in Vectors : Contains(m_Qeueue, v) ~> (monitor = "call" /\ iVector = v)
===============================================================================
