------------------------------ MODULE Lifecycle -------------------------------
(***************************************************************************)
(* From SystemSim::Initialize to SystemSim::Release: the main thread, the  *)
(* engine and the interrupt thread, their start and their end together,    *)
(* with the software's other threads in register accesses of their own.    *)
(*   SimSystem/src/SystemSim.cpp      Initialize, RegRead, RegWrite, Release*)
(*   SimSystem/src/SimEngine.cpp      Start, Terminate, OnThreadKill       *)
(*   SimSystem/src/ThreadManager.cpp  RunThread, KillThread                *)
(*                                                                         *)
(* The engine is what EngineGate says of DelayLock: it may sleep only when *)
(* nobody uses it.  Once released it may leave, even with users: Check()   *)
(* looks at m_iSema and m_bRun one after the other and misses some of them *)
(* (DelayLock's LeaveOnlyWhenIdle).  A register access is what RegisterBus *)
(* says of BusSlave: it waits for a running engine.  Of InterruptService   *)
(* one vector is kept.                                                     *)
(***************************************************************************)
EXTENDS Naturals

CONSTANTS
  Threads,             \* the software's threads beside the main thread
  Finishes             \* the design may call $finish

ASSUME FinishAssumption == Finishes \in BOOLEAN
ASSUME ThreadsAssumption ==
  {"main", "isr", "reset", "hardware"} \cap Threads = {}

VARIABLES
  main,                \* the main thread's place
  engine, isr,         \* the places of the other two
  released,            \* DelayLock's m_bRun is false
  m_bForceToExit,
  isrRun, m_bEnable,   \* InterruptService's m_bRun and m_bEnable
  raised,              \* the vector is queued
  users,               \* who has the engine unlocked
  access,              \* a register access of a thread
  m_LockSW             \* BusSlave's semaphore of the software

killVars == <<released, m_bForceToExit, isrRun>>
busVars  == <<access, m_LockSW>>
vars == <<main, engine, isr, killVars, m_bEnable, raised, users, busVars>>

-------------------------------------------------------------------------------
Callers == {"main", "isr"} \cup Threads
Users   == Callers \cup {"reset", "hardware"}

Init ==
  /\ main = "new" /\ engine = "new" /\ isr = "new"
  /\ released = FALSE /\ m_bForceToExit = FALSE
  /\ isrRun = TRUE /\ m_bEnable = FALSE /\ raised = FALSE
  /\ users = {}
  /\ access = [t \in Callers |-> "none"]
  /\ m_LockSW = 1

(* An UnLock() wakes the engine.                                            *)
Woken == IF engine = "asleep" THEN "run" ELSE engine

-------------------------------------------------------------------------------
(* Initialize: the design's clocks begin a reset, Start runs both threads,  *)
(* and the main thread spins until no reset is in its cycle.                *)
Start ==
  /\ main = "new"
  /\ main' = "startup"
  /\ engine' = "run" /\ isr' = "down"
  /\ users' = {"reset"}
  /\ UNCHANGED <<killVars, m_bEnable, raised, busVars>>

StartedUp ==
  /\ main = "startup"
  /\ "reset" \notin users
  /\ main' = "up"
  /\ UNCHANGED <<engine, isr, killVars, m_bEnable, raised, users, busVars>>

EnableInterrupt(b) ==
  /\ main = "up" /\ access["main"] = "none"
  /\ m_bEnable' = b
  /\ UNCHANGED <<main, engine, isr, killVars, raised, users, busVars>>

-------------------------------------------------------------------------------
(* RegRead and RegWrite on a thread t: m_LockSW, the request with its       *)
(* Unlock(), the acknowledge, the return.  Nothing keeps the other threads  *)
(* of the software from calling while the main thread is in Release; what   *)
(* they do once the engine is deleted is undefined, and not followed.       *)
Deleted == main = "deleted"

MayCall(t) ==
  CASE t = "main"   -> main = "up"
    [] t = "isr"    -> isr = "routine"
    [] t \in Threads -> main \notin {"new", "startup", "deleted"}

Call(t) ==
  /\ access[t] = "none"
  /\ MayCall(t)
  /\ access' = [access EXCEPT ![t] = "lock"]
  /\ UNCHANGED <<main, engine, isr, killVars, m_bEnable, raised, users, m_LockSW>>

(* Mutant: the request does not wake the engine.                            *)
RequestAsleep(t) ==
  /\ access[t] = "lock" /\ ~ Deleted
  /\ m_LockSW > 0
  /\ m_LockSW' = m_LockSW - 1
  /\ access' = [access EXCEPT ![t] = "wait"]
  /\ users' = users \cup {t}
  /\ UNCHANGED <<main, engine, isr, killVars, m_bEnable, raised>>

Request(t) ==
  /\ access[t] = "lock" /\ ~ Deleted
  /\ m_LockSW > 0
  /\ m_LockSW' = m_LockSW - 1
  /\ access' = [access EXCEPT ![t] = "wait"]
  /\ users' = users \cup {t}
  /\ engine' = Woken
  /\ UNCHANGED <<main, isr, killVars, m_bEnable, raised>>

Return(t) ==
  /\ access[t] = "acknowledged" /\ ~ Deleted
  /\ m_LockSW' = m_LockSW + 1
  /\ access' = [access EXCEPT ![t] = "none"]
  /\ UNCHANGED <<main, engine, isr, killVars, m_bEnable, raised, users>>

-------------------------------------------------------------------------------
(* The engine thread, while it runs.                                        *)
Acknowledge(t) ==
  /\ engine = "run"
  /\ access[t] = "wait"
  /\ access' = [access EXCEPT ![t] = "acknowledged"]
  /\ users' = users \ {t}
  /\ UNCHANGED <<main, engine, isr, killVars, m_bEnable, raised, m_LockSW>>

(* SimReset at the end of its cycle; SimBusy at an edge of a busy flag.     *)
ResetEnds ==
  /\ engine = "run"
  /\ users' = users \ {"reset"}
  /\ UNCHANGED <<main, engine, isr, killVars, m_bEnable, raised, busVars>>

HardwareBusy ==
  /\ engine = "run"
  /\ users' = IF "hardware" \in users THEN users \ {"hardware"}
                                      ELSE users \cup {"hardware"}
  /\ UNCHANGED <<main, engine, isr, killVars, m_bEnable, raised, busVars>>

Awake ==
  /\ engine = "run"
  /\ m_bEnable
  /\ raised' = TRUE
  /\ UNCHANGED <<main, engine, isr, killVars, m_bEnable, users, busVars>>

(* Mutant: the engine sleeps although somebody uses it.                     *)
SleepAnyway ==
  /\ engine = "run" /\ ~ released /\ ~ m_bForceToExit
  /\ engine' = "asleep"
  /\ UNCHANGED <<main, isr, killVars, m_bEnable, raised, users, busVars>>

Sleep ==
  /\ engine = "run" /\ ~ released /\ ~ m_bForceToExit
  /\ users = {}
  /\ engine' = "asleep"
  /\ UNCHANGED <<main, isr, killVars, m_bEnable, raised, users, busVars>>

(* The end of Clocking and of MonitorThread, with its Enable(false): found  *)
(* idle after Rlease(), or forced, or at a $finish of the design.           *)
Ends ==
  /\ engine = "run"
  /\ engine' = "stopped"
  /\ m_bEnable' = FALSE
  /\ UNCHANGED <<main, isr, killVars, raised, users, busVars>>

Leave  == (m_bForceToExit \/ released) /\ Ends
Finish == Finishes /\ Ends

-------------------------------------------------------------------------------
(* The interrupt thread: the end of its loop, the entry of the routine and  *)
(* its return.                                                              *)
IsrStops ==
  /\ isr = "down"
  /\ ~ isrRun
  /\ isr' = "stopped"
  /\ UNCHANGED <<main, engine, killVars, m_bEnable, raised, users, busVars>>

Serve ==
  /\ isr = "down"
  /\ raised /\ m_bEnable
  /\ raised' = FALSE
  /\ isr' = "routine"
  /\ UNCHANGED <<main, engine, killVars, m_bEnable, users, busVars>>

IsrReturns ==
  /\ isr = "routine"
  /\ access["isr"] = "none"
  /\ isr' = "down"
  /\ UNCHANGED <<main, engine, killVars, m_bEnable, raised, users, busVars>>

-------------------------------------------------------------------------------
(* Release: Terminate, which is KillThread of the engine and then of the    *)
(* interrupt thread, and the deletion of the engine.                        *)
At(from, to) == main = from /\ main' = to

(* KillThread of the engine; OnThreadKill only if it is still running.      *)
Release ==
  /\ access["main"] = "none"
  /\ At("up", IF engine = "stopped" THEN "join" ELSE "release")
  /\ UNCHANGED <<engine, isr, killVars, m_bEnable, raised, users, busVars>>

(* OnThreadKill(false): m_Lock.Rlease().                                    *)
Rlease ==
  /\ At("release", "kill isr")
  /\ released' = TRUE
  /\ engine' = Woken
  /\ UNCHANGED <<isr, m_bForceToExit, isrRun, m_bEnable, raised, users, busVars>>

(* InterruptService::KillThread, from OnThreadKill or from Terminate: its   *)
(* own OnThreadKill, and the join, which no force can shorten.              *)
KillIsr(from, to) ==
  /\ At(from, to)
  /\ isrRun' = FALSE
  /\ m_bEnable' = FALSE
  /\ UNCHANGED <<engine, isr, released, m_bForceToExit, raised, users, busVars>>

JoinIsr(from, to) ==
  /\ isr = "stopped"
  /\ At(from, to)
  /\ UNCHANGED <<engine, isr, killVars, m_bEnable, raised, users, busVars>>

(* Mutant: a thread that is still busy after the timeout is not forced.     *)
PollPatient ==
  /\ At("poll", "join")
  /\ UNCHANGED <<engine, isr, killVars, m_bEnable, raised, users, busVars>>

(* The poll, which ends when the thread has left or after its timeout, with *)
(* OnThreadKill(true): force, Rlease() once more, no second join.           *)
Poll ==
  /\ At("poll", "join")
  /\ IF engine = "stopped" THEN UNCHANGED <<engine, m_bForceToExit>>
     ELSE engine' = Woken /\ m_bForceToExit' = TRUE
  /\ UNCHANGED <<isr, released, isrRun, m_bEnable, raised, users, busVars>>

Join ==
  /\ engine = "stopped"
  /\ At("join", "terminate")
  /\ UNCHANGED <<engine, isr, killVars, m_bEnable, raised, users, busVars>>

(* Mutant: Terminate leaves the interrupt thread to OnThreadKill.           *)
TerminateEngineOnly ==
  /\ At("terminate", "deleted")
  /\ UNCHANGED <<engine, isr, killVars, m_bEnable, raised, users, busVars>>

(* Terminate's own m_Interrupt.KillThread(): nothing to do if joined.       *)
Terminate ==
  IF isr = "stopped"
    THEN JoinIsr("terminate", "deleted")
    ELSE KillIsr("terminate", "last join")

Releasing ==
  \/ Rlease
  \/ KillIsr("kill isr", "join isr") \/ JoinIsr("join isr", "poll")
  \/ Poll \/ Join
  \/ Terminate \/ JoinIsr("last join", "deleted")

-------------------------------------------------------------------------------
EngineStep ==
  \/ \E t \in Callers : Acknowledge(t)
  \/ ResetEnds \/ HardwareBusy \/ Awake
  \/ Sleep \/ Leave \/ Finish

IsrStep == IsrStops \/ Serve \/ IsrReturns

AccessStep(t) == Request(t) \/ Return(t)

MainStep ==
  \/ Start \/ StartedUp
  \/ \E b \in BOOLEAN : EnableInterrupt(b)
  \/ Release \/ Releasing

Next ==
  \/ MainStep \/ EngineStep \/ IsrStep
  \/ \E t \in Callers : Call(t) \/ AccessStep(t)

Spec == Init /\ [][Next]_vars

(* Threads go on and the routine makes finitely many accesses and returns.  *)
(* A running engine serves requests, ends a reset after its cycles, and     *)
(* leaves when it is forced, or released and without users.  Nothing is     *)
(* assumed of the user's calls, of the hardware's busy flags and interrupts,*)
(* or of $finish.                                                           *)
Fairness ==
  /\ WF_vars(StartedUp) /\ WF_vars(Releasing)
  /\ \A t \in Callers : SF_vars(Request(t)) /\ WF_vars(Return(t))
  /\ \A t \in Callers : WF_vars(Acknowledge(t))
  /\ WF_vars("reset" \in users /\ ResetEnds)
  /\ WF_vars((m_bForceToExit \/ users = {}) /\ Leave)
  /\ WF_vars(IsrStops) /\ SF_vars(IsrReturns)

FairSpec == Spec /\ Fairness

-------------------------------------------------------------------------------
(* The types of the state.                                                  *)
TypeOK ==
  /\ main \in {"new", "startup", "up", "release", "kill isr", "join isr", "poll",
               "join", "terminate", "last join", "deleted"}
  /\ engine \in {"new", "run", "asleep", "stopped"}
  /\ isr \in {"new", "down", "routine", "stopped"}
  /\ {released, m_bForceToExit, isrRun, m_bEnable, raised} \subseteq BOOLEAN
  /\ users \subseteq Users
  /\ access \in [Callers -> {"none", "lock", "wait", "acknowledged"}]
  /\ m_LockSW \in {0, 1}

(* The engine object is deleted only when both the threads it owns have     *)
(* ended, also when the design had ended the engine itself, and             *)
(* OnThreadKill was not called (ThreadManager.cpp:65, SimEngine.cpp:205).   *)
(* It says nothing of the software's own threads: nothing joins those.      *)
DeletedAfterJoin == main = "deleted" => engine = "stopped" /\ isr = "stopped"

Running == engine # "stopped"

(* Initialize returns, unless the design ends the simulation in its reset   *)
(* (SystemSim.cpp:83).                                                      *)
InitializeReturns == (main = "startup") ~> (main = "up" \/ ~ Running)

(* A register access returns as long as the engine runs: no sleep of the    *)
(* engine and no other thread's call can leave it waiting (BusSlave.cpp:97).*)
AccessReturns ==
  \A t \in Callers : (access[t] # "none") ~> (access[t] = "none" \/ ~ Running)

(* Release returns, as ThreadManager.cpp:91 tells the user, although the    *)
(* hardware stays busy, an interrupt is being served, or the design has     *)
(* ended the simulation before, with one exception: the routine began a     *)
(* register access when the engine had left.                                *)
OnlyRoutineHangs ==
  main \in {"release", "join"} ~>
    main = "deleted" \/ (access["isr"] \in {"lock", "wait"} /\ ~ Running)
===============================================================================
