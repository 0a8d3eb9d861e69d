------------------------------- MODULE DelayLock ------------------------------
(***************************************************************************)
(* The lock that lets the simulation engine thread sleep while no software *)
(* and no hardware needs clocks: SimSystem/src/DelayLock.cpp, together     *)
(* with the part of SimEngine.cpp that drives it (Clocking, MonitorThread, *)
(* OnThreadKill, AwakeInterrupt) and ThreadManager::KillThread.            *)
(*                                                                         *)
(* A "hold" is one use of the engine: an UnLock() that lets it run and,    *)
(* later, the matching Lock(d) that lets it sleep d ticks after.  Who      *)
(* executes the two calls depends on the hold:                             *)
(*   SwHolds   a software bus access: UnLock on the caller's thread        *)
(*             (BusSlave::Write/Read), Lock on the engine's (Write/ReadAck)*)
(*             -- possibly first, since the request is visible before the  *)
(*             caller gets to its UnLock                                   *)
(*   HwHolds   a bus master, a busy flag, a reset, a DPI user: both on the *)
(*             engine's thread, from inside the evaluation                 *)
(*   IsrHolds  an interrupt vector: both on the interrupt thread           *)
(* Semaphore Down and Up are atomic; the accesses to m_iDelayTime that the *)
(* code makes outside m_DelaySemaphore are steps of their own.             *)
(***************************************************************************)
EXTENDS Integers, FiniteSets

CONSTANTS SwHolds, HwHolds, IsrHolds,
          StartDelay,   \* delay of the start lock (16 in the code)
          AckDelay,     \* of a bus acknowledge (500)
          HwDelays,     \* of a bus master, a busy flag, a reset (100, 200, 10)
          IsrDelay,     \* of an interrupt service (1500)
          AwakeDelay,   \* delay set by AwakeInterrupt (64)
          MaxDeferred   \* bound of the model: holds between two collections

Holds == SwHolds \cup HwHolds \cup IsrHolds

ASSUME HoldsAssumption ==
  /\ IsFiniteSet(SwHolds) /\ IsFiniteSet(HwHolds) /\ IsFiniteSet(IsrHolds)
  /\ SwHolds \cap HwHolds = {}
  /\ SwHolds \cap IsrHolds = {}
  /\ HwHolds \cap IsrHolds = {}

ASSUME DelaysAssumption ==
  /\ {StartDelay, AckDelay, IsrDelay, AwakeDelay} \subseteq Nat \ {0}
  /\ HwDelays \subseteq Nat \ {0}
  /\ MaxDeferred \in Nat

VARIABLES
  m_bRun, m_iSema, m_iDelayTime, m_iDeferredLock,  \* DelayLock's fields
  m_Lock, m_DelaySemaphore,                        \* and its two semaphores
  m_bForceToExit,       \* SimEngine's
  engine,               \* where the engine thread is
  reg,                  \* its register for m_iDelayTime--
  iLocked,              \* its local variable in Check()
  unseen,               \* history: UnLocks counted since it loaded m_iSema
  stage, call, arg,     \* per hold: its UnLock, its Lock, the delay passed
  pending,              \* interrupt vectors queued and not yet served
  killer, released      \* the terminating thread; the Rlease() calls it made

semas      == <<m_iSema, m_Lock>>
delays     == <<m_iDelayTime, m_iDeferredLock, m_DelaySemaphore>>
lockVars   == <<m_bRun, semas, delays>>
engineVars == <<m_bForceToExit, engine, reg, iLocked, unseen>>
holdVars   == <<stage, call, arg, pending>>
killVars   == <<killer, released>>
vars       == <<lockVars, engineVars, holdVars, killVars>>

-------------------------------------------------------------------------------
(* A hold is idle until its m_iSema++, raised until its m_Lock.Up().        *)
Stages == {"idle", "raised", "held"}

(* Its Lock is "done" when it was recorded before the UnLock returned.      *)
Calls == {"none", "setdelay", "deferring", "done", "down", "taken"}

InLock(h) == call[h] \in {"setdelay", "deferring", "down", "taken"}

(* The holds whose call in progress runs on the engine's own thread.        *)
EngineCalls ==
  {h \in Holds : \/ InLock(h) /\ h \notin IsrHolds
                 \/ stage[h] = "raised" /\ h \in HwHolds}

(* The engine thread evaluates the model and is not inside another call.    *)
Evaluating == engine = "eval" /\ EngineCalls = {}

(* What the code passes to the Lock of a hold.                              *)
DelaysOf(h) == IF h \in SwHolds THEN {AckDelay}
               ELSE IF h \in HwHolds THEN HwDelays ELSE {IsrDelay}

(* The holds m_iSema has been raised for; those whose Lock came first.      *)
Owed  == {h \in Holds : stage[h] # "idle"}
Early == {h \in Holds : call[h] = "done"}

Place(h, s, c) ==
  /\ stage' = [stage EXCEPT ![h] = s]
  /\ call' = [call EXCEPT ![h] = c]

(* m_LockSW: a software access starts when the one before it has its        *)
(* acknowledge, which it waits for after its UnLock.                        *)
SwTurn(h) ==
  \A g \in SwHolds \ {h} :
    stage[g] = "held" \/ (stage[g] = "idle" /\ call[g] = "none")

(* MaxDeferred: no new hold while that many could be collected at once.     *)
Room == m_iDeferredLock + Cardinality(Owed \cup Early) < MaxDeferred

-------------------------------------------------------------------------------
(* A reset created by SimHDL's Initialize has already been unlocked, on the *)
(* main thread, when the engine thread starts.                              *)
ResetsHeld ==
  \E R \in SUBSET HwHolds :
    /\ stage = [h \in Holds |-> IF h \in R THEN "held" ELSE "idle"]
    /\ m_iSema = Cardinality(R)
    /\ m_Lock = Cardinality(R)

(* Before the engine thread runs.                                           *)
Init ==
  /\ m_bRun = TRUE
  /\ m_iDelayTime = 0
  /\ m_iDeferredLock = 0
  /\ m_DelaySemaphore = 1
  /\ m_bForceToExit = FALSE
  /\ engine = "start"
  /\ reg = 0
  /\ iLocked = 0
  /\ unseen = 0
  /\ ResetsHeld
  /\ call = [h \in Holds |-> "none"]
  /\ arg = [h \in Holds |-> 0]
  /\ pending = {}
  /\ killer = "run"
  /\ released = 0

-------------------------------------------------------------------------------
(* The engine has found m_iSema <= 0 and has yet to find m_bRun FALSE: a    *)
(* use counted meanwhile goes unseen.                                       *)
Looked == engine = "looked"

CountedUnseen == unseen' = IF Looked THEN unseen + 1 ELSE unseen

(* UnLock(), first half: m_iSema++ under m_DelaySemaphore.                  *)
Raise(h) ==
  /\ stage[h] = "idle"
  /\ h \in SwHolds  => engine # "start" /\ SwTurn(h)
  /\ h \in HwHolds  => Evaluating
  /\ h \in IsrHolds => h \in pending
  /\ m_DelaySemaphore = 1
  /\ call[h] = "none" => Room
  /\ m_iSema' = m_iSema + 1
  /\ CountedUnseen
  /\ Place(h, "raised", call[h])
  /\ pending' = pending \ {h}
  /\ UNCHANGED <<m_bRun, delays, m_Lock, m_bForceToExit, engine, reg, iLocked,
                 arg, killVars>>

(* Mutant: m_Lock taken for a binary semaphore.                             *)
UpBinary(h) ==
  /\ stage[h] = "raised"
  /\ m_Lock' = 1
  /\ IF call[h] = "done" THEN Place(h, "idle", "none")
                         ELSE Place(h, "held", call[h])
  /\ UNCHANGED <<m_bRun, m_iSema, delays, engineVars, arg, pending, killVars>>

(* UnLock(), second half: m_Lock.Up().                                      *)
Up(h) ==
  /\ stage[h] = "raised"
  /\ m_Lock' = m_Lock + 1
  /\ IF call[h] = "done" THEN Place(h, "idle", "none")
                         ELSE Place(h, "held", call[h])
  /\ UNCHANGED <<m_bRun, m_iSema, delays, engineVars, arg, pending, killVars>>

(* Only the engine thread, or the interrupt thread for its own hold, calls  *)
(* Lock.  The engine sees a software request before it is unlocked.         *)
MayLock(h) ==
  /\ call[h] = "none"
  /\ IF h \in SwHolds THEN SwTurn(h) /\ (stage[h] = "idle" => Room)
                      ELSE stage[h] = "held"
  /\ h \notin IsrHolds => Evaluating

(* Mutant: Lock(d) forgets its SetDelay.                                    *)
LockKeepsDelay(h, d) ==
  /\ MayLock(h)
  /\ m_DelaySemaphore = 1
  /\ m_DelaySemaphore' = 0
  /\ arg' = [arg EXCEPT ![h] = d]
  /\ Place(h, stage[h], "deferring")
  /\ UNCHANGED <<m_bRun, semas, m_iDelayTime, m_iDeferredLock, engineVars,
                 pending, killVars>>

(* Lock(d), d # 0: m_DelaySemaphore.Down() and the comparison in SetDelay.  *)
LockDelayed(h, d) ==
  /\ MayLock(h)
  /\ m_DelaySemaphore = 1
  /\ m_DelaySemaphore' = 0
  /\ arg' = [arg EXCEPT ![h] = d]
  /\ Place(h, stage[h], IF m_iDelayTime < d THEN "setdelay" ELSE "deferring")
  /\ UNCHANGED <<m_bRun, semas, m_iDelayTime, m_iDeferredLock, engineVars,
                 pending, killVars>>

(* The assignment of SetDelay, after its comparison.                        *)
SetDelay(h) ==
  /\ call[h] = "setdelay"
  /\ m_iDelayTime' = arg[h]
  /\ Place(h, stage[h], "deferring")
  /\ UNCHANGED <<m_bRun, semas, m_iDeferredLock, m_DelaySemaphore, engineVars,
                 arg, pending, killVars>>

(* Mutant: the m_iDeferredLock++ is missing.                                *)
DeferUncounted(h) ==
  /\ call[h] = "deferring"
  /\ m_DelaySemaphore' = 1
  /\ IF stage[h] = "held" THEN Place(h, "idle", "none")
                          ELSE Place(h, stage[h], "done")
  /\ arg' = [arg EXCEPT ![h] = 0]
  /\ UNCHANGED <<m_bRun, semas, m_iDelayTime, m_iDeferredLock, engineVars,
                 pending, killVars>>

(* m_iDeferredLock++ and m_DelaySemaphore.Up(): Lock(d) returns.            *)
Defer(h) ==
  /\ call[h] = "deferring"
  /\ m_iDeferredLock' = m_iDeferredLock + 1
  /\ m_DelaySemaphore' = 1
  /\ IF stage[h] = "held" THEN Place(h, "idle", "none")
                          ELSE Place(h, stage[h], "done")
  /\ arg' = [arg EXCEPT ![h] = 0]
  /\ UNCHANGED <<m_bRun, semas, m_iDelayTime, engineVars, pending, killVars>>

(* Lock(0), which SimulationLock's default argument offers to DPI code.     *)
LockNow(h) ==
  /\ h \in HwHolds
  /\ MayLock(h)
  /\ Place(h, stage[h], "down")
  /\ UNCHANGED <<lockVars, engineVars, arg, pending, killVars>>

LockDown(h) ==
  /\ call[h] = "down"
  /\ m_Lock > 0
  /\ m_Lock' = m_Lock - 1
  /\ Place(h, stage[h], "taken")
  /\ UNCHANGED <<m_bRun, m_iSema, delays, engineVars, arg, pending, killVars>>

LockCount(h) ==
  /\ call[h] = "taken"
  /\ m_DelaySemaphore = 1
  /\ m_iSema' = m_iSema - 1
  /\ Place(h, "idle", "none")
  /\ UNCHANGED <<m_bRun, delays, m_Lock, engineVars, arg, pending, killVars>>

-------------------------------------------------------------------------------
(* MonitorThread: m_Lock.Lock(16) before the first Clocking().  No other    *)
(* thread uses the lock yet, so the call is one step.                       *)
Start ==
  /\ engine = "start"
  /\ engine' = "tik"
  /\ m_iDelayTime' = StartDelay
  /\ m_iDeferredLock' = m_iDeferredLock + 1
  /\ UNCHANGED <<m_bRun, semas, m_DelaySemaphore, m_bForceToExit, reg, iLocked,
                 unseen,
                 holdVars, killVars>>

(* Clocking up to Eval: the clocks tick and m_bForceToExit is read.         *)
Clocking ==
  /\ engine = "tik"
  /\ engine' = IF m_bForceToExit THEN "stopped" ELSE "eval"
  /\ UNCHANGED <<lockVars, m_bForceToExit, reg, iLocked, unseen, holdVars,
                 killVars>>

(* Eval returns false: the model called $finish or an error was logged.     *)
EvalFails ==
  /\ Evaluating
  /\ engine' = "stopped"
  /\ UNCHANGED <<lockVars, m_bForceToExit, reg, iLocked, unseen, holdVars,
                 killVars>>

(* AwakeInterrupt of an idle vector, up to the comparison in SetDelay,      *)
(* which takes no semaphore here.                                           *)
AwakeInterrupt(v) ==
  /\ Evaluating
  /\ v \notin pending
  /\ pending' = pending \cup {v}
  /\ engine' = IF m_iDelayTime < AwakeDelay THEN "awake" ELSE "eval"
  /\ UNCHANGED <<lockVars, m_bForceToExit, reg, iLocked, unseen, stage, call,
                 arg,
                 killVars>>

AwakeSetDelay ==
  /\ engine = "awake"
  /\ m_iDelayTime' = AwakeDelay
  /\ engine' = "eval"
  /\ UNCHANGED <<m_bRun, semas, m_iDeferredLock, m_DelaySemaphore,
                 m_bForceToExit, reg, iLocked, unseen, holdVars, killVars>>

(* Check(): the test of m_iDelayTime and the load of m_iDelayTime--.        *)
CheckLoad ==
  /\ Evaluating
  /\ reg' = m_iDelayTime
  /\ engine' = IF m_iDelayTime = 0 THEN "return" ELSE "store"
  /\ UNCHANGED <<lockVars, m_bForceToExit, iLocked, unseen, holdVars,
                 killVars>>

(* The store of m_iDelayTime--: what was written since the load is lost.    *)
CheckStore ==
  /\ engine = "store"
  /\ m_iDelayTime' = reg - 1
  /\ engine' = "test"
  /\ UNCHANGED <<m_bRun, semas, m_iDeferredLock, m_DelaySemaphore,
                 m_bForceToExit, reg, iLocked, unseen, holdVars, killVars>>

CheckTest ==
  /\ engine = "test"
  /\ engine' = IF m_iDelayTime = 0 THEN "collect" ELSE "return"
  /\ UNCHANGED <<lockVars, m_bForceToExit, reg, iLocked, unseen, holdVars,
                 killVars>>

(* Mutant: every counted use is taken, not only the deferred ones.          *)
CollectAll ==
  /\ engine = "collect"
  /\ m_DelaySemaphore = 1
  /\ m_iSema >= 0
  /\ iLocked' = m_iSema
  /\ m_iSema' = 0
  /\ m_iDeferredLock' = 0
  /\ engine' = "down"
  /\ UNCHANGED <<m_bRun, m_iDelayTime, m_Lock, m_DelaySemaphore,
                 m_bForceToExit, reg, unseen, holdVars, killVars>>

(* The delay is over: the deferred locks are taken, one Down for each.      *)
Collect ==
  /\ engine = "collect"
  /\ m_DelaySemaphore = 1
  /\ iLocked' = m_iDeferredLock
  /\ m_iSema' = m_iSema - m_iDeferredLock
  /\ m_iDeferredLock' = 0
  /\ engine' = "down"
  /\ UNCHANGED <<m_bRun, m_iDelayTime, m_Lock, m_DelaySemaphore,
                 m_bForceToExit, reg, unseen, holdVars, killVars>>

Down ==
  /\ engine = "down"
  /\ iLocked > 0
  /\ m_Lock > 0
  /\ m_Lock' = m_Lock - 1
  /\ iLocked' = iLocked - 1
  /\ UNCHANGED <<m_bRun, m_iSema, delays, m_bForceToExit, engine, reg,
                 unseen, holdVars, killVars>>

CheckReturns == engine = "return" \/ (engine = "down" /\ iLocked = 0)

(* return (m_iSema > 0) | m_bRun: two loads that nothing synchronises with  *)
(* the UnLocks and the Rlease of the other threads.  m_bRun never becomes   *)
(* TRUE again, so loading it last covers the other order of the operands.   *)

(* Mutant: Check() returns m_bRun only.                                     *)
LookAtNothing ==
  /\ CheckReturns
  /\ engine' = "looked"
  /\ UNCHANGED <<lockVars, m_bForceToExit, reg, iLocked, unseen, holdVars,
                 killVars>>

(* The load of m_iSema that finds no use counted.                           *)
LoadSema ==
  /\ CheckReturns
  /\ m_iSema <= 0
  /\ engine' = "looked"
  /\ UNCHANGED <<lockVars, m_bForceToExit, reg, iLocked, unseen, holdVars,
                 killVars>>

(* The load of m_bRun that finds it FALSE: Check() is idle, the loop ends.  *)
Leave ==
  /\ Looked
  /\ ~ m_bRun
  /\ engine' = "stopped"
  /\ unseen' = 0
  /\ UNCHANGED <<lockVars, m_bForceToExit, reg, iLocked, holdVars, killVars>>

(* Clocking() is busy by one of the loads or by the instance list, which    *)
(* this module does not follow: with Check() idle the loop may go on too.   *)
GoOn ==
  /\ CheckReturns \/ Looked
  /\ engine' = "tik"
  /\ unseen' = 0
  /\ UNCHANGED <<lockVars, m_bForceToExit, reg, iLocked, holdVars, killVars>>

-------------------------------------------------------------------------------
(* ThreadManager::KillThread on the engine thread.  OnThreadKill(bForced)   *)
(* is Rlease(): m_bRun = false, then UnLock().                              *)
Kill ==
  /\ killer = "run"
  /\ engine # "start"
  /\ IF engine = "stopped"
       THEN killer' = "joining" /\ UNCHANGED m_bRun
       ELSE killer' = "releasing" /\ m_bRun' = FALSE
  /\ UNCHANGED <<semas, delays, engineVars, holdVars, released>>

KillRaise ==
  /\ killer = "releasing"
  /\ m_DelaySemaphore = 1
  /\ m_iSema' = m_iSema + 1
  /\ CountedUnseen
  /\ released' = released + 1
  /\ killer' = "up"
  /\ UNCHANGED <<m_bRun, delays, m_Lock, m_bForceToExit, engine, reg, iLocked,
                 holdVars>>

(* Mutant: Rlease() counts the release and does not wake the engine.        *)
KillSilent ==
  /\ killer = "up"
  /\ killer' = IF m_bForceToExit THEN "joining" ELSE "waiting"
  /\ UNCHANGED <<m_bRun, semas, delays, engineVars, holdVars, released>>

KillUp ==
  /\ killer = "up"
  /\ m_Lock' = m_Lock + 1
  /\ killer' = IF m_bForceToExit THEN "joining" ELSE "waiting"
  /\ UNCHANGED <<m_bRun, m_iSema, delays, engineVars, holdVars, released>>

(* 600 polls of 10 ms, or the ESC key: OnThreadKill(true).                  *)
KillTimeout ==
  /\ killer = "waiting"
  /\ engine # "stopped"
  /\ m_bForceToExit' = TRUE
  /\ m_bRun' = FALSE
  /\ killer' = "releasing"
  /\ UNCHANGED <<semas, delays, engine, reg, iLocked, unseen, holdVars,
                 released>>

Join ==
  /\ killer \in {"waiting", "joining"}
  /\ engine = "stopped"
  /\ killer' = "joined"
  /\ UNCHANGED <<lockVars, engineVars, holdVars, released>>

-------------------------------------------------------------------------------
HoldStep(h) ==
  \/ Raise(h) \/ Up(h)
  \/ \E d \in DelaysOf(h) : LockDelayed(h, d)
  \/ SetDelay(h) \/ Defer(h)
  \/ LockNow(h) \/ LockDown(h) \/ LockCount(h)

EngineStep ==
  \/ Start \/ Clocking \/ EvalFails
  \/ \E v \in IsrHolds : AwakeInterrupt(v)
  \/ AwakeSetDelay
  \/ CheckLoad \/ CheckStore \/ CheckTest
  \/ Collect \/ Down \/ LoadSema \/ Leave \/ GoOn

KillStep == Kill \/ KillRaise \/ KillUp \/ KillTimeout \/ Join

Next ==
  \/ \E h \in Holds : HoldStep(h)
  \/ EngineStep
  \/ KillStep

Spec == Init /\ [][Next]_vars

(* A thread inside a call goes on; Eval makes finitely many calls and       *)
(* returns; the poll of KillThread is bounded; a semaphore serves its       *)
(* waiters.  Nothing is assumed of when a hold begins or of when it ends.   *)
Fairness ==
  /\ WF_vars(Start) /\ WF_vars(Clocking) /\ WF_vars(AwakeSetDelay)
  /\ SF_vars(CheckLoad)
  /\ WF_vars(CheckStore) /\ WF_vars(CheckTest)
  /\ WF_vars(Collect) /\ WF_vars(Down)
  /\ WF_vars(LoadSema \/ Leave \/ GoOn)
  /\ \A h \in Holds :
       /\ WF_vars(Up(h)) /\ WF_vars(SetDelay(h)) /\ WF_vars(Defer(h))
       /\ WF_vars(LockDown(h)) /\ WF_vars(LockCount(h))
  /\ \A h \in SwHolds : SF_vars(call[h] # "none" /\ Raise(h))
  /\ SF_vars(KillRaise)
  /\ WF_vars(KillUp) /\ WF_vars(KillTimeout) /\ WF_vars(Join)

FairSpec == Spec /\ Fairness

-------------------------------------------------------------------------------
N(b) == IF b THEN 1 ELSE 0

(* The types of the state, with the ranges the code relies on: a semaphore  *)
(* is never negative and m_DelaySemaphore is binary.                        *)
TypeOK ==
  /\ m_bRun \in BOOLEAN
  /\ m_iSema \in Int
  /\ m_iDelayTime \in Nat
  /\ m_iDeferredLock \in Nat
  /\ m_Lock \in Nat
  /\ m_DelaySemaphore \in {0, 1}
  /\ m_bForceToExit \in BOOLEAN
  /\ engine \in {"start", "tik", "eval", "awake", "store", "test", "collect",
                 "down", "return", "looked", "stopped"}
  /\ reg \in Nat
  /\ iLocked \in Nat
  /\ unseen \in Nat
  /\ stage \in [Holds -> Stages]
  /\ call \in [Holds -> Calls]
  /\ arg \in [Holds -> Nat]
  /\ pending \subseteq IsrHolds
  /\ killer \in {"run", "releasing", "up", "waiting", "joining", "joined"}
  /\ released \in 0 .. 2

(* The engine thread is blocked in a Down() of Check().                     *)
Asleep == engine = "down" /\ iLocked > 0 /\ m_Lock = 0

(* The holds whose UnLock() has returned.                                   *)
Held == {h \in Holds : stage[h] = "held"}

(* The engine never sleeps while somebody whose UnLock() has returned still *)
(* needs it (DelayLock.cpp, Check): a bus access or a busy flag would hang. *)
(* A software access acknowledged before its own UnLock borrows the wake-up *)
(* of another hold, one for one, until that UnLock pays it back.            *)
NoSleepWhileHeld == Asleep => Cardinality(Held) <= Cardinality(Early)

(* A deferred lock is never forgotten: as long as one is counted the delay  *)
(* is running or the engine is about to collect.  The unsynchronised        *)
(* m_iDelayTime-- must not break this (DelayLock.cpp, Lock and Check).      *)
NoStrandedDeferral ==
  m_iDeferredLock > 0 =>
    \/ m_iDelayTime > 0
    \/ engine \in {"test", "collect"}

(* The engine leaves its loop on its own only with the holds it could not   *)
(* see.  Those are the ones counted after its load of m_iSema; one more as  *)
(* long as that load came before the m_iSema++ of Rlease(), the window in   *)
(* which the start lock hides a hold; and an access acknowledged before its *)
(* UnLock hides one too.  Every hold counted in time keeps it (Check()).    *)
LeaveOnlyWhenIdle ==
  [][Leave =>
       Cardinality(Owed) + released <= Cardinality(Early) + 1 + unseen]_vars

(* KillThread always joins, whatever the holds do: an engine asleep in      *)
(* Check() or in a Lock(0) is woken by Rlease(), a busy one is forced.      *)
KillJoins == (killer = "releasing") ~> (killer = "joined")

(* A bus access or a hardware hold whose UnLock() has returned gets its     *)
(* evaluation: the one that will acknowledge or end it.                     *)
HeldGetsClock ==
  \A h \in SwHolds \cup HwHolds :
    (stage[h] = "held") ~> (engine \in {"eval", "stopped"})

Quiet ==
  /\ \A h \in Holds : stage[h] = "idle" /\ call[h] = "none"
  /\ pending = {}

(* When nothing uses the engine any more it does not burn cycles for ever:  *)
(* it falls asleep, or has stopped.                                         *)
QuietSleeps == <>[]Quiet => <>[](Asleep \/ engine = "stopped")

-------------------------------------------------------------------------------
(* The inductive invariant, in named parts.                                 *)
InSection(h) == call[h] \in {"setdelay", "deferring"}

InFlight == {h \in Holds : stage[h] = "raised"}
Taken    == {h \in Holds : call[h] = "taken"}

(* At most one call runs on the engine's thread, and only while it clocks.  *)
EngineCallsOK ==
  /\ EngineCalls # {} => engine = "eval"
  /\ \A g, h \in EngineCalls : g = h
  /\ \A h \in Holds :
       call[h] \in {"down", "taken"} => h \in HwHolds /\ stage[h] = "held"

(* m_DelaySemaphore excludes: one thread at most is inside Lock's section.  *)
SectionOK ==
  /\ \A h \in Holds : InSection(h) => m_DelaySemaphore = 0
  /\ \A g, h \in Holds : InSection(g) /\ InSection(h) => g = h
  /\ \A h \in Holds : call[h] = "setdelay" => arg[h] > 0

(* A lock deferred, or about to be, has a running delay.                    *)
DelayOK ==
  /\ m_iDeferredLock > 0 \/ (\E h \in Holds : call[h] = "deferring") =>
       m_iDelayTime > 0 \/ engine \in {"test", "collect"}
  /\ engine = "store" => reg > 0

EngineOK ==
  /\ iLocked > 0 => engine = "down"
  /\ IF Looked THEN m_iSema <= unseen ELSE unseen = 0
  /\ engine = "start" =>
       /\ m_iDeferredLock = 0
       /\ m_bRun
       /\ killer = "run"
       /\ pending = {}
       /\ \A h \in Holds : call[h] = "none"
       /\ \A h \in Holds : stage[h] # "idle" => stage[h] = "held" /\ h \in HwHolds

KillOK ==
  /\ killer = "run" => released = 0 /\ m_bRun
  /\ killer = "releasing" => released = N(m_bForceToExit)
  /\ killer = "up" => released = 1 + N(m_bForceToExit)
  /\ killer = "waiting" => released = 1
  /\ killer \in {"run", "waiting"} => ~ m_bForceToExit
  /\ ~ m_bRun => released > 0 \/ killer = "releasing"

(* m_iSema is the number of open holds less those locked in advance, plus   *)
(* the deferred locks, which it still counts, and Rlease()'s, less one for  *)
(* the start lock.                                                          *)
SemaBalance ==
  m_iSema - m_iDeferredLock =
    Cardinality(Owed) - Cardinality(Early) + released - N(engine # "start")

(* m_Lock lags behind m_iSema by the Up()s and Down()s still to come.       *)
LockBalance ==
  m_Lock = m_iSema + iLocked
             - Cardinality(InFlight) - Cardinality(Taken) - N(killer = "up")

IInv ==
  /\ TypeOK /\ EngineCallsOK /\ SectionOK /\ DelayOK /\ EngineOK /\ KillOK
  /\ SemaBalance /\ LockBalance

-------------------------------------------------------------------------------
(* The abstract gate: a hold is a user from the return of its UnLock to the *)
(* moment its Lock is recorded.  A Lock(0) that finds m_Lock empty parks    *)
(* the engine inside the evaluation.                                        *)
Users == {h \in Held : call[h] \in {"none", "setdelay", "deferring"}}

Parked == m_Lock = 0 /\ \E h \in Holds : call[h] = "down"

Gate == INSTANCE EngineGate WITH
  users <- Users,
  owing <- Early,
  gate  <- IF engine = "stopped" THEN "stopped"
           ELSE IF Asleep \/ Parked THEN "asleep" ELSE "awake"

GateSpec == Gate!GateSpec
===============================================================================
