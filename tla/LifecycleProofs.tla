---------------------------- MODULE LifecycleProofs ---------------------------
(***************************************************************************)
(* Proofs about the start and the end of the simulator, for any number of  *)
(* software threads.                                                       *)
(***************************************************************************)
EXTENDS Lifecycle, TLAPS

(* m_LockSW lets one caller in.                                             *)
InAccess == {t \in Callers : access[t] \in {"wait", "acknowledged"}}
LockOK ==
  /\ m_LockSW = 1 => InAccess = {}
  /\ \A t, u \in InAccess : t = u

(* A caller holds the engine from its request to its acknowledge.           *)
HoldsOK == \A t \in Callers : t \in users <=> access[t] = "wait"

NoAccess == \A t \in Callers : access[t] = "none"

(* What Release has behind it, and nothing starts again.                    *)
Order ==
  /\ main = "new" => isr = "new" /\ NoAccess
  /\ main # "new" => engine # "new" /\ isr # "new"
  /\ main \in {"terminate", "last join", "deleted"} => engine = "stopped"
  /\ main = "deleted" => isr = "stopped"

IInv == TypeOK /\ LockOK /\ HoldsOK /\ Order

-------------------------------------------------------------------------------
LEMMA InitIInv == Init => IInv
BY FinishAssumption
DEF Init, IInv, TypeOK, LockOK, HoldsOK, Order, NoAccess, InAccess, Callers, Users

LEMMA LockSame ==
  ASSUME LockOK, m_LockSW' = m_LockSW, InAccess' = InAccess
  PROVE  LockOK'
BY DEF LockOK

(* Every step but those of the register accesses.                           *)
LEMMA OtherSteps ==
  ASSUME IInv, MainStep \/ IsrStep \/ ResetEnds \/ HardwareBusy \/ Awake
               \/ Sleep \/ Leave \/ Finish \/ UNCHANGED vars
  PROVE  IInv'
<1>1. UNCHANGED busVars
  BY DEF MainStep, IsrStep, ResetEnds, HardwareBusy, Awake, Sleep, Leave, Finish, Ends,
         Start, StartedUp, EnableInterrupt, Release, Releasing, Rlease, KillIsr, JoinIsr,
         Poll, Join, Terminate, IsrStops, Serve, IsrReturns, vars
<1>2. LockOK'
  BY <1>1, LockSame DEF IInv, busVars, InAccess
<1>3. TypeOK'
  <2>1. CASE MainStep
    BY <1>1, <2>1 DEF IInv, TypeOK, MainStep, Start, StartedUp, EnableInterrupt, Release,
          Releasing, Rlease, KillIsr, JoinIsr, Poll, Join, Terminate, At, Woken, Users,
          busVars, killVars
  <2>2. CASE IsrStep
    BY <1>1, <2>2 DEF IInv, TypeOK, IsrStep, IsrStops, Serve, IsrReturns, busVars, killVars
  <2>3. CASE ResetEnds \/ HardwareBusy \/ Awake \/ Sleep \/ Leave \/ Finish
    BY <1>1, <2>3 DEF IInv, TypeOK, ResetEnds, HardwareBusy, Awake, Sleep, Leave, Finish,
          Ends, Users, busVars, killVars
  <2>4. CASE UNCHANGED vars
    BY <2>4 DEF IInv, TypeOK, vars, killVars, busVars
  <2> QED  BY <2>1, <2>2, <2>3, <2>4
<1>4. Order'
  <2>0. NoAccess' <=> NoAccess
    BY <1>1 DEF NoAccess, busVars
  <2>1. CASE MainStep
    BY <2>0, <2>1 DEF IInv, Order, MainStep, Start, StartedUp, EnableInterrupt, Release,
          Releasing, Rlease, KillIsr, JoinIsr, Poll, Join, Terminate, At, Woken
  <2>2. CASE IsrStep
    BY <2>0, <2>2 DEF IInv, Order, IsrStep, IsrStops, Serve, IsrReturns
  <2>3. CASE ResetEnds \/ HardwareBusy \/ Awake \/ Sleep \/ Leave \/ Finish
    BY <2>0, <2>3 DEF IInv, Order, ResetEnds, HardwareBusy, Awake, Sleep, Leave, Finish, Ends
  <2>4. CASE UNCHANGED vars
    BY <2>0, <2>4 DEF IInv, Order, vars
  <2> QED  BY <2>1, <2>2, <2>3, <2>4
<1>5. HoldsOK'
  <2>1. "reset" \notin Callers /\ "hardware" \notin Callers
    BY ThreadsAssumption DEF Callers
  <2>2. \A t \in Callers : access'[t] = access[t]
    BY <1>1 DEF busVars
  <2>3. \A t \in Callers : t \in users' <=> t \in users
    <3>1. CASE Start
      BY <2>1, <3>1 DEF Start, IInv, HoldsOK, Order, NoAccess
    <3>2. CASE ResetEnds \/ HardwareBusy
      BY <2>1, <3>2 DEF ResetEnds, HardwareBusy
    <3>3. CASE ~ Start /\ ~ ResetEnds /\ ~ HardwareBusy
      <4>1. UNCHANGED users
        BY <3>3 DEF MainStep, IsrStep, Awake, Sleep, Leave, Finish, Ends, StartedUp,
           EnableInterrupt, Release, Releasing, Rlease, KillIsr, JoinIsr, Poll, Join,
           Terminate, IsrStops, Serve, IsrReturns, vars
      <4> QED  BY <4>1
    <3> QED  BY <3>1, <3>2, <3>3
  <2> QED  BY <2>2, <2>3 DEF IInv, HoldsOK
<1> QED  BY <1>2, <1>3, <1>4, <1>5 DEF IInv

LEMMA AccessSteps ==
  ASSUME IInv, NEW t \in Callers,
         Call(t) \/ Request(t) \/ Acknowledge(t) \/ Return(t)
  PROVE  IInv'
<1> USE DEF InAccess
<1>1. access \in [Callers -> {"none", "lock", "wait", "acknowledged"}] /\ m_LockSW \in {0, 1}
      /\ users \subseteq Users /\ t \in Users
  BY DEF IInv, TypeOK, Users
<1>6. access[t] # "none" => main # "new"
  BY DEF IInv, Order, NoAccess
<1>7. ASSUME NEW v, access' = [access EXCEPT ![t] = v],
             \A u \in Callers \ {t} : u \in users' <=> u \in users,
             t \in users' <=> v = "wait"
      PROVE  HoldsOK'
  <2>1. access'[t] = v /\ \A u \in Callers \ {t} : access'[u] = access[u]
    BY <1>1, <1>7
  <2> QED  BY <1>7, <2>1 DEF IInv, HoldsOK
<1>2. CASE Call(t)
  <2>0. main # "new"
    BY <1>2 DEF Call, MayCall, Callers, IInv, Order
  <2>1. /\ access[t] = "none" /\ access' = [access EXCEPT ![t] = "lock"]
        /\ UNCHANGED <<main, engine, isr, killVars, m_bEnable, raised, users, m_LockSW>>
    BY <1>2 DEF Call
  <2>2. LockOK'
    <3>1. InAccess' = InAccess
      BY <1>1, <2>1
    <3> QED  BY <2>1, <3>1, LockSame DEF IInv
  <2>3. HoldsOK'
    <3>1. t \notin users
      BY <2>1 DEF IInv, HoldsOK
    <3> QED  BY <1>7, <2>1, <3>1
  <2>4. TypeOK'
    BY <1>1, <2>1 DEF IInv, TypeOK, killVars
  <2> QED  BY <2>0, <2>1, <2>2, <2>3, <2>4 DEF IInv, Order
<1>3. CASE Request(t)
  <2>1. /\ access[t] = "lock" /\ m_LockSW = 1 /\ m_LockSW' = 0
        /\ access' = [access EXCEPT ![t] = "wait"]
        /\ users' = users \cup {t} /\ engine' = Woken
        /\ UNCHANGED <<main, isr, killVars, m_bEnable, raised>>
    BY <1>1, <1>3 DEF Request
  <2>2. LockOK'
    <3>1. InAccess = {}
      BY <2>1 DEF IInv, LockOK
    <3>2. InAccess' = {t}
      BY <1>1, <2>1, <3>1
    <3> QED  BY <2>1, <3>2 DEF LockOK
  <2>3. engine' \in {"new", "run", "asleep", "stopped"} /\ users' \subseteq Users
    BY <1>1, <2>1 DEF IInv, TypeOK, Woken
  <2>4. TypeOK'
    BY <1>1, <2>1, <2>3 DEF IInv, TypeOK, killVars
  <2>5. Order'
    BY <1>6, <2>1 DEF IInv, Order, Woken
  <2>6. HoldsOK'
    BY <1>7, <2>1
  <2> QED  BY <2>2, <2>4, <2>5, <2>6 DEF IInv
<1>4. CASE Acknowledge(t)
  <2>1. /\ access[t] = "wait" /\ access' = [access EXCEPT ![t] = "acknowledged"]
        /\ users' = users \ {t}
        /\ UNCHANGED <<main, engine, isr, killVars, m_bEnable, raised, m_LockSW>>
    BY <1>4 DEF Acknowledge
  <2>2. LockOK'
    <3>1. InAccess' = InAccess
      BY <1>1, <2>1
    <3> QED  BY <2>1, <3>1, LockSame DEF IInv
  <2>3. HoldsOK'
    BY <1>7, <2>1
  <2> QED  BY <1>1, <1>6, <2>1, <2>2, <2>3 DEF IInv, TypeOK, Order, killVars
<1>5. CASE Return(t)
  <2>1. /\ access[t] = "acknowledged" /\ access' = [access EXCEPT ![t] = "none"]
        /\ m_LockSW' = m_LockSW + 1
        /\ UNCHANGED <<main, engine, isr, killVars, m_bEnable, raised, users>>
    BY <1>5 DEF Return
  <2>2. t \in InAccess
    BY <2>1
  <2>3. m_LockSW' = 1
    BY <1>1, <2>1, <2>2 DEF IInv, LockOK
  <2>4. InAccess' = {}
    <3>1. \A u \in Callers \ {t} : access[u] \notin {"wait", "acknowledged"}
      BY <2>2 DEF IInv, LockOK
    <3> QED  BY <1>1, <2>1, <3>1
  <2>5. LockOK'
    BY <2>4 DEF LockOK
  <2>6. HoldsOK'
    <3>1. t \notin users
      BY <2>1 DEF IInv, HoldsOK
    <3> QED  BY <1>7, <2>1, <3>1
  <2> QED  BY <1>1, <1>6, <2>1, <2>3, <2>5, <2>6 DEF IInv, TypeOK, Order, killVars
<1> QED  BY <1>2, <1>3, <1>4, <1>5

LEMMA Invariance == Spec => []IInv
<1>1. IInv /\ [Next]_vars => IInv'
  BY OtherSteps, AccessSteps, Zenon DEF Next, EngineStep, AccessStep
<1> QED  BY InitIInv, <1>1, PTL DEF Spec

-------------------------------------------------------------------------------
(* A register access has the bus to itself (BusSlave.cpp, m_LockSW): for    *)
(* any number of software threads at most one caller is between its request *)
(* and its return, and it holds the engine awake exactly until its          *)
(* acknowledge, also while the main thread shuts down.                      *)
THEOREM AccessesExclude == Spec => [](LockOK /\ HoldsOK)
<1>1. IInv => LockOK /\ HoldsOK
  BY DEF IInv
<1> QED  BY Invariance, <1>1, PTL

(* Release deletes the engine after the joins of both its threads           *)
(* (SimEngine.cpp, Terminate), whether or not the design calls $finish and  *)
(* whatever accesses other software threads make meanwhile.                 *)
THEOREM DeletedAfterBothJoins == Spec => []DeletedAfterJoin
<1>1. IInv => DeletedAfterJoin
  BY DEF IInv, Order, DeletedAfterJoin
<1> QED  BY Invariance, <1>1, PTL
===============================================================================
