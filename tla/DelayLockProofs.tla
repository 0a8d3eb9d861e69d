---------------------------- MODULE DelayLockProofs ---------------------------
(***************************************************************************)
(* DelayLock's invariants, proved for every number of holds and every      *)
(* choice of the delays.                                                   *)
(***************************************************************************)
EXTENDS DelayLock, FiniteSetTheorems, TLAPS

(* The engine's holds, the software's and the interrupts' are finite.       *)
LEMMA HoldsFinite == IsFiniteSet(Holds)
  BY HoldsAssumption, FS_Union DEF Holds

(* When a set changes at one element only, its cardinality moves by one.    *)
LEMMA CardinalityChange ==
  ASSUME NEW S, NEW T, NEW h, IsFiniteSet(S), T \ {h} = S \ {h}
  PROVE  /\ Cardinality(S) \in Int
         /\ Cardinality(T) = Cardinality(S) + N(h \in T) - N(h \in S)
<1>1. IsFiniteSet(S \ {h})
  BY FS_RemoveElement
<1>2. Cardinality(S) \in Int /\ Cardinality(S \ {h}) \in Int
  BY <1>1, FS_CardinalityType
<1>3. Cardinality(S) = Cardinality(S \ {h}) + N(h \in S)
  <2>1. CASE h \in S
    BY <2>1, <1>2, FS_RemoveElement DEF N
  <2>2. CASE h \notin S
    <3>1. Cardinality(S \ {h}) = Cardinality(S)
      BY <2>2, FS_RemoveElement
    <3>. QED
      BY <3>1, <2>2, <1>2 DEF N
  <2>. QED
    BY <2>1, <2>2
<1>4. Cardinality(T) = Cardinality(S \ {h}) + N(h \in T)
  <2>1. CASE h \in T
    <3>1. T = (S \ {h}) \cup {h}
      BY <2>1
    <3>2. h \notin S \ {h}
      OBVIOUS
    <3>3. Cardinality((S \ {h}) \cup {h}) = Cardinality(S \ {h}) + 1
      BY <3>2, <1>1, FS_AddElement
    <3>. QED
      BY <3>1, <3>3, <2>1 DEF N
  <2>2. CASE h \notin T
    <3>1. T = S \ {h}
      BY <2>2
    <3>2. Cardinality(T) = Cardinality(S \ {h})
      BY <3>1
    <3>. QED
      BY <3>2, <2>2, <1>2 DEF N
  <2>. QED
    BY <2>1, <2>2
<1>. QED
  <2>1. N(h \in S) \in Int /\ N(h \in T) \in Int
    BY DEF N
  <2>. QED
    BY <1>2, <1>3, <1>4, <2>1

(* What a move of one hold does to the four counted sets.                   *)
LEMMA CountsChange ==
  ASSUME TypeOK, NEW h \in Holds, NEW s \in Stages, NEW c \in Calls,
         Place(h, s, c)
  PROVE  /\ Cardinality(Owed') =
              Cardinality(Owed) + N(s # "idle") - N(stage[h] # "idle")
         /\ Cardinality(Early') =
              Cardinality(Early) + N(c = "done") - N(call[h] = "done")
         /\ Cardinality(InFlight') =
              Cardinality(InFlight) + N(s = "raised") - N(stage[h] = "raised")
         /\ Cardinality(Taken') =
              Cardinality(Taken) + N(c = "taken") - N(call[h] = "taken")
<1>. USE DEF TypeOK, Place
<1>1. /\ stage'[h] = s /\ \A g \in Holds : g # h => stage'[g] = stage[g]
      /\ call'[h] = c /\ \A g \in Holds : g # h => call'[g] = call[g]
  OBVIOUS
<1>2. /\ IsFiniteSet(Owed) /\ IsFiniteSet(Early)
      /\ IsFiniteSet(InFlight) /\ IsFiniteSet(Taken)
  BY HoldsFinite, FS_Subset DEF Owed, Early, InFlight, Taken
<1>3. /\ Owed' \ {h} = Owed \ {h}
      /\ Early' \ {h} = Early \ {h}
      /\ InFlight' \ {h} = InFlight \ {h}
      /\ Taken' \ {h} = Taken \ {h}
  BY <1>1 DEF Owed, Early, InFlight, Taken
<1>4. /\ (h \in Owed') <=> (s # "idle")
      /\ (h \in Owed) <=> (stage[h] # "idle")
      /\ (h \in Early') <=> (c = "done")
      /\ (h \in Early) <=> (call[h] = "done")
      /\ (h \in InFlight') <=> (s = "raised")
      /\ (h \in InFlight) <=> (stage[h] = "raised")
      /\ (h \in Taken') <=> (c = "taken")
      /\ (h \in Taken) <=> (call[h] = "taken")
  BY <1>1 DEF Owed, Early, InFlight, Taken
<1>5. /\ Cardinality(Owed') = Cardinality(Owed) + N(h \in Owed') - N(h \in Owed)
      /\ Cardinality(Early') =
           Cardinality(Early) + N(h \in Early') - N(h \in Early)
      /\ Cardinality(InFlight') =
           Cardinality(InFlight) + N(h \in InFlight') - N(h \in InFlight)
      /\ Cardinality(Taken') =
           Cardinality(Taken) + N(h \in Taken') - N(h \in Taken)
  BY <1>2, <1>3, CardinalityChange
<1>. QED
  BY <1>4, <1>5 DEF N

(* The counted sets are finite.                                             *)
LEMMA CountsType ==
  /\ Cardinality(Owed) \in Nat /\ IsFiniteSet(Owed)
  /\ Cardinality(Early) \in Nat
  /\ Cardinality(InFlight) \in Nat /\ IsFiniteSet(InFlight)
  /\ Cardinality(Taken) \in Nat
<1>1. /\ IsFiniteSet(Owed) /\ IsFiniteSet(Early)
      /\ IsFiniteSet(InFlight) /\ IsFiniteSet(Taken)
  BY HoldsFinite, FS_Subset DEF Owed, Early, InFlight, Taken
<1>. QED
  BY <1>1, FS_CardinalityType

-------------------------------------------------------------------------------
(* The constants a step reads are numbers.                                  *)
LEMMA DelaysType ==
  /\ StartDelay \in Nat \ {0} /\ AwakeDelay \in Nat \ {0}
  /\ \A h \in Holds : DelaysOf(h) \subseteq Nat \ {0}
  BY DelaysAssumption DEF DelaysOf

(* The invariant holds before the engine thread starts.                     *)
LEMMA InitIInv == Init => IInv
<1> SUFFICES ASSUME Init PROVE IInv
  OBVIOUS
<1>0. PICK R \in SUBSET HwHolds :
       /\ stage = [h \in Holds |-> IF h \in R THEN "held" ELSE "idle"]
       /\ m_iSema = Cardinality(R)
       /\ m_Lock = Cardinality(R)
  BY DEF Init, ResetsHeld
<1>1. Cardinality(R) \in Nat
  BY HoldsAssumption, FS_Subset, FS_CardinalityType
<1>2. TypeOK
  <2>1. /\ stage \in [Holds -> Stages] /\ call \in [Holds -> Calls]
        /\ arg \in [Holds -> Nat]
    BY <1>0 DEF Init, Stages, Calls
  <2>2. m_iSema \in Int /\ m_Lock \in Nat
    BY <1>0, <1>1
  <2>3. m_bRun \in BOOLEAN /\ m_bForceToExit \in BOOLEAN
    BY DEF Init
  <2>4. /\ m_iDelayTime \in Nat /\ m_iDeferredLock \in Nat /\ reg \in Nat
        /\ iLocked \in Nat /\ m_DelaySemaphore \in {0, 1} /\ released \in 0 .. 2
        /\ unseen \in Nat
    BY DEF Init
  <2>5. pending \subseteq IsrHolds
    BY DEF Init
  <2>6. /\ engine \in {"start", "tik", "eval", "awake", "store", "test",
                      "collect", "down", "return", "looked", "stopped"}
        /\ killer \in {"run", "releasing", "up", "waiting", "joining", "joined"}
    BY DEF Init
  <2>. QED
    BY <2>1, <2>2, <2>3, <2>4, <2>5, <2>6 DEF TypeOK
<1>3. Owed = R /\ Early = {} /\ InFlight = {} /\ Taken = {}
  BY <1>0 DEF Init, Owed, Early, InFlight, Taken, Holds
<1>4. SemaBalance /\ LockBalance
  BY <1>0, <1>1, <1>3, FS_EmptySet DEF Init, SemaBalance, LockBalance, N
<1>5. EngineCallsOK /\ SectionOK /\ DelayOK /\ EngineOK /\ KillOK
  BY <1>0 DEF Init, EngineCallsOK, SectionOK, InSection, DelayOK, EngineOK, KillOK,
         EngineCalls, InLock, Looked
<1>. QED
  BY <1>2, <1>4, <1>5 DEF IInv

(* The parts of the invariant that do not count.                            *)
Local == TypeOK /\ EngineCallsOK /\ SectionOK /\ DelayOK /\ EngineOK /\ KillOK

(* A step of a hold keeps them.                                             *)
LEMMA HoldStepLocal ==
  ASSUME Local, NEW h \in Holds, HoldStep(h)
  PROVE  Local'
<1>. USE DEF Local, Place, Looked, CountedUnseen, semas, delays, lockVars, engineVars,
            holdVars, killVars
<1>1. CASE Raise(h)
  <2>1. TypeOK'
    BY <1>1 DEF Raise, Evaluating, TypeOK, Stages, Calls
  <2>2. EngineCallsOK'
    BY <1>1 DEF Raise, Evaluating, TypeOK, EngineCallsOK, EngineCalls, InLock, EngineOK
  <2>3. SectionOK'
    BY <1>1 DEF Raise, Evaluating, TypeOK, SectionOK, InSection
  <2>4. DelayOK'
    BY <1>1 DEF Raise, Evaluating, TypeOK, DelayOK, SectionOK, InSection
  <2>5. EngineOK'
    BY <1>1, HoldsAssumption DEF Raise, Evaluating, TypeOK, EngineOK, EngineCallsOK, EngineCalls, InLock, Holds
  <2>6. KillOK'
    BY <1>1 DEF Raise, Evaluating, TypeOK, KillOK, N
  <2>. QED
    BY <2>1, <2>2, <2>3, <2>4, <2>5, <2>6
<1>2. CASE Up(h)
  <2>1. TypeOK'
    BY <1>2 DEF Up, TypeOK, Stages, Calls
  <2>2. EngineCallsOK'
    BY <1>2 DEF Up, TypeOK, EngineCallsOK, EngineCalls, InLock, EngineOK
  <2>3. SectionOK'
    BY <1>2 DEF Up, TypeOK, SectionOK, InSection
  <2>4. DelayOK'
    BY <1>2 DEF Up, TypeOK, DelayOK, SectionOK, InSection
  <2>5. EngineOK'
    BY <1>2, HoldsAssumption DEF Up, TypeOK, EngineOK, EngineCallsOK, EngineCalls, InLock
  <2>6. KillOK'
    BY <1>2 DEF Up, TypeOK, KillOK, N
  <2>. QED
    BY <2>1, <2>2, <2>3, <2>4, <2>5, <2>6
<1>3. ASSUME NEW d \in DelaysOf(h), LockDelayed(h, d) PROVE Local'
  <2>1. TypeOK'
    BY <1>3, DelaysType DEF LockDelayed, MayLock, Evaluating, TypeOK, Stages, Calls
  <2>2. EngineCallsOK'
    BY <1>3 DEF LockDelayed, MayLock, Evaluating, TypeOK, EngineCallsOK, EngineCalls, InLock, EngineOK
  <2>3. SectionOK'
    BY <1>3, DelaysType DEF LockDelayed, MayLock, Evaluating, TypeOK, SectionOK, InSection
  <2>4. DelayOK'
    BY <1>3, DelaysType DEF LockDelayed, MayLock, Evaluating, TypeOK, DelayOK, SectionOK, InSection
  <2>5. EngineOK'
    BY <1>3, HoldsAssumption DEF LockDelayed, MayLock, Evaluating, TypeOK, EngineOK, EngineCallsOK, EngineCalls, InLock
  <2>6. KillOK'
    BY <1>3 DEF LockDelayed, MayLock, Evaluating, TypeOK, KillOK, N
  <2>. QED
    BY <2>1, <2>2, <2>3, <2>4, <2>5, <2>6
<1>4. CASE SetDelay(h)
  <2>1. TypeOK'
    BY <1>4 DEF SetDelay, TypeOK, Stages, Calls
  <2>2. EngineCallsOK'
    BY <1>4 DEF SetDelay, TypeOK, EngineCallsOK, EngineCalls, InLock, EngineOK
  <2>3. SectionOK'
    BY <1>4 DEF SetDelay, TypeOK, SectionOK, InSection
  <2>4. DelayOK'
    BY <1>4 DEF SetDelay, TypeOK, DelayOK, SectionOK, InSection
  <2>5. EngineOK'
    BY <1>4, HoldsAssumption DEF SetDelay, TypeOK, EngineOK, EngineCallsOK, EngineCalls, InLock
  <2>6. KillOK'
    BY <1>4 DEF SetDelay, TypeOK, KillOK, N
  <2>. QED
    BY <2>1, <2>2, <2>3, <2>4, <2>5, <2>6
<1>5. CASE Defer(h)
  <2>1. TypeOK'
    BY <1>5 DEF Defer, TypeOK, Stages, Calls
  <2>2. EngineCallsOK'
    BY <1>5 DEF Defer, TypeOK, EngineCallsOK, EngineCalls, InLock, EngineOK
  <2>3. SectionOK'
    BY <1>5 DEF Defer, TypeOK, SectionOK, InSection
  <2>4. DelayOK'
    BY <1>5 DEF Defer, TypeOK, DelayOK, SectionOK, InSection
  <2>5. EngineOK'
    BY <1>5, HoldsAssumption DEF Defer, TypeOK, EngineOK, EngineCallsOK, EngineCalls, InLock
  <2>6. KillOK'
    BY <1>5 DEF Defer, TypeOK, KillOK, N
  <2>. QED
    BY <2>1, <2>2, <2>3, <2>4, <2>5, <2>6
<1>6. CASE LockNow(h)
  <2>1. TypeOK'
    BY <1>6 DEF LockNow, MayLock, Evaluating, TypeOK, Stages, Calls
  <2>2. EngineCallsOK'
    BY <1>6, HoldsAssumption
    DEF LockNow, MayLock, Evaluating, TypeOK, EngineCallsOK, EngineCalls, InLock, EngineOK
  <2>3. SectionOK'
    BY <1>6 DEF LockNow, MayLock, Evaluating, TypeOK, SectionOK, InSection
  <2>4. DelayOK'
    BY <1>6 DEF LockNow, MayLock, Evaluating, TypeOK, DelayOK, SectionOK, InSection
  <2>5. EngineOK'
    BY <1>6, HoldsAssumption DEF LockNow, MayLock, Evaluating, TypeOK, EngineOK, EngineCallsOK, EngineCalls, InLock
  <2>6. KillOK'
    BY <1>6 DEF LockNow, MayLock, Evaluating, TypeOK, KillOK, N
  <2>. QED
    BY <2>1, <2>2, <2>3, <2>4, <2>5, <2>6
<1>7. CASE LockDown(h)
  <2>1. TypeOK'
    BY <1>7 DEF LockDown, TypeOK, Stages, Calls
  <2>2. EngineCallsOK'
    BY <1>7 DEF LockDown, TypeOK, EngineCallsOK, EngineCalls, InLock, EngineOK
  <2>3. SectionOK'
    BY <1>7 DEF LockDown, TypeOK, SectionOK, InSection
  <2>4. DelayOK'
    BY <1>7 DEF LockDown, TypeOK, DelayOK, SectionOK, InSection
  <2>5. EngineOK'
    BY <1>7, HoldsAssumption DEF LockDown, TypeOK, EngineOK, EngineCallsOK, EngineCalls, InLock
  <2>6. KillOK'
    BY <1>7 DEF LockDown, TypeOK, KillOK, N
  <2>. QED
    BY <2>1, <2>2, <2>3, <2>4, <2>5, <2>6
<1>8. CASE LockCount(h)
  <2>1. TypeOK'
    BY <1>8 DEF LockCount, TypeOK, Stages, Calls
  <2>2. EngineCallsOK'
    BY <1>8 DEF LockCount, TypeOK, EngineCallsOK, EngineCalls, InLock, EngineOK
  <2>3. SectionOK'
    BY <1>8 DEF LockCount, TypeOK, SectionOK, InSection
  <2>4. DelayOK'
    BY <1>8 DEF LockCount, TypeOK, DelayOK, SectionOK, InSection
  <2>5. EngineOK'
    BY <1>8, HoldsAssumption DEF LockCount, TypeOK, EngineOK, EngineCallsOK, EngineCalls, InLock
  <2>6. KillOK'
    BY <1>8 DEF LockCount, TypeOK, KillOK, N
  <2>. QED
    BY <2>1, <2>2, <2>3, <2>4, <2>5, <2>6
<1>. QED
  BY <1>1, <1>2, <1>3, <1>4, <1>5, <1>6, <1>7, <1>8 DEF HoldStep

(* A step of the engine thread keeps them.                                  *)
LEMMA EngineStepLocal ==
  ASSUME Local, EngineStep
  PROVE  Local'
<1>. USE DEF Local, Looked, CountedUnseen, semas, delays, lockVars, engineVars,
            holdVars, killVars
<1>1. CASE Start
  <2>1. TypeOK'
    BY <1>1, DelaysType DEF Start, TypeOK, Stages, Calls
  <2>2. EngineCallsOK'
    BY <1>1 DEF Start, TypeOK, EngineCallsOK, EngineCalls, InLock, EngineOK
  <2>3. SectionOK'
    BY <1>1, DelaysType DEF Start, TypeOK, SectionOK, InSection
  <2>4. DelayOK'
    BY <1>1, DelaysType DEF Start, TypeOK, DelayOK, SectionOK, InSection
  <2>5. EngineOK'
    BY <1>1 DEF Start, TypeOK, EngineOK, EngineCallsOK, EngineCalls, InLock
  <2>6. KillOK'
    BY <1>1 DEF Start, TypeOK, KillOK, N
  <2>. QED
    BY <2>1, <2>2, <2>3, <2>4, <2>5, <2>6
<1>2. CASE Clocking
  <2>1. TypeOK'
    BY <1>2 DEF Clocking, TypeOK, Stages, Calls
  <2>2. EngineCallsOK'
    BY <1>2 DEF Clocking, TypeOK, EngineCallsOK, EngineCalls, InLock, EngineOK
  <2>3. SectionOK'
    BY <1>2 DEF Clocking, TypeOK, SectionOK, InSection
  <2>4. DelayOK'
    BY <1>2 DEF Clocking, TypeOK, DelayOK, SectionOK, InSection
  <2>5. EngineOK'
    BY <1>2 DEF Clocking, TypeOK, EngineOK, EngineCallsOK, EngineCalls, InLock
  <2>6. KillOK'
    BY <1>2 DEF Clocking, TypeOK, KillOK, N
  <2>. QED
    BY <2>1, <2>2, <2>3, <2>4, <2>5, <2>6
<1>3. CASE EvalFails
  <2>1. TypeOK'
    BY <1>3 DEF EvalFails, Evaluating, TypeOK, Stages, Calls
  <2>2. EngineCallsOK'
    BY <1>3 DEF EvalFails, Evaluating, TypeOK, EngineCallsOK, EngineCalls, InLock, EngineOK
  <2>3. SectionOK'
    BY <1>3 DEF EvalFails, Evaluating, TypeOK, SectionOK, InSection
  <2>4. DelayOK'
    BY <1>3 DEF EvalFails, Evaluating, TypeOK, DelayOK, SectionOK, InSection
  <2>5. EngineOK'
    BY <1>3 DEF EvalFails, Evaluating, TypeOK, EngineOK, EngineCallsOK, EngineCalls, InLock
  <2>6. KillOK'
    BY <1>3 DEF EvalFails, Evaluating, TypeOK, KillOK, N
  <2>. QED
    BY <2>1, <2>2, <2>3, <2>4, <2>5, <2>6
<1>4. ASSUME NEW v \in IsrHolds, AwakeInterrupt(v) PROVE Local'
  <2>1. TypeOK'
    BY <1>4 DEF AwakeInterrupt, Evaluating, TypeOK, Stages, Calls
  <2>2. EngineCallsOK'
    BY <1>4 DEF AwakeInterrupt, Evaluating, TypeOK, EngineCallsOK, EngineCalls, InLock, EngineOK
  <2>3. SectionOK'
    BY <1>4 DEF AwakeInterrupt, Evaluating, TypeOK, SectionOK, InSection
  <2>4. DelayOK'
    BY <1>4 DEF AwakeInterrupt, Evaluating, TypeOK, DelayOK, SectionOK, InSection
  <2>5. EngineOK'
    BY <1>4 DEF AwakeInterrupt, Evaluating, TypeOK, EngineOK, EngineCallsOK, EngineCalls, InLock
  <2>6. KillOK'
    BY <1>4 DEF AwakeInterrupt, Evaluating, TypeOK, KillOK, N
  <2>. QED
    BY <2>1, <2>2, <2>3, <2>4, <2>5, <2>6
<1>5. CASE AwakeSetDelay
  <2>1. TypeOK'
    BY <1>5, DelaysType DEF AwakeSetDelay, TypeOK, Stages, Calls
  <2>2. EngineCallsOK'
    BY <1>5 DEF AwakeSetDelay, TypeOK, EngineCallsOK, EngineCalls, InLock, EngineOK
  <2>3. SectionOK'
    BY <1>5, DelaysType DEF AwakeSetDelay, TypeOK, SectionOK, InSection
  <2>4. DelayOK'
    BY <1>5, DelaysType DEF AwakeSetDelay, TypeOK, DelayOK, SectionOK, InSection
  <2>5. EngineOK'
    BY <1>5 DEF AwakeSetDelay, TypeOK, EngineOK, EngineCallsOK, EngineCalls, InLock
  <2>6. KillOK'
    BY <1>5 DEF AwakeSetDelay, TypeOK, KillOK, N
  <2>. QED
    BY <2>1, <2>2, <2>3, <2>4, <2>5, <2>6
<1>6. CASE CheckLoad
  <2>1. TypeOK'
    BY <1>6 DEF CheckLoad, Evaluating, TypeOK, Stages, Calls
  <2>2. EngineCallsOK'
    BY <1>6 DEF CheckLoad, Evaluating, TypeOK, EngineCallsOK, EngineCalls, InLock, EngineOK
  <2>3. SectionOK'
    BY <1>6 DEF CheckLoad, Evaluating, TypeOK, SectionOK, InSection
  <2>4. DelayOK'
    BY <1>6 DEF CheckLoad, Evaluating, TypeOK, DelayOK, SectionOK, InSection
  <2>5. EngineOK'
    BY <1>6, HoldsAssumption DEF CheckLoad, Evaluating, TypeOK, EngineOK, EngineCallsOK, EngineCalls, InLock
  <2>6. KillOK'
    BY <1>6 DEF CheckLoad, Evaluating, TypeOK, KillOK, N
  <2>. QED
    BY <2>1, <2>2, <2>3, <2>4, <2>5, <2>6
<1>7. CASE CheckStore
  <2>1. TypeOK'
    BY <1>7 DEF CheckStore, TypeOK, Stages, Calls, DelayOK
  <2>2. EngineCallsOK'
    BY <1>7 DEF CheckStore, TypeOK, EngineCallsOK, EngineCalls, InLock, EngineOK
  <2>3. SectionOK'
    BY <1>7 DEF CheckStore, TypeOK, SectionOK, InSection
  <2>4. DelayOK'
    BY <1>7 DEF CheckStore, TypeOK, DelayOK, SectionOK, InSection
  <2>5. EngineOK'
    BY <1>7, HoldsAssumption DEF CheckStore, TypeOK, EngineOK, EngineCallsOK, EngineCalls, InLock
  <2>6. KillOK'
    BY <1>7 DEF CheckStore, TypeOK, KillOK, N
  <2>. QED
    BY <2>1, <2>2, <2>3, <2>4, <2>5, <2>6
<1>8. CASE CheckTest
  <2>1. TypeOK'
    BY <1>8 DEF CheckTest, TypeOK, Stages, Calls
  <2>2. EngineCallsOK'
    BY <1>8 DEF CheckTest, TypeOK, EngineCallsOK, EngineCalls, InLock, EngineOK
  <2>3. SectionOK'
    BY <1>8 DEF CheckTest, TypeOK, SectionOK, InSection
  <2>4. DelayOK'
    BY <1>8 DEF CheckTest, TypeOK, DelayOK, SectionOK, InSection
  <2>5. EngineOK'
    BY <1>8, HoldsAssumption DEF CheckTest, TypeOK, EngineOK, EngineCallsOK, EngineCalls, InLock
  <2>6. KillOK'
    BY <1>8 DEF CheckTest, TypeOK, KillOK, N
  <2>. QED
    BY <2>1, <2>2, <2>3, <2>4, <2>5, <2>6
<1>9. CASE Collect
  <2>1. TypeOK'
    BY <1>9 DEF Collect, TypeOK, Stages, Calls
  <2>2. EngineCallsOK'
    BY <1>9 DEF Collect, TypeOK, EngineCallsOK, EngineCalls, InLock, EngineOK
  <2>3. SectionOK'
    BY <1>9 DEF Collect, TypeOK, SectionOK, InSection
  <2>4. DelayOK'
    BY <1>9 DEF Collect, TypeOK, DelayOK, SectionOK, InSection
  <2>5. EngineOK'
    BY <1>9 DEF Collect, TypeOK, EngineOK, EngineCallsOK, EngineCalls, InLock
  <2>6. KillOK'
    BY <1>9 DEF Collect, TypeOK, KillOK, N
  <2>. QED
    BY <2>1, <2>2, <2>3, <2>4, <2>5, <2>6
<1>10. CASE Down
  <2>1. TypeOK'
    BY <1>10 DEF Down, TypeOK, Stages, Calls
  <2>2. EngineCallsOK'
    BY <1>10 DEF Down, TypeOK, EngineCallsOK, EngineCalls, InLock, EngineOK
  <2>3. SectionOK'
    BY <1>10 DEF Down, TypeOK, SectionOK, InSection
  <2>4. DelayOK'
    BY <1>10 DEF Down, TypeOK, DelayOK, SectionOK, InSection
  <2>5. EngineOK'
    BY <1>10 DEF Down, TypeOK, EngineOK, EngineCallsOK, EngineCalls, InLock
  <2>6. KillOK'
    BY <1>10 DEF Down, TypeOK, KillOK, N
  <2>. QED
    BY <2>1, <2>2, <2>3, <2>4, <2>5, <2>6
<1>11. CASE GoOn
  <2>1. TypeOK'
    BY <1>11 DEF GoOn, CheckReturns, TypeOK, Stages, Calls
  <2>2. EngineCallsOK'
    BY <1>11 DEF GoOn, CheckReturns, TypeOK, EngineCallsOK, EngineCalls, InLock, EngineOK
  <2>3. SectionOK'
    BY <1>11 DEF GoOn, CheckReturns, TypeOK, SectionOK, InSection
  <2>4. DelayOK'
    BY <1>11 DEF GoOn, CheckReturns, TypeOK, DelayOK, SectionOK, InSection
  <2>5. EngineOK'
    BY <1>11 DEF GoOn, CheckReturns, TypeOK, EngineOK, EngineCallsOK, EngineCalls, InLock
  <2>6. KillOK'
    BY <1>11 DEF GoOn, CheckReturns, TypeOK, KillOK, N
  <2>. QED
    BY <2>1, <2>2, <2>3, <2>4, <2>5, <2>6
<1>12. CASE Leave
  <2>1. TypeOK'
    BY <1>12 DEF Leave, TypeOK, Stages, Calls
  <2>2. EngineCallsOK'
    BY <1>12 DEF Leave, TypeOK, EngineCallsOK, EngineCalls, InLock, EngineOK
  <2>3. SectionOK'
    BY <1>12 DEF Leave, TypeOK, SectionOK, InSection
  <2>4. DelayOK'
    BY <1>12 DEF Leave, TypeOK, DelayOK, SectionOK, InSection
  <2>5. EngineOK'
    BY <1>12 DEF Leave, TypeOK, EngineOK, EngineCallsOK, EngineCalls, InLock
  <2>6. KillOK'
    BY <1>12 DEF Leave, TypeOK, KillOK, N
  <2>. QED
    BY <2>1, <2>2, <2>3, <2>4, <2>5, <2>6
<1>13. CASE LoadSema
  <2>1. TypeOK'
    BY <1>13 DEF LoadSema, CheckReturns, TypeOK, Stages, Calls
  <2>2. EngineCallsOK'
    BY <1>13 DEF LoadSema, CheckReturns, TypeOK, EngineCallsOK, EngineCalls, InLock, EngineOK
  <2>3. SectionOK'
    BY <1>13 DEF LoadSema, CheckReturns, TypeOK, SectionOK, InSection
  <2>4. DelayOK'
    BY <1>13 DEF LoadSema, CheckReturns, TypeOK, DelayOK, SectionOK, InSection
  <2>5. EngineOK'
    BY <1>13 DEF LoadSema, CheckReturns, TypeOK, EngineOK, EngineCallsOK, EngineCalls, InLock
  <2>6. KillOK'
    BY <1>13 DEF LoadSema, CheckReturns, TypeOK, KillOK, N
  <2>. QED
    BY <2>1, <2>2, <2>3, <2>4, <2>5, <2>6
<1>. QED
  BY <1>1, <1>2, <1>3, <1>4, <1>5, <1>6, <1>7, <1>8, <1>9, <1>10, <1>11, <1>12,
     <1>13 DEF EngineStep

(* A step of the terminating thread keeps them.                             *)
LEMMA KillStepLocal ==
  ASSUME Local, KillStep
  PROVE  Local'
<1>. USE DEF Local, Looked, CountedUnseen, semas, delays, lockVars, engineVars,
            holdVars, killVars
<1>1. CASE Kill
  <2>1. TypeOK'
    BY <1>1 DEF Kill, TypeOK, Stages, Calls
  <2>2. EngineCallsOK'
    BY <1>1 DEF Kill, TypeOK, EngineCallsOK, EngineCalls, InLock, EngineOK
  <2>3. SectionOK'
    BY <1>1 DEF Kill, TypeOK, SectionOK, InSection
  <2>4. DelayOK'
    BY <1>1 DEF Kill, TypeOK, DelayOK, SectionOK, InSection
  <2>5. EngineOK'
    BY <1>1 DEF Kill, TypeOK, EngineOK, EngineCallsOK, EngineCalls, InLock
  <2>6. KillOK'
    BY <1>1 DEF Kill, TypeOK, KillOK, N
  <2>. QED
    BY <2>1, <2>2, <2>3, <2>4, <2>5, <2>6
<1>2. CASE KillRaise
  <2>1. TypeOK'
    BY <1>2 DEF KillRaise, TypeOK, Stages, Calls, KillOK, N
  <2>2. EngineCallsOK'
    BY <1>2 DEF KillRaise, TypeOK, EngineCallsOK, EngineCalls, InLock, EngineOK
  <2>3. SectionOK'
    BY <1>2 DEF KillRaise, TypeOK, SectionOK, InSection
  <2>4. DelayOK'
    BY <1>2 DEF KillRaise, TypeOK, DelayOK, SectionOK, InSection
  <2>5. EngineOK'
    BY <1>2 DEF KillRaise, TypeOK, EngineOK, EngineCallsOK, EngineCalls, InLock
  <2>6. KillOK'
    BY <1>2 DEF KillRaise, TypeOK, KillOK, N
  <2>. QED
    BY <2>1, <2>2, <2>3, <2>4, <2>5, <2>6
<1>3. CASE KillUp
  <2>1. TypeOK'
    BY <1>3 DEF KillUp, TypeOK, Stages, Calls
  <2>2. EngineCallsOK'
    BY <1>3 DEF KillUp, TypeOK, EngineCallsOK, EngineCalls, InLock, EngineOK
  <2>3. SectionOK'
    BY <1>3 DEF KillUp, TypeOK, SectionOK, InSection
  <2>4. DelayOK'
    BY <1>3 DEF KillUp, TypeOK, DelayOK, SectionOK, InSection
  <2>5. EngineOK'
    BY <1>3 DEF KillUp, TypeOK, EngineOK, EngineCallsOK, EngineCalls, InLock
  <2>6. KillOK'
    BY <1>3 DEF KillUp, TypeOK, KillOK, N
  <2>. QED
    BY <2>1, <2>2, <2>3, <2>4, <2>5, <2>6
<1>4. CASE KillTimeout
  <2>1. TypeOK'
    BY <1>4 DEF KillTimeout, TypeOK, Stages, Calls
  <2>2. EngineCallsOK'
    BY <1>4 DEF KillTimeout, TypeOK, EngineCallsOK, EngineCalls, InLock, EngineOK
  <2>3. SectionOK'
    BY <1>4 DEF KillTimeout, TypeOK, SectionOK, InSection
  <2>4. DelayOK'
    BY <1>4 DEF KillTimeout, TypeOK, DelayOK, SectionOK, InSection
  <2>5. EngineOK'
    BY <1>4 DEF KillTimeout, TypeOK, EngineOK, EngineCallsOK, EngineCalls, InLock
  <2>6. KillOK'
    BY <1>4 DEF KillTimeout, TypeOK, KillOK, N
  <2>. QED
    BY <2>1, <2>2, <2>3, <2>4, <2>5, <2>6
<1>5. CASE Join
  <2>1. TypeOK'
    BY <1>5 DEF Join, TypeOK, Stages, Calls
  <2>2. EngineCallsOK'
    BY <1>5 DEF Join, TypeOK, EngineCallsOK, EngineCalls, InLock, EngineOK
  <2>3. SectionOK'
    BY <1>5 DEF Join, TypeOK, SectionOK, InSection
  <2>4. DelayOK'
    BY <1>5 DEF Join, TypeOK, DelayOK, SectionOK, InSection
  <2>5. EngineOK'
    BY <1>5 DEF Join, TypeOK, EngineOK, EngineCallsOK, EngineCalls, InLock
  <2>6. KillOK'
    BY <1>5 DEF Join, TypeOK, KillOK, N
  <2>. QED
    BY <2>1, <2>2, <2>3, <2>4, <2>5, <2>6
<1>. QED
  BY <1>1, <1>2, <1>3, <1>4, <1>5 DEF KillStep

-------------------------------------------------------------------------------
(* The two balances.                                                        *)
Balance == SemaBalance /\ LockBalance

(* They survive a step that moves no hold, if it keeps the two sums.        *)
LEMMA SameCounts ==
  ASSUME UNCHANGED <<stage, call>>
  PROVE  /\ Cardinality(Owed') = Cardinality(Owed)
         /\ Cardinality(Early') = Cardinality(Early)
         /\ Cardinality(InFlight') = Cardinality(InFlight)
         /\ Cardinality(Taken') = Cardinality(Taken)
<1>1. Owed' = Owed /\ Early' = Early /\ InFlight' = InFlight /\ Taken' = Taken
  BY DEF Owed, Early, InFlight, Taken
<1>. QED
  BY <1>1

(* A step of a hold keeps the balances.                                     *)
LEMMA HoldStepBalance ==
  ASSUME Local, Balance, NEW h \in Holds, HoldStep(h)
  PROVE  Balance'
<1>. USE DEF semas, delays, lockVars, engineVars, holdVars, killVars
<1>0. TypeOK /\ EngineCallsOK /\ stage[h] \in Stages /\ call[h] \in Calls
  BY DEF Local, TypeOK
<1>1. CASE Raise(h)
  <2>1. /\ Cardinality(Owed') = Cardinality(Owed) + 1
        /\ Cardinality(Early') = Cardinality(Early)
        /\ Cardinality(InFlight') = Cardinality(InFlight) + 1
        /\ Cardinality(Taken') = Cardinality(Taken)
    <3>1. stage[h] = "idle" /\ Place(h, "raised", call[h])
      BY <1>1 DEF Raise
    <3>. QED
      BY <3>1, <1>0, CountsChange, CountsType DEF N, TypeOK, Stages, Calls
  <2>. QED
    BY <1>1, <2>1, <1>0, CountsType
    DEF Raise, Balance, SemaBalance, LockBalance, TypeOK, N
<1>2. CASE Up(h)
  <2>0. stage[h] = "raised"
    BY <1>2 DEF Up
  <2>1. CASE call[h] = "done"
    <3>1. Place(h, "idle", "none")
      BY <1>2, <2>1 DEF Up
    <3>2. /\ Cardinality(Owed') = Cardinality(Owed) - 1
          /\ Cardinality(Early') = Cardinality(Early) - 1
          /\ Cardinality(InFlight') = Cardinality(InFlight) - 1
          /\ Cardinality(Taken') = Cardinality(Taken)
      BY <2>0, <2>1, <3>1, <1>0, CountsChange, CountsType DEF N, Stages, Calls
    <3>3. /\ m_Lock' = m_Lock + 1 /\ UNCHANGED <<m_iSema, m_iDeferredLock>>
          /\ UNCHANGED <<released, engine, iLocked, killer>>
      BY <1>2 DEF Up
    <3>4. SemaBalance'
      BY <3>2, <3>3, <1>0, CountsType DEF Balance, SemaBalance, TypeOK, N
    <3>5. LockBalance'
      BY <3>2, <3>3, <1>0, CountsType DEF Balance, LockBalance, TypeOK, N
    <3>. QED
      BY <3>4, <3>5 DEF Balance
  <2>2. CASE call[h] # "done"
    <3>1. Place(h, "held", call[h])
      BY <1>2, <2>2 DEF Up
    <3>2. /\ Cardinality(Owed') = Cardinality(Owed)
          /\ Cardinality(Early') = Cardinality(Early)
          /\ Cardinality(InFlight') = Cardinality(InFlight) - 1
          /\ Cardinality(Taken') = Cardinality(Taken)
      BY <2>0, <2>2, <3>1, <1>0, CountsChange, CountsType DEF N, Stages, Calls
    <3>3. /\ m_Lock' = m_Lock + 1 /\ UNCHANGED <<m_iSema, m_iDeferredLock>>
          /\ UNCHANGED <<released, engine, iLocked, killer>>
      BY <1>2 DEF Up
    <3>4. SemaBalance'
      BY <3>2, <3>3, <1>0, CountsType DEF Balance, SemaBalance, TypeOK, N
    <3>5. LockBalance'
      BY <3>2, <3>3, <1>0, CountsType DEF Balance, LockBalance, TypeOK, N
    <3>. QED
      BY <3>4, <3>5 DEF Balance
  <2>. QED
    BY <2>1, <2>2
<1>3. ASSUME NEW d \in DelaysOf(h), LockDelayed(h, d) PROVE Balance'
  <2>1. /\ Cardinality(Owed') = Cardinality(Owed)
        /\ Cardinality(Early') = Cardinality(Early)
        /\ Cardinality(InFlight') = Cardinality(InFlight)
        /\ Cardinality(Taken') = Cardinality(Taken)
    <3>1. PICK c \in {"setdelay", "deferring"} : Place(h, stage[h], c)
      BY <1>3 DEF LockDelayed, MayLock
    <3>2. call[h] = "none"
      BY <1>3 DEF LockDelayed, MayLock
    <3>. QED
      BY <3>1, <3>2, <1>0, CountsChange, CountsType DEF N, Stages, Calls
  <2>. QED
    BY <1>3, <2>1, <1>0, CountsType
    DEF LockDelayed, MayLock, Balance, SemaBalance, LockBalance, TypeOK, N
<1>4. CASE SetDelay(h)
  <2>1. /\ Cardinality(Owed') = Cardinality(Owed)
        /\ Cardinality(Early') = Cardinality(Early)
        /\ Cardinality(InFlight') = Cardinality(InFlight)
        /\ Cardinality(Taken') = Cardinality(Taken)
    <3>1. call[h] = "setdelay" /\ Place(h, stage[h], "deferring")
      BY <1>4 DEF SetDelay
    <3>. QED
      BY <3>1, <1>0, CountsChange, CountsType DEF N, TypeOK, Stages, Calls
  <2>. QED
    BY <1>4, <2>1, <1>0, CountsType
    DEF SetDelay, Balance, SemaBalance, LockBalance, TypeOK, N
<1>5. CASE Defer(h)
  <2>0. call[h] = "deferring"
    BY <1>5 DEF Defer
  <2>1. CASE stage[h] = "held"
    <3>1. Place(h, "idle", "none")
      BY <1>5, <2>1 DEF Defer
    <3>2. /\ Cardinality(Owed') = Cardinality(Owed) - 1
          /\ Cardinality(Early') = Cardinality(Early)
          /\ Cardinality(InFlight') = Cardinality(InFlight)
          /\ Cardinality(Taken') = Cardinality(Taken)
      BY <2>0, <2>1, <3>1, <1>0, CountsChange, CountsType DEF N, Stages, Calls
    <3>. QED
      BY <1>5, <3>2, <1>0, CountsType
      DEF Defer, Balance, SemaBalance, LockBalance, TypeOK, N
  <2>2. CASE stage[h] # "held"
    <3>1. Place(h, stage[h], "done")
      BY <1>5, <2>2 DEF Defer
    <3>2. /\ Cardinality(Owed') = Cardinality(Owed)
          /\ Cardinality(Early') = Cardinality(Early) + 1
          /\ Cardinality(InFlight') = Cardinality(InFlight)
          /\ Cardinality(Taken') = Cardinality(Taken)
      BY <2>0, <2>2, <3>1, <1>0, CountsChange, CountsType DEF N, Stages, Calls
    <3>. QED
      BY <1>5, <3>2, <1>0, CountsType
      DEF Defer, Balance, SemaBalance, LockBalance, TypeOK, N
  <2>. QED
    BY <2>1, <2>2
<1>6. CASE LockNow(h)
  <2>1. /\ Cardinality(Owed') = Cardinality(Owed)
        /\ Cardinality(Early') = Cardinality(Early)
        /\ Cardinality(InFlight') = Cardinality(InFlight)
        /\ Cardinality(Taken') = Cardinality(Taken)
    <3>1. call[h] = "none" /\ Place(h, stage[h], "down")
      BY <1>6 DEF LockNow, MayLock
    <3>. QED
      BY <3>1, <1>0, CountsChange, CountsType DEF N, TypeOK, Stages, Calls
  <2>. QED
    BY <1>6, <2>1, <1>0, CountsType
    DEF LockNow, MayLock, Balance, SemaBalance, LockBalance, TypeOK, N
<1>7. CASE LockDown(h)
  <2>1. /\ Cardinality(Owed') = Cardinality(Owed)
        /\ Cardinality(Early') = Cardinality(Early)
        /\ Cardinality(InFlight') = Cardinality(InFlight)
        /\ Cardinality(Taken') = Cardinality(Taken) + 1
    <3>1. call[h] = "down" /\ Place(h, stage[h], "taken")
      BY <1>7 DEF LockDown
    <3>. QED
      BY <3>1, <1>0, CountsChange, CountsType DEF N, TypeOK, Stages, Calls
  <2>. QED
    BY <1>7, <2>1, <1>0, CountsType
    DEF LockDown, Balance, SemaBalance, LockBalance, TypeOK, N
<1>8. CASE LockCount(h)
  <2>1. /\ Cardinality(Owed') = Cardinality(Owed) - 1
        /\ Cardinality(Early') = Cardinality(Early)
        /\ Cardinality(InFlight') = Cardinality(InFlight)
        /\ Cardinality(Taken') = Cardinality(Taken) - 1
    <3>1. call[h] = "taken" /\ Place(h, "idle", "none")
      BY <1>8 DEF LockCount
    <3>2. stage[h] = "held"
      BY <3>1, <1>0 DEF EngineCallsOK
    <3>. QED
      BY <3>1, <3>2, <1>0, CountsChange, CountsType DEF N, Stages, Calls
  <2>. QED
    BY <1>8, <2>1, <1>0, CountsType
    DEF LockCount, Balance, SemaBalance, LockBalance, TypeOK, N
<1>. QED
  BY <1>1, <1>2, <1>3, <1>4, <1>5, <1>6, <1>7, <1>8 DEF HoldStep

(* A step of the engine thread keeps the balances.                          *)
LEMMA EngineStepBalance ==
  ASSUME Local, Balance, EngineStep
  PROVE  Balance'
<1>. USE DEF semas, delays, lockVars, engineVars, holdVars, killVars
<1>0. TypeOK /\ EngineOK
  BY DEF Local
<1>1. CASE Start
  <2>1. UNCHANGED <<stage, call>>
    BY <1>1 DEF Start
  <2>. QED
    BY <1>1, <2>1, <1>0, SameCounts, CountsType
    DEF Start, Balance, SemaBalance, LockBalance, TypeOK, EngineOK, N
<1>2. CASE Clocking
  <2>1. UNCHANGED <<stage, call>>
    BY <1>2 DEF Clocking
  <2>. QED
    BY <1>2, <2>1, <1>0, SameCounts, CountsType
    DEF Clocking, Balance, SemaBalance, LockBalance, TypeOK, EngineOK, N
<1>3. CASE EvalFails
  <2>1. UNCHANGED <<stage, call>>
    BY <1>3 DEF EvalFails, Evaluating
  <2>. QED
    BY <1>3, <2>1, <1>0, SameCounts, CountsType
    DEF EvalFails, Evaluating, Balance, SemaBalance, LockBalance, TypeOK, EngineOK, N
<1>4. ASSUME NEW v \in IsrHolds, AwakeInterrupt(v) PROVE Balance'
  <2>1. UNCHANGED <<stage, call>>
    BY <1>4 DEF AwakeInterrupt, Evaluating
  <2>. QED
    BY <1>4, <2>1, <1>0, SameCounts, CountsType
    DEF AwakeInterrupt, Evaluating, Balance, SemaBalance, LockBalance, TypeOK, EngineOK, N
<1>5. CASE AwakeSetDelay
  <2>1. UNCHANGED <<stage, call>>
    BY <1>5 DEF AwakeSetDelay
  <2>. QED
    BY <1>5, <2>1, <1>0, SameCounts, CountsType
    DEF AwakeSetDelay, Balance, SemaBalance, LockBalance, TypeOK, EngineOK, N
<1>6. CASE CheckLoad
  <2>1. UNCHANGED <<stage, call>>
    BY <1>6 DEF CheckLoad, Evaluating
  <2>. QED
    BY <1>6, <2>1, <1>0, SameCounts, CountsType
    DEF CheckLoad, Evaluating, Balance, SemaBalance, LockBalance, TypeOK, EngineOK, N
<1>7. CASE CheckStore
  <2>1. UNCHANGED <<stage, call>>
    BY <1>7 DEF CheckStore
  <2>. QED
    BY <1>7, <2>1, <1>0, SameCounts, CountsType
    DEF CheckStore, Balance, SemaBalance, LockBalance, TypeOK, EngineOK, N
<1>8. CASE CheckTest
  <2>1. UNCHANGED <<stage, call>>
    BY <1>8 DEF CheckTest
  <2>. QED
    BY <1>8, <2>1, <1>0, SameCounts, CountsType
    DEF CheckTest, Balance, SemaBalance, LockBalance, TypeOK, EngineOK, N
<1>9. CASE Collect
  <2>1. UNCHANGED <<stage, call>>
    BY <1>9 DEF Collect
  <2>. QED
    BY <1>9, <2>1, <1>0, SameCounts, CountsType
    DEF Collect, Balance, SemaBalance, LockBalance, TypeOK, EngineOK, N
<1>10. CASE Down
  <2>1. UNCHANGED <<stage, call>>
    BY <1>10 DEF Down
  <2>. QED
    BY <1>10, <2>1, <1>0, SameCounts, CountsType
    DEF Down, Balance, SemaBalance, LockBalance, TypeOK, EngineOK, N
<1>11. CASE GoOn
  <2>1. UNCHANGED <<stage, call>>
    BY <1>11 DEF GoOn
  <2>. QED
    BY <1>11, <2>1, <1>0, SameCounts, CountsType
    DEF GoOn, CheckReturns, Looked, Balance, SemaBalance, LockBalance, TypeOK, EngineOK, N
<1>12. CASE Leave
  <2>1. UNCHANGED <<stage, call>>
    BY <1>12 DEF Leave
  <2>. QED
    BY <1>12, <2>1, <1>0, SameCounts, CountsType
    DEF Leave, Looked, Balance, SemaBalance, LockBalance, TypeOK, EngineOK, N
<1>13. CASE LoadSema
  <2>1. UNCHANGED <<stage, call>>
    BY <1>13 DEF LoadSema
  <2>. QED
    BY <1>13, <2>1, <1>0, SameCounts, CountsType
    DEF LoadSema, CheckReturns, Balance, SemaBalance, LockBalance, TypeOK, EngineOK, N
<1>. QED
  BY <1>1, <1>2, <1>3, <1>4, <1>5, <1>6, <1>7, <1>8, <1>9, <1>10, <1>11, <1>12,
     <1>13 DEF EngineStep

(* A step of the terminating thread keeps the balances.                     *)
LEMMA KillStepBalance ==
  ASSUME Local, Balance, KillStep
  PROVE  Balance'
<1>. USE DEF semas, delays, lockVars, engineVars, holdVars, killVars
<1>0. TypeOK
  BY DEF Local
<1>1. CASE Kill
  <2>1. UNCHANGED <<stage, call>>
    BY <1>1 DEF Kill
  <2>. QED
    BY <1>1, <2>1, <1>0, SameCounts, CountsType
    DEF Kill, Balance, SemaBalance, LockBalance, TypeOK, N
<1>2. CASE KillRaise
  <2>1. UNCHANGED <<stage, call>>
    BY <1>2 DEF KillRaise
  <2>. QED
    BY <1>2, <2>1, <1>0, SameCounts, CountsType
    DEF KillRaise, Balance, SemaBalance, LockBalance, TypeOK, N
<1>3. CASE KillUp
  <2>1. UNCHANGED <<stage, call>>
    BY <1>3 DEF KillUp
  <2>. QED
    BY <1>3, <2>1, <1>0, SameCounts, CountsType
    DEF KillUp, Balance, SemaBalance, LockBalance, TypeOK, N
<1>4. CASE KillTimeout
  <2>1. UNCHANGED <<stage, call>>
    BY <1>4 DEF KillTimeout
  <2>. QED
    BY <1>4, <2>1, <1>0, SameCounts, CountsType
    DEF KillTimeout, Balance, SemaBalance, LockBalance, TypeOK, N
<1>5. CASE Join
  <2>1. UNCHANGED <<stage, call>>
    BY <1>5 DEF Join
  <2>. QED
    BY <1>5, <2>1, <1>0, SameCounts, CountsType
    DEF Join, Balance, SemaBalance, LockBalance, TypeOK, N
<1>. QED
  BY <1>1, <1>2, <1>3, <1>4, <1>5 DEF KillStep

-------------------------------------------------------------------------------
(* The invariant is inductive.                                              *)
LEMMA StepIInv == IInv /\ [Next]_vars => IInv'
<1> SUFFICES ASSUME IInv, [Next]_vars PROVE IInv'
  OBVIOUS
<1>0. Local /\ Balance
  BY DEF IInv, Local, Balance
<1>1. ASSUME NEW h \in Holds, HoldStep(h) PROVE Local' /\ Balance'
  BY <1>0, <1>1, HoldStepLocal, HoldStepBalance
<1>2. CASE EngineStep
  BY <1>0, <1>2, EngineStepLocal, EngineStepBalance DEF IInv, Local, Balance
<1>3. CASE KillStep
  BY <1>0, <1>3, KillStepLocal, KillStepBalance DEF IInv, Local, Balance
<1>4. CASE UNCHANGED vars
  BY <1>4 DEF vars, semas, delays, lockVars, engineVars, holdVars, killVars, IInv, TypeOK,
     EngineCallsOK, EngineCalls, InLock, SectionOK, InSection, DelayOK,
     EngineOK, Looked, KillOK, SemaBalance, LockBalance, Owed, Early, InFlight, Taken
<1>. QED
  BY <1>1, <1>2, <1>3, <1>4 DEF Next, IInv, Local, Balance

(* The inductive invariant holds in every reachable state.                  *)
THEOREM Invariance == Spec => []IInv
  BY InitIInv, StepIInv, PTL DEF Spec

(* Type correctness: in particular no semaphore count is ever negative and  *)
(* m_DelaySemaphore stays binary (DelayLock.h, the fields).                 *)
THEOREM TypeCorrect == Spec => []TypeOK
<1>1. IInv => TypeOK
  BY DEF IInv
<1>. QED
  BY <1>1, Invariance, PTL

(* A deferred lock always has a running delay (DelayLock.cpp, Lock, Check). *)
THEOREM DeferralNotStranded == Spec => []NoStrandedDeferral
<1>1. IInv => NoStrandedDeferral
  BY DEF IInv, DelayOK, NoStrandedDeferral
<1>. QED
  BY <1>1, Invariance, PTL

(* Asleep, the engine has as many users as locks recorded in advance: by    *)
(* the balances the other open holds have not reached their m_Lock.Up().    *)
LEMMA AsleepCounts ==
  ASSUME IInv, Asleep
  PROVE  Cardinality(Owed) <= Cardinality(InFlight) + Cardinality(Early)
<1>1. Taken = {}
  <2> SUFFICES ASSUME NEW h \in Taken PROVE FALSE
    OBVIOUS
  <2>1. h \in Holds /\ call[h] = "taken"
    BY DEF Taken
  <2>2. h \in HwHolds
    BY <2>1 DEF IInv, EngineCallsOK
  <2>3. h \in EngineCalls
    BY <2>1, <2>2, HoldsAssumption DEF EngineCalls, InLock
  <2>. QED
    BY <2>3 DEF IInv, EngineCallsOK, Asleep
<1>2. Cardinality(Taken) = 0
  BY <1>1, FS_EmptySet
<1>3. released >= N(killer = "up")
  BY DEF IInv, KillOK, TypeOK, N
<1>. QED
  BY <1>2, <1>3, CountsType
  DEF IInv, TypeOK, Asleep, SemaBalance, LockBalance, N

(* The open holds are those in flight and those whose UnLock has returned.  *)
LEMMA OwedSplit ==
  ASSUME TypeOK
  PROVE  Cardinality(Owed) = Cardinality(InFlight) + Cardinality(Held)
<1>1. IsFiniteSet(InFlight) /\ IsFiniteSet(Held)
  BY HoldsFinite, FS_Subset DEF InFlight, Held
<1>2. Owed = InFlight \cup Held /\ InFlight \cap Held = {}
  BY DEF TypeOK, Stages, Owed, InFlight, Held
<1>3. Cardinality(InFlight \cap Held) = 0
  BY <1>2, FS_EmptySet
<1>4. Cardinality(InFlight) \in Nat /\ Cardinality(Held) \in Nat
  BY <1>1, FS_CardinalityType
<1>5. Cardinality(InFlight \cup Held) =
        Cardinality(InFlight) + Cardinality(Held) - Cardinality(InFlight \cap Held)
  BY <1>1, FS_Union
<1>. QED
  BY <1>2, <1>3, <1>4, <1>5

(* The engine never sleeps on somebody whose UnLock() has returned, unless  *)
(* an access that is about to unlock it stands in for him (Check()).        *)
THEOREM NeverSleepsWhileHeld == Spec => []NoSleepWhileHeld
<1>1. ASSUME IInv, Asleep PROVE Cardinality(Held) <= Cardinality(Early)
  <2>1. TypeOK
    BY <1>1 DEF IInv
  <2>2. Cardinality(Held) \in Nat
    BY HoldsFinite, FS_Subset, FS_CardinalityType DEF Held
  <2>. QED
    BY <1>1, <2>1, <2>2, AsleepCounts, OwedSplit, CountsType
<1>. QED
  BY <1>1, Invariance, PTL DEF NoSleepWhileHeld

(* The engine leaves its loop with no hold open but those that were counted *)
(* after its load of m_iSema, the one that the start lock hides until       *)
(* Rlease() is counted, and the accesses acknowledged in advance.           *)
THEOREM LeavesOnlyWhenIdle == Spec => LeaveOnlyWhenIdle
<1>1. ASSUME IInv, Leave
      PROVE  Cardinality(Owed) + released <= Cardinality(Early) + 1 + unseen
  <2>1. /\ m_iSema <= unseen /\ engine # "start"
        /\ m_iSema \in Int /\ m_iDeferredLock \in Nat /\ unseen \in Nat
        /\ released \in Nat
    BY <1>1 DEF Leave, Looked, IInv, EngineOK, TypeOK
  <2>. QED
    BY <1>1, <2>1, CountsType DEF IInv, SemaBalance, N
<1>. QED
  BY <1>1, Invariance, PTL DEF Spec, LeaveOnlyWhenIdle

-------------------------------------------------------------------------------
(* Only a software access ends its hold before it has begun it.             *)
AheadOK ==
  \A h \in Holds \ SwHolds :
    call[h] # "done" /\ (InSection(h) => stage[h] = "held")

LEMMA PlaceValues ==
  ASSUME TypeOK, NEW h \in Holds, NEW s, NEW c, Place(h, s, c)
  PROVE  /\ stage'[h] = s /\ call'[h] = c
         /\ \A g \in Holds \ {h} : stage'[g] = stage[g] /\ call'[g] = call[g]
BY DEF TypeOK, Place

LEMMA AheadStep ==
  ASSUME TypeOK, AheadOK, [Next]_vars
  PROVE  AheadOK'
<1>1. CASE \E h \in Holds : HoldStep(h)
  <2>1. PICK h \in Holds : HoldStep(h)
    BY <1>1
  <2>2. \A s, c : Place(h, s, c) =>
          /\ stage'[h] = s /\ call'[h] = c
          /\ \A g \in Holds \ {h} : stage'[g] = stage[g] /\ call'[g] = call[g]
    BY PlaceValues
  <2>3. \A g \in Holds \ {h} : stage'[g] = stage[g] /\ call'[g] = call[g]
    BY <2>1, <2>2 DEF HoldStep, Raise, Up, LockDelayed, SetDelay, Defer, LockNow,
                      LockDown, LockCount
  <2>4. h \notin SwHolds => call'[h] # "done" /\ (InSection(h)' => stage'[h] = "held")
    <3>1. CASE Raise(h) \/ Up(h)
      BY <2>2, <3>1 DEF Raise, Up, AheadOK, InSection
    <3>2. CASE \E d \in DelaysOf(h) : LockDelayed(h, d)
      BY <2>2, <3>2 DEF LockDelayed, MayLock, InSection
    <3>3. CASE SetDelay(h) \/ Defer(h)
      BY <2>2, <3>3 DEF SetDelay, Defer, AheadOK, InSection
    <3>4. CASE LockNow(h) \/ LockDown(h) \/ LockCount(h)
      BY <2>2, <3>4 DEF LockNow, LockDown, LockCount, InSection
    <3>. QED
      BY <2>1, <3>1, <3>2, <3>3, <3>4 DEF HoldStep
  <2>. QED
    BY <2>3, <2>4 DEF AheadOK, InSection
<1>2. CASE EngineStep \/ KillStep \/ UNCHANGED vars
  <2>1. UNCHANGED <<stage, call>>
    BY <1>2 DEF EngineStep, Start, Clocking, EvalFails, AwakeInterrupt, AwakeSetDelay,
                CheckLoad, CheckStore, CheckTest, Collect, Down, LoadSema, Leave,
                GoOn, KillStep, Kill, KillRaise, KillUp, KillTimeout, Join, vars, holdVars
  <2>. QED
    BY <2>1 DEF AheadOK, InSection
<1>. QED
  BY <1>1, <1>2 DEF Next

LEMMA AheadAlways == Spec => []AheadOK
<1>1. Init => AheadOK
  BY DEF Init, AheadOK, InSection
<1>. QED
  BY <1>1, AheadStep, TypeCorrect, PTL DEF Spec

-------------------------------------------------------------------------------
(* The steps of EngineGate, in the words of DelayLock.                      *)
TheGate == IF engine = "stopped" THEN "stopped"
           ELSE IF Asleep \/ Parked THEN "asleep" ELSE "awake"

MapBegin(h) ==
  /\ h \notin Users
  /\ IF h \in Early THEN Early' = Early \ {h} /\ Users' = Users
                    ELSE Users' = Users \cup {h} /\ Early' = Early
  /\ TheGate' = IF TheGate = "asleep" THEN "awake" ELSE TheGate
MapEnd(h) ==
  h \in Users /\ Users' = Users \ {h} /\ Early' = Early /\ TheGate' = TheGate
MapEndFirst(h) ==
  /\ TheGate = "awake" /\ TheGate' = TheGate
  /\ h \notin Users \cup Early /\ Early' = Early \cup {h} /\ Users' = Users
MapPark(h) ==
  /\ TheGate = "awake" /\ TheGate' = "asleep"
  /\ h \in Users /\ Users' = Users \ {h} /\ Early' = Early
  /\ Cardinality(Users \ {h}) <= Cardinality(Early)
MapGate ==
  /\ Users' = Users /\ Early' = Early
  /\ \/ /\ TheGate = "awake" /\ TheGate' = "asleep"
        /\ Cardinality(Users) <= Cardinality(Early)
     \/ TheGate = "asleep" /\ TheGate' = "awake"
     \/ TheGate = "awake" /\ TheGate' = "stopped"
     \/ TheGate' = TheGate

Mapped ==
  \/ \E h \in Holds : MapBegin(h) \/ MapEnd(h) \/ MapEndFirst(h) \/ MapPark(h)
  \/ MapGate

LEMMA GateCounts == \A S : Gate!Cardinality(S) = Cardinality(S)
BY Zenon DEF Gate!Cardinality, Cardinality

LEMMA MappedIsGate == Mapped => [Gate!GateNext]_(Gate!gateVars)
<1> SUFFICES ASSUME Mapped PROVE [Gate!GateNext]_(Gate!gateVars)
  OBVIOUS
<1>1. ASSUME NEW h \in Holds, MapBegin(h) \/ MapEnd(h) \/ MapEndFirst(h) \/ MapPark(h)
      PROVE  Gate!GateNext
  <2>1. Gate!Begin(h) \/ Gate!End(h) \/ Gate!EndFirst(h) \/ Gate!Park(h)
    <3>1. CASE MapBegin(h)
      BY <3>1 DEF MapBegin, TheGate, Gate!Begin
    <3>2. CASE MapEnd(h)
      BY <3>2 DEF MapEnd, TheGate, Gate!End
    <3>3. CASE MapEndFirst(h)
      BY <3>3 DEF MapEndFirst, TheGate, Gate!EndFirst
    <3>4. CASE MapPark(h)
      BY <3>4, GateCounts DEF MapPark, TheGate, Gate!Park, Gate!Unused
    <3>. QED
      BY <1>1, <3>1, <3>2, <3>3, <3>4
  <2>. QED
    BY <2>1 DEF Gate!GateNext
<1>2. CASE MapGate
  <2>1. Gate!Sleep \/ Gate!Wake \/ Gate!Stop \/ UNCHANGED Gate!gateVars
    BY <1>2, GateCounts DEF MapGate, TheGate, Gate!gateVars, Gate!Sleep, Gate!Wake,
                Gate!Stop, Gate!Unused
  <2>. QED
    BY <2>1 DEF Gate!GateNext
<1>. QED
  BY <1>1, <1>2 DEF Mapped

(* What the abstract gate sees of the concrete lock.                        *)
LEMMA SameGate ==
  ASSUME UNCHANGED <<engine, iLocked, m_Lock>>,
         \A h \in Holds : (call'[h] = "down") <=> (call[h] = "down")
  PROVE  TheGate' = TheGate
<1>1. Asleep' = Asleep /\ (Parked' <=> Parked)
  BY DEF Asleep, Parked
<1>. QED
  BY <1>1 DEF TheGate

(* While a call runs on the engine's thread the engine is awake, unless it  *)
(* is in the Down() of a Lock(0).                                           *)
LEMMA CallAwake ==
  ASSUME IInv, NEW h \in EngineCalls
  PROVE  /\ engine = "eval" /\ ~ Asleep
         /\ \A g \in Holds : call[g] = "down" => g = h
<1>1. engine = "eval" /\ \A g \in EngineCalls : g = h
  BY DEF IInv, EngineCallsOK
<1>2. \A g \in Holds : call[g] = "down" => g \in EngineCalls
  BY HoldsAssumption DEF IInv, EngineCallsOK, EngineCalls, InLock
<1>. QED
  BY <1>1, <1>2 DEF Asleep

LEMMA NoCallDown ==
  ASSUME IInv, EngineCalls = {} \/ engine # "eval"
  PROVE  \A g \in Holds : call[g] # "down"
<1>1. EngineCalls = {}
  BY DEF IInv, EngineCallsOK
<1>2. \A g \in Holds : call[g] = "down" => g \in EngineCalls
  BY HoldsAssumption DEF IInv, EngineCallsOK, EngineCalls, InLock
<1>. QED
  BY <1>1, <1>2

(* The sets, when one hold moves.                                           *)
LEMMA UsersChange ==
  ASSUME TypeOK, NEW h \in Holds, NEW s, NEW c, Place(h, s, c)
  PROVE  /\ s = "held" /\ c \in {"none", "setdelay", "deferring"} => Users' = Users \cup {h}
         /\ ~ (s = "held" /\ c \in {"none", "setdelay", "deferring"}) => Users' = Users \ {h}
         /\ c = "done" => Early' = Early \cup {h}
         /\ c # "done" => Early' = Early \ {h}
<1>1. /\ stage'[h] = s /\ call'[h] = c
      /\ \A g \in Holds \ {h} : stage'[g] = stage[g] /\ call'[g] = call[g]
  BY PlaceValues
<1>. QED
  BY <1>1 DEF Users, Held, Early

-------------------------------------------------------------------------------
(* A Lock(0) that parks the engine: by the balances, nobody but those that  *)
(* owe their UnLock needs it.                                               *)
LEMMA ParkCounts ==
  ASSUME IInv, EngineCalls = {}, engine = "eval", m_Lock = 0
  PROVE  Cardinality(Held) <= Cardinality(Early) + 1
<1>1. Taken = {}
  <2> SUFFICES ASSUME NEW h \in Taken PROVE FALSE
    OBVIOUS
  <2>1. h \in Holds /\ call[h] = "taken"
    BY DEF Taken
  <2>2. h \in HwHolds
    BY <2>1 DEF IInv, EngineCallsOK
  <2>. QED
    BY <2>1, <2>2, HoldsAssumption DEF EngineCalls, InLock
<1>2. Cardinality(Taken) = 0
  BY <1>1, FS_EmptySet
<1>3. released >= N(killer = "up") /\ iLocked = 0
  BY DEF IInv, KillOK, EngineOK, TypeOK, N
<1>4. Cardinality(Owed) <= Cardinality(InFlight) + Cardinality(Early) + 1
  BY <1>2, <1>3, CountsType DEF IInv, TypeOK, SemaBalance, LockBalance, N
<1>5. Cardinality(Held) \in Nat
  BY HoldsFinite, FS_Subset, FS_CardinalityType DEF Held
<1>. QED
  BY <1>4, <1>5, OwedSplit, CountsType DEF IInv

LEMMA ParkUnused ==
  ASSUME IInv, EngineCalls = {}, engine = "eval", m_Lock = 0, NEW h \in Users
  PROVE  Cardinality(Users \ {h}) <= Cardinality(Early)
<1>1. IsFiniteSet(Held) /\ Users \subseteq Held /\ h \in Held
  BY HoldsFinite, FS_Subset DEF Held, Users
<1>2. /\ IsFiniteSet(Held \ {h}) /\ Cardinality(Held \ {h}) = Cardinality(Held) - 1
      /\ Cardinality(Held) \in Nat /\ Cardinality(Held \ {h}) \in Nat
  BY <1>1, FS_RemoveElement, FS_CardinalityType
<1>3. /\ Cardinality(Users \ {h}) <= Cardinality(Held \ {h})
      /\ Cardinality(Users \ {h}) \in Nat
  <2>1. Users \ {h} \subseteq Held \ {h}
    BY <1>1
  <2>2. IsFiniteSet(Users \ {h})
    BY <1>2, <2>1, FS_Subset
  <2>. QED
    BY <1>2, <2>1, <2>2, FS_Subset, FS_CardinalityType
<1>. QED
  BY <1>2, <1>3, ParkCounts, CountsType

LEMMA SleepUnused ==
  ASSUME TypeOK, Cardinality(Held) <= Cardinality(Early)
  PROVE  Cardinality(Users) <= Cardinality(Early)
<1>1. IsFiniteSet(Held) /\ Users \subseteq Held
  BY HoldsFinite, FS_Subset DEF Held, Users
<1>2. /\ Cardinality(Users) <= Cardinality(Held) /\ Cardinality(Held) \in Nat
      /\ IsFiniteSet(Users)
  BY <1>1, FS_Subset, FS_CardinalityType
<1>3. Cardinality(Users) \in Nat
  BY <1>2, FS_CardinalityType
<1>. QED
  BY <1>2, <1>3, CountsType

(* The steps of a hold.                                                     *)
LEMMA RaiseMaps ==
  ASSUME IInv, NEW h \in Holds, Raise(h)
  PROVE  Mapped
<1>1. /\ TypeOK /\ stage[h] = "idle" /\ Place(h, "raised", call[h])
      /\ UNCHANGED <<engine, iLocked, m_Lock>>
  BY DEF IInv, Raise, engineVars
<1>2. Users' = Users \ {h} /\ h \notin Users
  BY <1>1, UsersChange DEF Users, Held
<1>3. Early' = Early
  BY <1>1, UsersChange DEF Early
<1>4. TheGate' = TheGate
  BY <1>1, PlaceValues, SameGate
<1>. QED
  BY <1>2, <1>3, <1>4 DEF Mapped, MapGate

LEMMA UpMaps ==
  ASSUME IInv, NEW h \in Holds, Up(h)
  PROVE  Mapped
<1>1. /\ TypeOK /\ stage[h] = "raised" /\ m_Lock' = m_Lock + 1
      /\ UNCHANGED <<engine, iLocked>> /\ m_Lock \in Nat
      /\ call[h] \in {"none", "setdelay", "deferring", "done"}
  BY DEF IInv, TypeOK, Calls, EngineCallsOK, Up, engineVars
<1>2. h \notin Users
  BY <1>1 DEF Users, Held
<1>3. TheGate' = IF TheGate = "asleep" THEN "awake" ELSE TheGate
  <2>1. m_Lock' # 0
    BY <1>1
  <2>2. ~ Asleep' /\ ~ Parked' /\ engine' = engine
    BY <1>1, <2>1 DEF Asleep, Parked
  <2>. QED
    BY <2>2 DEF TheGate
<1>4. CASE call[h] = "done"
  <2>1. Place(h, "idle", "none")
    BY <1>4 DEF Up
  <2>2. Users' = Users /\ Early' = Early \ {h} /\ h \in Early
    BY <1>1, <1>2, <1>4, <2>1, UsersChange DEF Early
  <2>. QED
    BY <1>2, <1>3, <2>2 DEF Mapped, MapBegin
<1>5. CASE call[h] # "done"
  <2>1. Place(h, "held", call[h])
    BY <1>5 DEF Up
  <2>2. Users' = Users \cup {h} /\ Early' = Early /\ h \notin Early
    BY <1>1, <1>5, <2>1, UsersChange DEF Early
  <2>. QED
    BY <1>2, <1>3, <2>2 DEF Mapped, MapBegin
<1>. QED
  BY <1>4, <1>5

LEMMA LockDelayedMaps ==
  ASSUME IInv, NEW h \in Holds, NEW d, LockDelayed(h, d) \/ SetDelay(h)
  PROVE  Mapped
<1>1. /\ TypeOK /\ call[h] \in {"none", "setdelay"}
      /\ UNCHANGED <<engine, iLocked, m_Lock>>
  BY DEF IInv, LockDelayed, SetDelay, MayLock, engineVars, semas
<1>2. PICK c \in {"setdelay", "deferring"} : Place(h, stage[h], c)
  BY DEF LockDelayed, SetDelay
<1>3. Users' = Users /\ Early' = Early
  BY <1>1, <1>2, UsersChange DEF Users, Held, Early
<1>4. TheGate' = TheGate
  BY <1>1, <1>2, PlaceValues, SameGate
<1>. QED
  BY <1>3, <1>4 DEF Mapped, MapGate

LEMMA DeferMaps ==
  ASSUME IInv, AheadOK, NEW h \in Holds, Defer(h)
  PROVE  Mapped
<1>1. /\ TypeOK /\ call[h] = "deferring" /\ UNCHANGED <<engine, iLocked, m_Lock>>
  BY DEF IInv, Defer, engineVars, semas
<1>2. CASE stage[h] = "held"
  <2>1. Place(h, "idle", "none")
    BY <1>2 DEF Defer
  <2>2. h \in Users /\ Users' = Users \ {h} /\ Early' = Early
    BY <1>1, <1>2, <2>1, UsersChange DEF Users, Held, Early
  <2>3. TheGate' = TheGate
    BY <1>1, <2>1, PlaceValues, SameGate
  <2>. QED
    BY <2>2, <2>3 DEF Mapped, MapEnd
<1>3. CASE stage[h] # "held"
  <2>1. Place(h, stage[h], "done")
    BY <1>3 DEF Defer
  <2>2. h \notin Users \cup Early /\ Users' = Users /\ Early' = Early \cup {h}
    BY <1>1, <1>3, <2>1, UsersChange DEF Users, Held, Early
  <2>3. h \in EngineCalls
    BY <1>1, <1>3, HoldsAssumption DEF AheadOK, InSection, EngineCalls, InLock
  <2>4. TheGate = "awake"
    <3>1. engine = "eval" /\ ~ Asleep /\ ~ Parked
      BY <1>1, <2>3, CallAwake DEF Parked
    <3>. QED
      BY <3>1 DEF TheGate
  <2>5. TheGate' = TheGate
    BY <1>1, <2>1, PlaceValues, SameGate
  <2>. QED
    BY <2>2, <2>4, <2>5 DEF Mapped, MapEndFirst
<1>. QED
  BY <1>2, <1>3

LEMMA LockNowMaps ==
  ASSUME IInv, NEW h \in Holds, LockNow(h)
  PROVE  Mapped
<1>1. /\ TypeOK /\ call[h] = "none" /\ stage[h] = "held" /\ Place(h, "held", "down")
      /\ UNCHANGED <<engine, iLocked, m_Lock>> /\ Evaluating
  BY HoldsAssumption DEF IInv, LockNow, MayLock, engineVars, lockVars, semas
<1>2. h \in Users /\ Users' = Users \ {h} /\ Early' = Early
  BY <1>1, UsersChange DEF Users, Held, Early
<1>3. engine = "eval" /\ EngineCalls = {} /\ ~ Asleep /\ ~ Parked
  BY <1>1, NoCallDown DEF Evaluating, Asleep, Parked
<1>4. TheGate = "awake"
  BY <1>3 DEF TheGate
<1>5. CASE m_Lock = 0
  <2>1. Parked'
    BY <1>1, <1>5, PlaceValues DEF Parked
  <2>2. TheGate' = "asleep"
    BY <1>1, <1>3, <2>1 DEF TheGate
  <2>. QED
    BY <1>2, <1>3, <1>4, <1>5, <2>2, ParkUnused DEF Mapped, MapPark
<1>6. CASE m_Lock # 0
  <2>1. ~ Parked' /\ ~ Asleep'
    BY <1>1, <1>6 DEF Parked, Asleep
  <2>2. TheGate' = "awake"
    BY <1>1, <1>3, <2>1 DEF TheGate
  <2>. QED
    BY <1>2, <1>4, <2>2 DEF Mapped, MapEnd
<1>. QED
  BY <1>5, <1>6

LEMMA LockEndMaps ==
  ASSUME IInv, NEW h \in Holds, LockDown(h) \/ LockCount(h)
  PROVE  Mapped
<1>1. /\ TypeOK /\ call[h] \in {"down", "taken"} /\ UNCHANGED <<engine, iLocked>>
      /\ \/ m_Lock > 0 /\ Place(h, stage[h], "taken")
         \/ call[h] = "taken" /\ Place(h, "idle", "none")
  BY DEF IInv, LockDown, LockCount, engineVars
<1>2. h \in EngineCalls
  BY <1>1, HoldsAssumption DEF IInv, EngineCallsOK, EngineCalls, InLock
<1>3. Users' = Users /\ Early' = Early
  BY <1>1, UsersChange DEF Users, Held, Early
<1>4. engine = "eval" /\ \A g \in Holds : call[g] = "down" => g = h
  BY <1>2, CallAwake
<1>5. call'[h] # "down" /\ \A g \in Holds \ {h} : call'[g] = call[g]
  BY <1>1, PlaceValues
<1>6. ~ Parked /\ ~ Asleep
  BY <1>1, <1>4 DEF Parked, Asleep, IInv, TypeOK
<1>7. ~ Parked' /\ ~ Asleep'
  BY <1>1, <1>4, <1>5 DEF Parked, Asleep
<1>8. TheGate' = TheGate
  BY <1>1, <1>6, <1>7 DEF TheGate
<1>. QED
  BY <1>3, <1>8 DEF Mapped, MapGate

LEMMA HoldMaps ==
  ASSUME IInv, AheadOK, NEW h \in Holds, HoldStep(h)
  PROVE  Mapped
BY RaiseMaps, UpMaps, LockDelayedMaps, DeferMaps, LockNowMaps, LockEndMaps DEF HoldStep

(* The steps of the engine and of the terminating thread.                   *)
LEMMA EngineMaps ==
  ASSUME IInv, NoSleepWhileHeld', EngineStep
  PROVE  Mapped
<1>1. UNCHANGED <<stage, call>>
  BY DEF EngineStep, Start, Clocking, EvalFails, AwakeInterrupt, AwakeSetDelay,
         CheckLoad, CheckStore, CheckTest, Collect, Down, LoadSema, GoOn, Leave,
         Looked, holdVars
<1>2. Users' = Users /\ Early' = Early /\ Held' = Held
  BY <1>1 DEF Users, Early, Held
<1>3. /\ engine # "stopped" /\ (~ Asleep \/ Down)
      /\ EngineCalls = {} \/ engine # "eval"
  BY DEF EngineStep, Start, Clocking, EvalFails, AwakeInterrupt, AwakeSetDelay,
         CheckLoad, CheckStore, CheckTest, Collect, Down, LoadSema, GoOn, Leave,
         Looked, CheckReturns,
         Evaluating, Asleep
<1>4. ~ Parked /\ ~ Parked'
  BY <1>1, <1>3, NoCallDown DEF Parked
<1>5. TheGate = "awake"
  BY <1>3, <1>4 DEF TheGate, Down, Asleep, IInv, TypeOK
<1>6. CASE engine' = "stopped"
  BY <1>2, <1>5, <1>6 DEF TheGate, Mapped, MapGate
<1>7. CASE engine' # "stopped" /\ Asleep'
  <2>1. Cardinality(Users) <= Cardinality(Early)
    BY <1>2, <1>7, SleepUnused DEF NoSleepWhileHeld, IInv
  <2>. QED
    BY <1>2, <1>5, <1>7, <2>1 DEF TheGate, Mapped, MapGate
<1>8. CASE engine' # "stopped" /\ ~ Asleep'
  BY <1>2, <1>4, <1>5, <1>8 DEF TheGate, Mapped, MapGate
<1>. QED
  BY <1>6, <1>7, <1>8

LEMMA KillMaps ==
  ASSUME IInv, KillStep
  PROVE  Mapped
<1>1. UNCHANGED <<stage, call, engine, iLocked>>
  BY DEF KillStep, Kill, KillRaise, KillUp, KillTimeout, Join, holdVars, engineVars
<1>2. Users' = Users /\ Early' = Early
  BY <1>1 DEF Users, Early, Held
<1>3. CASE KillUp
  <2>1. m_Lock' # 0
    BY <1>3 DEF KillUp, IInv, TypeOK
  <2>2. ~ Asleep' /\ ~ Parked'
    BY <2>1 DEF Asleep, Parked
  <2>. QED
    BY <1>1, <1>2, <2>2 DEF TheGate, Mapped, MapGate
<1>4. CASE ~ KillUp
  <2>1. m_Lock' = m_Lock
    BY <1>4 DEF KillStep, Kill, KillRaise, KillTimeout, Join, lockVars, semas
  <2>. QED
    BY <1>1, <1>2, <2>1, SameGate DEF Mapped, MapGate
<1>. QED
  BY <1>3, <1>4

LEMMA NextMaps ==
  ASSUME IInv, AheadOK, NoSleepWhileHeld', [Next]_vars
  PROVE  Mapped
<1>1. CASE UNCHANGED vars
  <2>1. UNCHANGED <<stage, call, engine, iLocked, m_Lock>>
    BY <1>1 DEF vars, holdVars, engineVars, lockVars, semas
  <2>2. Users' = Users /\ Early' = Early
    BY <2>1 DEF Users, Early, Held
  <2>. QED
    BY <2>1, <2>2, SameGate DEF Mapped, MapGate
<1>. QED
  BY <1>1, HoldMaps, EngineMaps, KillMaps DEF Next

LEMMA InitMaps == Init => Gate!GateInit
<1> SUFFICES ASSUME Init PROVE Gate!GateInit
  OBVIOUS
<1>1. engine = "start" /\ call = [h \in Holds |-> "none"]
  BY DEF Init
<1>2. Users \subseteq Holds /\ Early = {} /\ ~ Asleep /\ ~ Parked
  BY <1>1 DEF Users, Held, Early, Asleep, Parked
<1>. QED
  BY <1>1, <1>2 DEF Gate!GateInit

(* The lock is a gate (DelayLock.cpp, UnLock, Lock, Check, Rlease): seen    *)
(* from outside, with its counters and semaphores forgotten, it only lets   *)
(* the engine sleep when the users are gone, wakes it with the next user in *)
(* the same step, and takes accesses that end before they begin one for one.*)
THEOREM ImplementsGate == Spec => GateSpec
<1>1. IInv /\ AheadOK /\ NoSleepWhileHeld' /\ [Next]_vars =>
        [Gate!GateNext]_(Gate!gateVars)
  BY NextMaps, MappedIsGate
<1>. QED
  BY <1>1, InitMaps, AheadAlways, Invariance, NeverSleepsWhileHeld, PTL
  DEF Spec, GateSpec, Gate!GateSpec
===============================================================================
