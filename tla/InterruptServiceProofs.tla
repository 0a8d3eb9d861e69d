------------------------- MODULE InterruptServiceProofs -----------------------
(***************************************************************************)
(* Proofs about the interrupts of the simulator, for any vectors, services *)
(* and bound of the queue.                                                 *)
(***************************************************************************)
EXTENDS InterruptService, SequenceTheorems, TLAPS

(* The types, by kind.                                                      *)
FlagsOK == {m_bRun, m_bEnable, up, bEnable, forced, swept} \subseteq BOOLEAN
ServicesOK == {m_ISR, m_pPrivate, isr, priv, service} \subseteq Services
PlacesOK ==
  /\ monitor \in {"loop", "down", "test", "pop", "load", "isr left",
                  "private left", "call", "served", "stopped"}
  /\ main \in {"idle", "compare", "clear", "set", "disable", "routine",
               "private", "sweep", "stop", "mask", "forget", "up", "waiting",
               "joined"}
VectorsOK ==
  /\ m_Pending \subseteq Vectors
  /\ iVector \in Vectors \cup {NoVector} /\ awake \in Vectors \cup {NoVector}
SemaOK  == m_SemaInterrupt \in Nat /\ lost \in Nat
QueueOK == m_Qeueue \in Seq(Vectors)

(* The interrupt thread has a vector in hand between Pop and Served.        *)
InHand == {"load", "isr left", "private left", "call", "served"}
HandOK == (iVector # NoVector) <=> monitor \in InHand

(* The registered pair is whole except between its two assignments; what    *)
(* the call has loaded of it is still the registered one, unless a service  *)
(* is being registered or has been since the vector was taken.              *)
Registered == main \notin {"private", "sweep"}
PairOK == m_ISR = IF main = "private" THEN service ELSE m_pPrivate
LoadedOK ==
  ~ swept /\ Registered =>
    /\ monitor = "private left" => isr = m_ISR
    /\ monitor = "isr left" => priv = m_pPrivate
    /\ monitor = "call" => isr = priv

IInv ==
  TypeOK /\ HandOK /\ MarksAccounted /\ TokensAccounted /\ PairOK /\ LoadedOK

-------------------------------------------------------------------------------
(* What is in a queue stays there when another vector is added, and when    *)
(* its first one is taken only that one leaves.                             *)
LEMMA ContainsAppend ==
  ASSUME NEW q \in Seq(Vectors), NEW v \in Vectors, NEW x
  PROVE  /\ Contains(q, x) => Contains(Append(q, v), x)
         /\ Contains(Append(q, v), v)
<1>1. /\ Len(q) \in Nat /\ Len(Append(q, v)) = Len(q) + 1
      /\ \A i \in 1 .. Len(q) : Append(q, v)[i] = q[i]
      /\ Append(q, v)[Len(q) + 1] = v
  BY AppendProperties
<1> QED  BY <1>1 DEF Contains

LEMMA ContainsTail ==
  ASSUME NEW q \in Seq(Vectors), q # <<>>, NEW x, Contains(q, x)
  PROVE  x = Head(q) \/ Contains(Tail(q), x)
<1>1. PICK i \in 1 .. Len(q) : q[i] = x
  BY DEF Contains
<1>2. Len(q) \in Nat /\ Head(q) = q[1]
  OBVIOUS
<1>3. CASE i = 1
  BY <1>1, <1>2, <1>3
<1>4. CASE i # 1
  <2>1. /\ Len(Tail(q)) = Len(q) - 1
        /\ \A k \in 1 .. Len(Tail(q)) : Tail(q)[k] = q[k + 1]
    BY HeadTailProperties
  <2>2. i - 1 \in 1 .. Len(Tail(q)) /\ (i - 1) + 1 = i
    BY <1>2, <1>4, <2>1
  <2>3. Tail(q)[i - 1] = x
    BY <1>1, <2>1, <2>2
  <2> QED  BY <2>2, <2>3 DEF Contains
<1> QED  BY <1>3, <1>4

-------------------------------------------------------------------------------
LEMMA TypeParts ==
  TypeOK <=> FlagsOK /\ ServicesOK /\ PlacesOK /\ VectorsOK /\ SemaOK /\ QueueOK
BY DEF TypeOK, FlagsOK, ServicesOK, PlacesOK, VectorsOK, SemaOK, QueueOK

LEMMA TypePartsNext ==
  FlagsOK' /\ ServicesOK' /\ PlacesOK' /\ VectorsOK' /\ SemaOK' /\ QueueOK' => TypeOK'
BY DEF TypeOK, FlagsOK, ServicesOK, PlacesOK, VectorsOK, SemaOK, QueueOK

LEMMA TypeKeeps ==
  ASSUME TypeOK, [Next]_vars
  PROVE  TypeOK'
<1>0. FlagsOK /\ ServicesOK /\ PlacesOK /\ VectorsOK /\ SemaOK /\ QueueOK
  BY TypeParts
<1>1. FlagsOK'
  <2>1. CASE EngineStep
    BY <1>0, <2>1 DEF EngineStep, AwakeTest, AwakePush, EngineEnds, FlagsOK, flags,
       pair, queueVars, monVars, engVars, mainVars
  <2>2. CASE MonitorStep
    BY <1>0, <2>2 DEF MonitorStep, Loop, Down, Test, Pop, LoadIsr, LoadPrivate, Return,
       Served, FlagsOK, flags, pair, queueVars, monVars, engVars, mainVars
  <2>3. CASE MainStep
    BY <1>0, <2>3 DEF MainStep, CallEnable, CallRegister, Enabling, Compare, Clear, Set,
       Registering, Disable, SetRoutine, SetPrivate, Sweep, Kill, Killing, KillRun,
       KillEnable, KillPending, KillUp, Join, KillTimeout, FlagsOK, flags, pair,
       queueVars, monVars, engVars, mainVars
  <2>4. CASE UNCHANGED vars
    BY <1>0, <2>4 DEF vars, FlagsOK, flags, pair, queueVars, monVars, engVars, mainVars
  <2> QED  BY <2>1, <2>2, <2>3, <2>4 DEF Next
<1>2. ServicesOK'
  <2>1. CASE EngineStep
    BY <1>0, <2>1, DefaultAssumption DEF EngineStep, AwakeTest, AwakePush, EngineEnds,
       ServicesOK, flags, pair, queueVars, monVars, engVars, mainVars
  <2>2. CASE MonitorStep
    BY <1>0, <2>2, DefaultAssumption DEF MonitorStep, Loop, Down, Test, Pop, LoadIsr,
       LoadPrivate, Return, Served, ServicesOK, flags, pair, queueVars, monVars,
       engVars, mainVars
  <2>3. CASE MainStep
    BY <1>0, <2>3, DefaultAssumption DEF MainStep, CallEnable, CallRegister, Enabling,
       Compare, Clear, Set, Registering, Disable, SetRoutine, SetPrivate, Sweep, Kill,
       Killing, KillRun, KillEnable, KillPending, KillUp, Join, KillTimeout, ServicesOK,
       flags, pair, queueVars, monVars, engVars, mainVars
  <2>4. CASE UNCHANGED vars
    BY <1>0, <2>4 DEF vars, ServicesOK, flags, pair, queueVars, monVars, engVars, mainVars
  <2> QED  BY <2>1, <2>2, <2>3, <2>4 DEF Next
<1>3. PlacesOK'
  <2>1. CASE EngineStep
    BY <1>0, <2>1 DEF EngineStep, AwakeTest, AwakePush, EngineEnds, PlacesOK, flags,
       pair, queueVars, monVars, engVars, mainVars
  <2>2. CASE MonitorStep
    BY <1>0, <2>2 DEF MonitorStep, Loop, Down, Test, Pop, LoadIsr, LoadPrivate, Return,
       Served, PlacesOK, flags, pair, queueVars, monVars, engVars, mainVars
  <2>3. CASE MainStep
    BY <1>0, <2>3 DEF MainStep, CallEnable, CallRegister, Enabling, Compare, Clear, Set,
       Registering, Disable, SetRoutine, SetPrivate, Sweep, Kill, Killing, KillRun,
       KillEnable, KillPending, KillUp, Join, KillTimeout, PlacesOK, flags, pair,
       queueVars, monVars, engVars, mainVars
  <2>4. CASE UNCHANGED vars
    BY <1>0, <2>4 DEF vars, PlacesOK, flags, pair, queueVars, monVars, engVars, mainVars
  <2> QED  BY <2>1, <2>2, <2>3, <2>4 DEF Next
<1>4. VectorsOK'
  <2>1. CASE EngineStep
    BY <1>0, <2>1 DEF EngineStep, AwakeTest, AwakePush, EngineEnds, VectorsOK, flags,
       pair, queueVars, monVars, engVars, mainVars
  <2>2. CASE MonitorStep
    <3>1. m_Qeueue # <<>> => Head(m_Qeueue) \in Vectors
      BY <1>0 DEF QueueOK
    <3> QED
      BY <1>0, <2>2, <3>1 DEF MonitorStep, Loop, Down, Test, Pop, LoadIsr, LoadPrivate,
         Return, Served, VectorsOK, flags, pair, queueVars, monVars, engVars, mainVars
  <2>3. CASE MainStep
    BY <1>0, <2>3 DEF MainStep, CallEnable, CallRegister, Enabling, Compare, Clear, Set,
       Registering, Disable, SetRoutine, SetPrivate, Sweep, Kill, Killing, KillRun,
       KillEnable, KillPending, KillUp, Join, KillTimeout, VectorsOK, flags, pair,
       queueVars, monVars, engVars, mainVars
  <2>4. CASE UNCHANGED vars
    BY <1>0, <2>4 DEF vars, VectorsOK, flags, pair, queueVars, monVars, engVars, mainVars
  <2> QED  BY <2>1, <2>2, <2>3, <2>4 DEF Next
<1>5. SemaOK'
  <2>1. CASE EngineStep
    BY <1>0, <2>1 DEF EngineStep, AwakeTest, AwakePush, EngineEnds, SemaOK, flags, pair,
       queueVars, monVars, engVars, mainVars
  <2>2. CASE MonitorStep
    <3>1. m_SemaInterrupt' = m_SemaInterrupt
            \/ (m_SemaInterrupt > 0 /\ m_SemaInterrupt' = m_SemaInterrupt - 1)
      BY <2>2 DEF MonitorStep, Loop, Down, Test, Pop, LoadIsr, LoadPrivate, Return, Served,
            queueVars
    <3>2. lost' = lost \/ lost' = AtMost(lost + 1, Len(m_Qeueue))
            \/ (m_Qeueue # <<>> /\ lost' = AtMost(lost, Len(m_Qeueue) - 1))
      BY <2>2 DEF MonitorStep, Loop, Down, Test, Pop, LoadIsr, LoadPrivate, Return, Served,
            queueVars
    <3>3. Len(m_Qeueue) \in Nat /\ (m_Qeueue # <<>> => Len(m_Qeueue) > 0)
      BY <1>0 DEF QueueOK
    <3> QED  BY <1>0, <3>1, <3>2, <3>3 DEF SemaOK, AtMost
  <2>3. CASE MainStep
    BY <1>0, <2>3 DEF MainStep, CallEnable, CallRegister, Enabling, Compare, Clear, Set,
       Registering, Disable, SetRoutine, SetPrivate, Sweep, Kill, Killing, KillRun,
       KillEnable, KillPending, KillUp, Join, KillTimeout, SemaOK, flags, pair,
       queueVars, monVars, engVars, mainVars
  <2>4. CASE UNCHANGED vars
    BY <1>0, <2>4 DEF vars, SemaOK, flags, pair, queueVars, monVars, engVars, mainVars
  <2> QED  BY <2>1, <2>2, <2>3, <2>4 DEF Next
<1>6. QueueOK'
  <2>1. CASE EngineStep
    <3>1. m_Qeueue' = m_Qeueue \/ (awake # NoVector /\ m_Qeueue' = Append(m_Qeueue, awake))
      BY <2>1 DEF EngineStep, AwakeTest, AwakePush, EngineEnds, queueVars
    <3> QED  BY <1>0, <3>1 DEF QueueOK, VectorsOK
  <2>2. CASE MonitorStep
    <3>1. m_Qeueue' = m_Qeueue \/ (m_Qeueue # <<>> /\ m_Qeueue' = Tail(m_Qeueue))
      BY <2>2 DEF MonitorStep, Loop, Down, Test, Pop, LoadIsr, LoadPrivate, Return, Served,
            queueVars
    <3> QED  BY <1>0, <3>1 DEF QueueOK
  <2>3. CASE MainStep
    <3>1. m_Qeueue' = m_Qeueue \/ m_Qeueue' = <<>>
      BY <2>3 DEF MainStep, CallEnable, CallRegister, Enabling, Compare, Clear, Set,
            Registering, Disable, SetRoutine, SetPrivate, Sweep, Kill, Killing, KillRun,
            KillEnable, KillPending, KillUp, Join, KillTimeout, queueVars
    <3>2. <<>> \in Seq(Vectors) /\ m_Qeueue \in Seq(Vectors)
      BY <1>0 DEF QueueOK
    <3> QED  BY <3>1, <3>2 DEF QueueOK
  <2>4. CASE UNCHANGED vars
    BY <1>0, <2>4 DEF vars, QueueOK, flags, pair, queueVars, monVars, engVars, mainVars
  <2> QED  BY <2>1, <2>2, <2>3, <2>4 DEF Next
<1> QED  BY <1>1, <1>2, <1>3, <1>4, <1>5, <1>6, TypePartsNext

-------------------------------------------------------------------------------
LEMMA InitIInv == Init => IInv
<1> SUFFICES ASSUME Init  PROVE IInv
  OBVIOUS
<1>1. TypeOK
  <2>1. FlagsOK /\ ServicesOK /\ PlacesOK /\ VectorsOK
    BY DefaultAssumption DEF Init, FlagsOK, ServicesOK, PlacesOK, VectorsOK
  <2>2. SemaOK /\ QueueOK
    BY DEF Init, SemaOK, QueueOK
  <2> QED  BY <2>1, <2>2, TypeParts
<1> QED  BY <1>1 DEF Init, IInv, HandOK, InHand, MarksAccounted, TokensAccounted,
                    PairOK, LoadedOK

LEMMA HandKeeps ==
  ASSUME TypeOK, HandOK, [Next]_vars
  PROVE  HandOK'
<1>1. CASE MonitorStep
  <2>1. CASE Pop
    <3>0. m_Qeueue \in Seq(Vectors)
      BY DEF TypeOK
    <3>1. m_Qeueue # <<>> => Head(m_Qeueue) \in Vectors
      BY <3>0
    <3> QED  BY <2>1, <3>1, VectorsAssumption DEF Pop, HandOK, InHand
  <2>2. CASE ~ Pop
    BY <1>1, <2>2 DEF MonitorStep, Loop, Down, Test, LoadIsr, LoadPrivate, Return, Served,
       HandOK, InHand
  <2> QED  BY <2>1, <2>2
<1>2. CASE EngineStep \/ MainStep \/ UNCHANGED vars
  <2>1. UNCHANGED monVars
    BY <1>2 DEF EngineStep, AwakeTest, AwakePush, EngineEnds, MainStep, CallEnable,
       CallRegister, Enabling, Compare, Clear, Set, Registering, Disable, SetRoutine,
       SetPrivate, Sweep, Kill, Killing, KillRun, KillEnable, KillPending, KillUp, Join,
       KillTimeout, vars
  <2> QED  BY <2>1 DEF HandOK, monVars
<1> QED  BY <1>1, <1>2 DEF Next

LEMMA MarksKeep ==
  ASSUME TypeOK, HandOK, MarksAccounted, [Next]_vars
  PROVE  MarksAccounted'
<1>1. m_Qeueue \in Seq(Vectors) /\ m_Pending \subseteq Vectors
  BY DEF TypeOK
<1>2. CASE AwakePush
  <2>1. /\ awake \in Vectors /\ UNCHANGED monVars
        /\ \/ UNCHANGED queueVars
           \/ m_Pending' = m_Pending \cup {awake} /\ m_Qeueue' = Append(m_Qeueue, awake)
    BY <1>2 DEF AwakePush, TypeOK
  <2>2. CASE UNCHANGED queueVars
    BY <2>1, <2>2 DEF MarksAccounted, monVars, queueVars
  <2>3. CASE m_Pending' = m_Pending \cup {awake} /\ m_Qeueue' = Append(m_Qeueue, awake)
    <3> SUFFICES ASSUME NEW v \in m_Pending'
                 PROVE  v = iVector' \/ Contains(m_Qeueue', v)
      BY DEF MarksAccounted
    <3>1. iVector' = iVector
      BY <2>1 DEF monVars
    <3>2. CASE v = awake
      BY <1>1, <2>1, <2>3, <3>2, ContainsAppend
    <3>3. CASE v # awake
      <4>1. v = iVector \/ Contains(m_Qeueue, v)
        BY <2>3, <3>3 DEF MarksAccounted
      <4> QED  BY <1>1, <2>1, <2>3, <3>1, <4>1, ContainsAppend
    <3> QED  BY <3>2, <3>3
  <2> QED  BY <2>1, <2>2, <2>3
<1>3. CASE Pop
  <2>1. iVector = NoVector /\ m_Pending' = m_Pending
    BY <1>3 DEF Pop, HandOK, InHand
  <2>2. CASE m_Qeueue = <<>>
    BY <1>3, <2>1, <2>2 DEF Pop, MarksAccounted
  <2>3. CASE m_Qeueue # <<>>
    <3> SUFFICES ASSUME NEW v \in m_Pending'
                 PROVE  v = iVector' \/ Contains(m_Qeueue', v)
      BY DEF MarksAccounted
    <3>1. Contains(m_Qeueue, v)
      BY <1>1, <2>1, VectorsAssumption DEF MarksAccounted
    <3>2. iVector' = Head(m_Qeueue) /\ m_Qeueue' = Tail(m_Qeueue)
      BY <1>3, <2>3 DEF Pop
    <3> QED  BY <1>1, <2>3, <3>1, <3>2, ContainsTail
  <2> QED  BY <2>2, <2>3
<1>4. CASE Served
  BY <1>4 DEF Served, MarksAccounted
<1>5. CASE MonitorStep /\ ~ Pop /\ ~ Served
  BY <1>5 DEF MonitorStep, Loop, Down, Test, LoadIsr, LoadPrivate, Return, MarksAccounted,
     queueVars
<1>6. CASE (EngineStep /\ ~ AwakePush) \/ MainStep \/ UNCHANGED vars
  <2>1. UNCHANGED monVars /\ (UNCHANGED queueVars \/ m_Pending' = {} \/
          (m_Pending' = m_Pending /\ m_Qeueue' = m_Qeueue))
    BY <1>6 DEF EngineStep, AwakeTest, EngineEnds, MainStep, CallEnable,
       CallRegister, Enabling, Compare, Clear, Set, Registering, Disable, SetRoutine,
       SetPrivate, Sweep, Kill, Killing, KillRun, KillEnable, KillPending, KillUp, Join,
       KillTimeout, vars
  <2> QED  BY <2>1 DEF MarksAccounted, monVars, queueVars
<1> QED  BY <1>2, <1>3, <1>4, <1>5, <1>6 DEF Next, EngineStep

LEMMA TokensKeep ==
  ASSUME TypeOK, TokensAccounted, [Next]_vars
  PROVE  TokensAccounted'
<1>0. m_Qeueue \in Seq(Vectors) /\ m_SemaInterrupt \in Nat /\ lost \in Nat
  BY DEF TypeOK
<1>1. /\ m_Qeueue \in Seq(Vectors) /\ Len(m_Qeueue) \in Nat
      /\ m_SemaInterrupt \in Nat /\ lost \in Nat
  BY <1>0
<1>2. CASE AwakePush
  <2>1. CASE UNCHANGED queueVars
    BY <1>2, <2>1 DEF AwakePush, TokensAccounted, queueVars, monVars
  <2>2. CASE ~ UNCHANGED queueVars
    <3>1. /\ m_Qeueue' = Append(m_Qeueue, awake)
          /\ m_SemaInterrupt' = m_SemaInterrupt + 1 /\ lost' = lost /\ monitor' = monitor
      BY <1>2, <2>2 DEF AwakePush, monVars
    <3>2. Len(m_Qeueue') = Len(m_Qeueue) + 1
      BY <1>1, <3>1
    <3> QED  BY <1>1, <3>1, <3>2 DEF TokensAccounted
  <2> QED  BY <2>1, <2>2
<1>3. CASE MonitorStep
  <2>1. CASE Down
    BY <1>1, <2>1 DEF Down, TokensAccounted
  <2>2. CASE Test
    BY <1>1, <2>2 DEF Test, AtMost, TokensAccounted
  <2>3. CASE Pop /\ m_Qeueue = <<>>
    BY <1>1, <2>3 DEF Pop, TokensAccounted
  <2>4. CASE Pop /\ m_Qeueue # <<>>
    <3>1. Len(m_Qeueue') = Len(m_Qeueue) - 1 /\ Len(m_Qeueue) > 0
      BY <1>1, <2>4 DEF Pop
    <3> QED  BY <1>1, <2>4, <3>1 DEF Pop, AtMost, TokensAccounted
  <2>5. CASE ~ Down /\ ~ Test /\ ~ Pop
    BY <1>3, <2>5 DEF MonitorStep, Loop, LoadIsr, LoadPrivate, Return, Served,
       TokensAccounted, queueVars
  <2> QED  BY <2>1, <2>2, <2>3, <2>4, <2>5
<1>4. CASE KillUp
  BY <1>1, <1>4 DEF KillUp, TokensAccounted, monVars
<1>5. CASE Sweep
  BY <1>1, <1>5 DEF Sweep, TokensAccounted, monVars
<1>6. CASE (EngineStep /\ ~ AwakePush) \/ (MainStep /\ ~ KillUp /\ ~ Sweep) \/ UNCHANGED vars
  <2>1. UNCHANGED <<m_Qeueue, m_SemaInterrupt, lost, monitor>>
    BY <1>6 DEF EngineStep, AwakeTest, EngineEnds, MainStep, CallEnable,
       CallRegister, Enabling, Compare, Clear, Set, Registering, Disable, SetRoutine,
       SetPrivate, Kill, Killing, KillRun, KillEnable, KillPending, Join,
       KillTimeout, vars, queueVars, monVars
  <2> QED  BY <2>1 DEF TokensAccounted
<1> QED  BY <1>2, <1>3, <1>4, <1>5, <1>6 DEF Next, EngineStep

LEMMA PairKeeps ==
  ASSUME PairOK, [Next]_vars
  PROVE  PairOK'
<1>1. CASE MainStep
  BY <1>1 DEF MainStep, CallEnable, CallRegister, Enabling, Compare, Clear, Set,
     Registering, Disable, SetRoutine, SetPrivate, Sweep, Kill, Killing, KillRun,
     KillEnable, KillPending, KillUp, Join, KillTimeout, PairOK, pair
<1>2. CASE EngineStep \/ MonitorStep \/ UNCHANGED vars
  <2>1. UNCHANGED <<pair, mainVars>>
    BY <1>2 DEF EngineStep, AwakeTest, AwakePush, EngineEnds, MonitorStep, Loop, Down, Test,
       Pop, LoadIsr, LoadPrivate, Return, Served, vars
  <2> QED  BY <2>1 DEF PairOK, pair, mainVars
<1> QED  BY <1>1, <1>2 DEF Next

LEMMA LoadedKeeps ==
  ASSUME HandOK, PairOK, LoadedOK, [Next]_vars
  PROVE  LoadedOK'
<1>1. CASE MonitorStep
  <2>1. UNCHANGED <<pair, mainVars>>
    BY <1>1 DEF MonitorStep, Loop, Down, Test, Pop, LoadIsr, LoadPrivate, Return, Served
  <2>2. CASE LoadIsr \/ LoadPrivate
    BY <2>1, <2>2 DEF LoadIsr, LoadPrivate, PairOK, LoadedOK, Registered, pair, mainVars
  <2>3. CASE ~ LoadIsr /\ ~ LoadPrivate
    BY <1>1, <2>3 DEF MonitorStep, Loop, Down, Test, Pop, Return, Served, LoadedOK
  <2> QED  BY <2>2, <2>3
<1>2. CASE Sweep
  BY <1>2 DEF Sweep, HandOK, InHand, LoadedOK, monVars
<1>3. CASE MainStep /\ ~ Sweep
  <2>1. /\ UNCHANGED <<monVars, swept>>
        /\ Registered' => Registered /\ UNCHANGED pair
    BY <1>3 DEF MainStep, CallEnable, CallRegister, Enabling, Compare, Clear, Set,
       Registering, Disable, SetRoutine, SetPrivate, Kill, Killing, KillRun,
       KillEnable, KillPending, KillUp, Join, KillTimeout, Registered
  <2> QED  BY <2>1 DEF LoadedOK, monVars, pair
<1>4. CASE EngineStep \/ UNCHANGED vars
  <2>1. UNCHANGED <<pair, monVars, mainVars, swept>>
    BY <1>4 DEF EngineStep, AwakeTest, AwakePush, EngineEnds, vars
  <2> QED  BY <2>1 DEF LoadedOK, Registered, pair, monVars, mainVars
<1> QED  BY <1>1, <1>2, <1>3, <1>4 DEF Next

LEMMA Invariance == Spec => []IInv
<1>1. IInv /\ [Next]_vars => IInv'
  BY TypeKeeps, HandKeeps, MarksKeep, TokensKeep, PairKeeps, LoadedKeeps DEF IInv
<1> QED  BY InitIInv, <1>1, PTL DEF Spec

-------------------------------------------------------------------------------
(* Every variable keeps its type, however the threads interleave.           *)
THEOREM TypeCorrect == Spec => []TypeOK
<1>1. IInv => TypeOK
  BY DEF IInv
<1> QED  BY Invariance, <1>1, PTL

(* Marks and tokens are never lost apart (InterruptService.cpp): a pending  *)
(* mark stands for a vector that is queued or in the routine's hands,       *)
(* although Enable and OnThreadKill clear the marks without the lock, and a *)
(* queued vector has a token to wake the thread, but for a token the thread *)
(* took while interrupts were disabled.                                     *)
THEOREM MarksAndTokens == Spec => []PendingAccounted
<1>1. IInv => PendingAccounted
  BY DEF IInv, PendingAccounted
<1> QED  BY Invariance, <1>1, PTL

(* Only the call in hand when a service is registered can meet one half of  *)
(* it, although MonitorThread loads the pair without the lock.              *)
THEOREM HalfServiceInHand == Spec => []MixedOnlyInHand
<1>1. IInv => MixedOnlyInHand
  BY DEF IInv, LoadedOK, Registered, MixedOnlyInHand
<1> QED  BY Invariance, <1>1, PTL
===============================================================================
