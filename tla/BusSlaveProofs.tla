----------------------------- MODULE BusSlaveProofs ----------------------------
(***************************************************************************)
(* Proofs about the register bus, for any number of software threads, bus  *)
(* models of the three kinds and hardware masters, with their resets.      *)
(***************************************************************************)
EXTENDS BusSlave, FiniteSetTheorems, TLAPS

(* The software threads that m_LockSW has let in: at most one, none while   *)
(* it is up.                                                                *)
Inside == {c \in Clients : pc[c] \in {"try", "unlock", "wait", "return"}}
LockOK ==
  /\ m_LockSW = 1 => Inside = {}
  /\ \A b, c \in Inside : b = c

(* A thread that has published a request is owed one thing by that slave:   *)
(* the acknowledge, or that its request is still there; all the others are  *)
(* owed nothing.                                                            *)
Asked(s) == \E c \in Clients : pc[c] \in {"unlock", "wait"} /\ Slave(c) = s
Owed(s) ==
  N(m_Write[s].bEnable /\ ~m_Write[s].bWait)
    + N(m_Read[s].bEnable /\ ~m_Read[s].bWait) + m_LockBusAck[s]
AckOK == \A s \in Slaves : Owed(s) = N(Asked(s))

(* A request is not withdrawn while the bus model works on it.              *)
MachineOK ==
  \A s \in Slaves :
    /\ wstate[s] \in {"control", "start", "data", "ack"} => m_Write[s].bEnable
    /\ rstate[s] \notin {"reset", "idle"} => m_Read[s].bEnable
    /\ kind[s] = "virtual" => wstate[s] = "idle" /\ rstate[s] # "reset"

IInv == TypeOK /\ LockOK /\ AckOK /\ MachineOK /\ HoldLedger

-------------------------------------------------------------------------------
LEMMA Nat01 == \A b \in BOOLEAN : N(b) \in {0, 1} /\ (N(b) = 1 <=> b)
BY DEF N

LEMMA AnyTypes == AnyReg \in Regs /\ AnyData \in Data /\ NoOp \in Ops /\ NoRequest \in Requests
<1>1. AnyReg \in Regs /\ AnyData \in Data
  BY SlavesAssumption DEF AnyReg, AnyData
<1> QED  BY <1>1 DEF NoOp, Ops, NoRequest, Requests

LEMMA OpTypes ==
  ASSUME NEW o \in Ops
  PROVE  o.addr \in Regs /\ o.data \in Data /\ o.kind \in {"read", "write"}
BY AnyTypes DEF Ops

(* A set that changes at one element at most.                               *)
LEMMA CardinalityChange ==
  ASSUME NEW S, NEW T, NEW h, IsFiniteSet(S), T \ {h} = S \ {h}
  PROVE  /\ Cardinality(S) \in Int
         /\ Cardinality(T) = Cardinality(S) + N(h \in T) - N(h \in S)
<1>1. /\ IsFiniteSet(S \ {h}) /\ Cardinality(S \ {h}) \in Int
      /\ Cardinality(S) \in Int
  BY FS_RemoveElement, FS_CardinalityType
<1>2. \A U : IsFiniteSet(U) /\ U \ {h} = S \ {h} =>
        Cardinality(U) = Cardinality(S \ {h}) + N(h \in U)
  <2> SUFFICES ASSUME NEW U, IsFiniteSet(U), U \ {h} = S \ {h}
               PROVE  Cardinality(U) = Cardinality(S \ {h}) + N(h \in U)
    OBVIOUS
  <2>1. Cardinality(U) \in Int
    BY FS_CardinalityType
  <2>2. CASE h \in U
    <3>1. Cardinality(U \ {h}) = Cardinality(U) - 1
      BY <2>2, FS_RemoveElement
    <3>2. Cardinality(S \ {h}) = Cardinality(U) - 1
      BY <3>1
    <3> QED  BY <1>1, <2>1, <2>2, <3>2 DEF N
  <2>3. CASE h \notin U
    <3>1. U = S \ {h}
      BY <2>3
    <3> QED  BY <1>1, <2>3, <3>1 DEF N
  <2> QED  BY <2>2, <2>3
<1>3. IsFiniteSet(T)
  <2>1. IsFiniteSet((S \ {h}) \cup {h})
    BY <1>1, FS_AddElement
  <2>2. T \subseteq (S \ {h}) \cup {h}
    OBVIOUS
  <2> QED  BY <2>1, <2>2, FS_Subset
<1>4. N(h \in S) \in Int /\ N(h \in T) \in Int
  BY DEF N
<1>5. Cardinality(T) = Cardinality(S \ {h}) + N(h \in T)
  BY <1>2, <1>3
<1>6. Cardinality(S) = Cardinality(S \ {h}) + N(h \in S)
  BY <1>2
<1> QED  BY <1>1, <1>4, <1>5, <1>6

LEMMA Sums ==
  ASSUME NEW i \in Int, NEW j \in Int, NEW w \in Int, NEW r \in Int, NEW u \in Int,
         NEW dw \in Int, NEW dr \in Int, NEW du \in Int,
         i = w + r - u, j - i = dw + dr - du
  PROVE  j = (w + dw) + (r + dr) - (u + du)
OBVIOUS

LEMMA SetChange ==
  ASSUME NEW S, NEW T, NEW h, IsFiniteSet(S), T \ {h} = S \ {h}
  PROVE  /\ Cardinality(S) \in Int
         /\ N(h \in T) - N(h \in S) \in Int
         /\ Cardinality(T) = Cardinality(S) + (N(h \in T) - N(h \in S))
<1>1. N(h \in S) \in Int /\ N(h \in T) \in Int
  BY DEF N
<1> QED  BY <1>1, CardinalityChange

(* The ledger, when the requests of one slave and the place of one thread   *)
(* change at most: what the holds gain is what the requests gain.           *)
LEMMA SetLedger ==
  ASSUME NEW W, NEW W2, NEW R, NEW R2, NEW U, NEW U2, NEW s, NEW c,
         IsFiniteSet(W), IsFiniteSet(R), IsFiniteSet(U),
         W2 \ {s} = W \ {s}, R2 \ {s} = R \ {s}, U2 \ {c} = U \ {c},
         NEW i \in Int, NEW j \in Int,
         i = Cardinality(W) + Cardinality(R) - Cardinality(U),
         j - i = (N(s \in W2) - N(s \in W)) + (N(s \in R2) - N(s \in R))
                   - (N(c \in U2) - N(c \in U))
  PROVE  j = Cardinality(W2) + Cardinality(R2) - Cardinality(U2)
<1>1. /\ Cardinality(W) \in Int /\ N(s \in W2) - N(s \in W) \in Int
      /\ Cardinality(W2) = Cardinality(W) + (N(s \in W2) - N(s \in W))
  BY SetChange, Zenon
<1>2. /\ Cardinality(R) \in Int /\ N(s \in R2) - N(s \in R) \in Int
      /\ Cardinality(R2) = Cardinality(R) + (N(s \in R2) - N(s \in R))
  BY SetChange, Zenon
<1>3. /\ Cardinality(U) \in Int /\ N(c \in U2) - N(c \in U) \in Int
      /\ Cardinality(U2) = Cardinality(U) + (N(c \in U2) - N(c \in U))
  BY SetChange, Zenon
<1> DEFINE dW == N(s \in W2) - N(s \in W)
           dR == N(s \in R2) - N(s \in R)
           dU == N(c \in U2) - N(c \in U)
<1>4. j - i = dW + dR - dU
  OBVIOUS
<1>5. dW \in Int /\ dR \in Int /\ dU \in Int
  BY <1>1, <1>2, <1>3
<1> HIDE DEF dW, dR, dU
<1>6. j = (Cardinality(W) + dW) + (Cardinality(R) + dR) - (Cardinality(U) + dU)
  BY <1>1, <1>2, <1>3, <1>4, <1>5, Sums DEF N
<1> QED  BY <1>1, <1>2, <1>3, <1>6, Zenon DEF dW, dR, dU

Enabled(q, s) == s \in Slaves /\ q[s].bEnable
Between(c)    == c \in Clients /\ pc[c] = "unlock"

LEMMA LedgerChange ==
  ASSUME TypeOK, HoldLedger, NEW s, NEW c,
         \A x \in Slaves \ {s} : /\ m_Write'[x].bEnable = m_Write[x].bEnable
                                 /\ m_Read'[x].bEnable = m_Read[x].bEnable,
         \A b \in Clients \ {c} : (pc'[b] = "unlock") = (pc[b] = "unlock"),
         hold' \in Int,
         (hold' - N(engine' = "lock")) - (hold - N(engine = "lock")) =
           (N(Enabled(m_Write', s)) - N(Enabled(m_Write, s)))
             + (N(Enabled(m_Read', s)) - N(Enabled(m_Read, s)))
             - (N(Between(c)') - N(Between(c)))
  PROVE  HoldLedger'
<1> DEFINE W == {x \in Slaves : m_Write[x].bEnable}   W2 == {x \in Slaves : m_Write'[x].bEnable}
           R == {x \in Slaves : m_Read[x].bEnable}    R2 == {x \in Slaves : m_Read'[x].bEnable}
           U == {x \in Clients : pc[x] = "unlock"}    U2 == {x \in Clients : pc'[x] = "unlock"}
           i == hold - N(engine = "lock")             j == hold' - N(engine' = "lock")
<1>1. IsFiniteSet(W) /\ IsFiniteSet(R) /\ IsFiniteSet(U)
  BY SlavesAssumption, FS_Subset
<1>2. W2 \ {s} = W \ {s} /\ R2 \ {s} = R \ {s} /\ U2 \ {c} = U \ {c}
  OBVIOUS
<1>3. /\ (s \in W) = Enabled(m_Write, s) /\ (s \in W2) = Enabled(m_Write', s)
      /\ (s \in R) = Enabled(m_Read, s) /\ (s \in R2) = Enabled(m_Read', s)
      /\ (c \in U) = Between(c) /\ (c \in U2) = Between(c)'
  BY DEF Enabled, Between
<1>4. i = Cardinality(W) + Cardinality(R) - Cardinality(U)
  BY DEF HoldLedger
<1>5. i \in Int /\ j \in Int
  <2>1. hold \in Int /\ N(engine = "lock") \in Int /\ N(engine' = "lock") \in Int
    BY DEF TypeOK, N
  <2>2. \A a, b \in Int : a - b \in Int
    OBVIOUS
  <2> QED  BY <2>1, <2>2, Zenon
<1>6. j - i = (N(s \in W2) - N(s \in W)) + (N(s \in R2) - N(s \in R))
                - (N(c \in U2) - N(c \in U))
  BY <1>3, Zenon
<1> HIDE DEF W, W2, R, R2, U, U2, i, j
<1>7. j = Cardinality(W2) + Cardinality(R2) - Cardinality(U2)
  BY <1>1, <1>2, <1>4, <1>5, <1>6, SetLedger, SMTT(30) DEF N
<1> QED  BY <1>7 DEF HoldLedger, W2, R2, U2, j

-------------------------------------------------------------------------------
(* What a step may change at one slave.                                     *)
LEMMA RequestTypes ==
  ASSUME NEW q \in [Slaves -> Requests], NEW s \in Slaves,
         NEW o \in Ops, NEW d \in Data, NEW b \in BOOLEAN
  PROVE  /\ q[s] \in Requests
         /\ q[s].bEnable \in BOOLEAN /\ q[s].bWait \in BOOLEAN
         /\ q[s].addr \in Regs /\ q[s].data \in Data
         /\ [bEnable |-> TRUE, bWait |-> b, addr |-> o.addr, data |-> o.data] \in Requests
         /\ [q[s] EXCEPT !.bEnable = TRUE, !.bWait = b, !.addr = o.addr] \in Requests
         /\ [q[s] EXCEPT !.bEnable = FALSE] \in Requests
         /\ [q[s] EXCEPT !.bWait = FALSE] \in Requests
         /\ [q[s] EXCEPT !.data = d] \in Requests
         /\ [q[s] EXCEPT !.bEnable = FALSE, !.data = d] \in Requests
<1>1. q[s] \in Requests
  OBVIOUS
<1>2. o.addr \in Regs /\ o.data \in Data
  BY OpTypes
<1> QED  BY <1>1, <1>2 DEF Requests

LEMMA MoveTypes ==
  ASSUME TypeOK, NEW s \in Slaves, NEW from, NEW to,
         \/ MoveW(s, from, to) /\ to \in {"reset", "idle", "control", "resp", "start", "data", "ack"}
         \/ MoveR(s, from, to) /\ to \in {"reset", "idle", "control", "data", "start", "ack", "lost"}
  PROVE  /\ wstate' \in [Slaves -> {"reset", "idle", "control", "resp", "start", "data", "ack"}]
         /\ rstate' \in
              [Slaves -> {"reset", "idle", "control", "data", "start", "ack", "lost"}]
         /\ \A x \in Slaves \ {s} : wstate'[x] = wstate[x] /\ rstate'[x] = rstate[x]
BY DEF TypeOK, MoveW, MoveR

(* The slave that acts leaves its machines consistent with its requests.    *)
LEMMA MachineStep ==
  ASSUME MachineOK, NEW s \in Slaves, kind' = kind,
         \A x \in Slaves \ {s} :
           /\ wstate'[x] = wstate[x] /\ rstate'[x] = rstate[x]
           /\ m_Write'[x].bEnable = m_Write[x].bEnable
           /\ m_Read'[x].bEnable = m_Read[x].bEnable,
         wstate'[s] \in {"control", "start", "data", "ack"} => m_Write'[s].bEnable,
         rstate'[s] \notin {"reset", "idle"} => m_Read'[s].bEnable,
         kind[s] = "virtual" => wstate'[s] = "idle" /\ rstate'[s] # "reset"
  PROVE  MachineOK'
BY DEF MachineOK

(* A step that only adds requests leaves them consistent.                   *)
LEMMA MachineRequest ==
  ASSUME MachineOK, UNCHANGED busVars,
         \A x \in Slaves : /\ m_Write[x].bEnable => m_Write'[x].bEnable
                           /\ m_Read[x].bEnable => m_Read'[x].bEnable
  PROVE  MachineOK'
BY DEF MachineOK, busVars

(* A step that neither asks, nor answers, nor holds.                        *)
LEMMA QuietStep ==
  ASSUME IInv, UNCHANGED <<m_LockSW, pc, op, m_LockBusAck, engine, hold>>,
         \A x \in Slaves :
           /\ m_Write'[x].bEnable = m_Write[x].bEnable
           /\ m_Write[x].bEnable => m_Write'[x].bWait = m_Write[x].bWait
           /\ m_Read'[x].bEnable = m_Read[x].bEnable
           /\ m_Read[x].bEnable => m_Read'[x].bWait = m_Read[x].bWait
  PROVE  LockOK' /\ AckOK' /\ HoldLedger'
<1>1. LockOK'
  BY DEF IInv, LockOK, Inside
<1>2. AckOK'
  <2> SUFFICES ASSUME NEW s \in Slaves  PROVE Owed(s)' = N(Asked(s))'
    BY DEF AckOK
  <2>1. Asked(s)' = Asked(s)
    BY DEF Asked, Slave
  <2>2. /\ (m_Write'[s].bEnable /\ ~m_Write'[s].bWait) = (m_Write[s].bEnable /\ ~m_Write[s].bWait)
        /\ (m_Read'[s].bEnable /\ ~m_Read'[s].bWait) = (m_Read[s].bEnable /\ ~m_Read[s].bWait)
    <3>1. /\ m_Write'[s].bEnable = m_Write[s].bEnable
          /\ m_Write[s].bEnable => m_Write'[s].bWait = m_Write[s].bWait
          /\ m_Read'[s].bEnable = m_Read[s].bEnable
          /\ m_Read[s].bEnable => m_Read'[s].bWait = m_Read[s].bWait
      OBVIOUS
    <3> QED  BY <3>1, Zenon
  <2>3. Owed(s)' = Owed(s)
    BY <2>2, Zenon DEF Owed
  <2> QED  BY <2>1, <2>3 DEF IInv, AckOK
<1>3. HoldLedger'
  <2>1. {s \in Slaves : m_Write'[s].bEnable} = {s \in Slaves : m_Write[s].bEnable}
    OBVIOUS
  <2>2. {s \in Slaves : m_Read'[s].bEnable} = {s \in Slaves : m_Read[s].bEnable}
    OBVIOUS
  <2> QED  BY <2>1, <2>2, Zenon DEF HoldLedger, IInv
<1> QED  BY <1>1, <1>2, <1>3

(* An acknowledge of a request that is there: what was owed as a request is *)
(* owed as an acknowledge, and the engine is about to let go of its hold.   *)
LEMMA WriteAckStep ==
  ASSUME IInv, NEW s \in Slaves, m_Write[s].bEnable, engine = "run",
         UNCHANGED swVars, WriteAck(s)
  PROVE  /\ LockOK' /\ AckOK' /\ HoldLedger'
         /\ m_Write' \in [Slaves -> Requests] /\ m_Read' = m_Read
         /\ m_LockBusAck' \in [Slaves -> Nat] /\ engine' = "lock" /\ hold' = hold
         /\ \A x \in Slaves \ {s} : m_Write'[x].bEnable = m_Write[x].bEnable
<1>1. /\ m_Write \in [Slaves -> Requests] /\ m_LockBusAck \in [Slaves -> Nat]
      /\ hold \in Int
  BY DEF IInv, TypeOK
<1>2. /\ m_Write' = [m_Write EXCEPT ![s].bEnable = FALSE]
      /\ m_LockBusAck' = [m_LockBusAck EXCEPT ![s] =
                            IF m_Write[s].bWait THEN @ ELSE @ + 1]
      /\ m_Read' = m_Read /\ engine' = "lock" /\ hold' = hold
      /\ m_LockSW' = m_LockSW /\ pc' = pc /\ op' = op
  BY DEF WriteAck, swVars
<1>3. /\ m_Write' \in [Slaves -> Requests] /\ m_LockBusAck' \in [Slaves -> Nat]
      /\ m_Write'[s].bEnable = FALSE
      /\ \A x \in Slaves \ {s} : m_Write'[x] = m_Write[x] /\ m_LockBusAck'[x] = m_LockBusAck[x]
  <2>1. [m_Write[s] EXCEPT !.bEnable = FALSE] \in Requests
    BY <1>1 DEF Requests
  <2>2. m_Write' = [m_Write EXCEPT ![s] = [m_Write[s] EXCEPT !.bEnable = FALSE]]
    BY <1>2
  <2>3. [m_Write[s] EXCEPT !.bEnable = FALSE].bEnable = FALSE
    BY <1>1 DEF Requests
  <2> QED  BY <1>1, <1>2, <2>1, <2>2, <2>3
<1>4. LockOK'
  BY <1>2 DEF IInv, LockOK, Inside
<1>5. AckOK'
  <2> SUFFICES ASSUME NEW x \in Slaves  PROVE Owed(x)' = N(Asked(x))'
    BY DEF AckOK
  <2>1. Asked(x)' = Asked(x)
    BY <1>2 DEF Asked, Slave
  <2>2. Owed(x)' = Owed(x)
    <3>1. CASE x # s
      BY <1>2, <1>3, <3>1 DEF Owed
    <3>2. CASE x = s
      <4>1. /\ m_Write[s].bEnable = TRUE /\ m_Write[s].bWait \in BOOLEAN
            /\ m_LockBusAck[s] \in Nat
        BY <1>1 DEF Requests
      <4>2. N(m_Write'[s].bEnable /\ ~m_Write'[s].bWait) = 0
        BY <1>3 DEF N
      <4>3. CASE m_Write[s].bWait
        <5>1. m_LockBusAck'[s] = m_LockBusAck[s]
          BY <1>1, <1>2, <4>3
        <5>2. N(m_Write[s].bEnable /\ ~m_Write[s].bWait) = 0
          BY <4>3 DEF N
        <5> QED  BY <1>2, <3>2, <4>2, <5>1, <5>2 DEF Owed
      <4>4. CASE ~m_Write[s].bWait
        <5>1. m_LockBusAck'[s] = m_LockBusAck[s] + 1
          BY <1>1, <1>2, <4>4
        <5>2. N(m_Write[s].bEnable /\ ~m_Write[s].bWait) = 1
          BY <4>4 DEF N
        <5>3. N(m_Read[s].bEnable /\ ~m_Read[s].bWait) \in Nat
          BY DEF N
        <5>4. \A r, a \in Nat : 1 + r + a = 0 + r + (a + 1)
          OBVIOUS
        <5>5. Owed(s) = 1 + N(m_Read[s].bEnable /\ ~m_Read[s].bWait) + m_LockBusAck[s]
          BY <5>2, Zenon DEF Owed
        <5>6. Owed(s)' = 0 + N(m_Read[s].bEnable /\ ~m_Read[s].bWait) + (m_LockBusAck[s] + 1)
          BY <1>2, <4>2, <5>1, Zenon DEF Owed
        <5> QED  BY <3>2, <4>1, <5>3, <5>4, <5>5, <5>6, Zenon
      <4> QED  BY <4>1, <4>3, <4>4
    <3> QED  BY <3>1, <3>2
  <2> QED  BY <2>1, <2>2 DEF IInv, AckOK
<1>6. HoldLedger'
  <2>1. (hold' - N(engine' = "lock")) - (hold - N(engine = "lock")) =
           (N(Enabled(m_Write', s)) - N(Enabled(m_Write, s)))
             + (N(Enabled(m_Read', s)) - N(Enabled(m_Read, s)))
             - (N(Between(CHOOSE c : TRUE)') - N(Between(CHOOSE c : TRUE)))
    BY <1>1, <1>2, <1>3 DEF N, Enabled, Between
  <2> QED  BY <1>1, <1>2, <1>3, <2>1, LedgerChange, Zenon DEF IInv
<1> QED  BY <1>2, <1>3, <1>4, <1>5, <1>6

LEMMA ReadAckStep ==
  ASSUME IInv, NEW s \in Slaves, NEW d \in Data, m_Read[s].bEnable, engine = "run",
         UNCHANGED swVars, ReadAck(s, d)
  PROVE  /\ LockOK' /\ AckOK' /\ HoldLedger'
         /\ m_Read' \in [Slaves -> Requests] /\ m_Write' = m_Write
         /\ m_LockBusAck' \in [Slaves -> Nat] /\ engine' = "lock" /\ hold' = hold
         /\ \A x \in Slaves \ {s} : m_Read'[x].bEnable = m_Read[x].bEnable
<1>1. /\ m_Read \in [Slaves -> Requests] /\ m_LockBusAck \in [Slaves -> Nat]
      /\ hold \in Int
  BY DEF IInv, TypeOK
<1>2. /\ m_Read' = [m_Read EXCEPT ![s].bEnable = FALSE, ![s].data = d]
      /\ m_LockBusAck' = [m_LockBusAck EXCEPT ![s] =
                            IF m_Read[s].bWait THEN @ ELSE @ + 1]
      /\ m_Write' = m_Write /\ engine' = "lock" /\ hold' = hold
      /\ m_LockSW' = m_LockSW /\ pc' = pc /\ op' = op
  BY DEF ReadAck, swVars
<1>3. /\ m_Read' \in [Slaves -> Requests] /\ m_LockBusAck' \in [Slaves -> Nat]
      /\ m_Read'[s].bEnable = FALSE
      /\ \A x \in Slaves \ {s} : m_Read'[x] = m_Read[x] /\ m_LockBusAck'[x] = m_LockBusAck[x]
  <2>1. [m_Read[s] EXCEPT !.bEnable = FALSE, !.data = d] \in Requests
    BY <1>1 DEF Requests
  <2>2. m_Read' = [m_Read EXCEPT ![s] = [m_Read[s] EXCEPT !.bEnable = FALSE, !.data = d]]
    BY <1>2
  <2>3. [m_Read[s] EXCEPT !.bEnable = FALSE, !.data = d].bEnable = FALSE
    BY <1>1 DEF Requests
  <2> QED  BY <1>1, <1>2, <2>1, <2>2, <2>3
<1>4. LockOK'
  BY <1>2 DEF IInv, LockOK, Inside
<1>5. AckOK'
  <2> SUFFICES ASSUME NEW x \in Slaves  PROVE Owed(x)' = N(Asked(x))'
    BY DEF AckOK
  <2>1. Asked(x)' = Asked(x)
    BY <1>2 DEF Asked, Slave
  <2>2. Owed(x)' = Owed(x)
    <3>1. CASE x # s
      BY <1>2, <1>3, <3>1 DEF Owed
    <3>2. CASE x = s
      <4>1. /\ m_Read[s].bEnable = TRUE /\ m_Read[s].bWait \in BOOLEAN
            /\ m_LockBusAck[s] \in Nat
        BY <1>1 DEF Requests
      <4>2. N(m_Read'[s].bEnable /\ ~m_Read'[s].bWait) = 0
        BY <1>3 DEF N
      <4>3. CASE m_Read[s].bWait
        <5>1. m_LockBusAck'[s] = m_LockBusAck[s]
          BY <1>1, <1>2, <4>3
        <5>2. N(m_Read[s].bEnable /\ ~m_Read[s].bWait) = 0
          BY <4>3 DEF N
        <5> QED  BY <1>2, <3>2, <4>2, <5>1, <5>2 DEF Owed
      <4>4. CASE ~m_Read[s].bWait
        <5>1. m_LockBusAck'[s] = m_LockBusAck[s] + 1
          BY <1>1, <1>2, <4>4
        <5>2. N(m_Read[s].bEnable /\ ~m_Read[s].bWait) = 1
          BY <4>4 DEF N
        <5>3. N(m_Write[s].bEnable /\ ~m_Write[s].bWait) \in Nat
          BY DEF N
        <5>4. \A w, a \in Nat : w + 1 + a = w + 0 + (a + 1)
          OBVIOUS
        <5>5. Owed(s) = N(m_Write[s].bEnable /\ ~m_Write[s].bWait) + 1 + m_LockBusAck[s]
          BY <5>2, Zenon DEF Owed
        <5>6. Owed(s)' = N(m_Write[s].bEnable /\ ~m_Write[s].bWait) + 0 + (m_LockBusAck[s] + 1)
          BY <1>2, <4>2, <5>1, Zenon DEF Owed
        <5> QED  BY <3>2, <4>1, <5>3, <5>4, <5>5, <5>6, Zenon
      <4> QED  BY <4>1, <4>3, <4>4
    <3> QED  BY <3>1, <3>2
  <2> QED  BY <2>1, <2>2 DEF IInv, AckOK
<1>6. HoldLedger'
  <2>1. (hold' - N(engine' = "lock")) - (hold - N(engine = "lock")) =
           (N(Enabled(m_Write', s)) - N(Enabled(m_Write, s)))
             + (N(Enabled(m_Read', s)) - N(Enabled(m_Read, s)))
             - (N(Between(CHOOSE c : TRUE)') - N(Between(CHOOSE c : TRUE)))
    BY <1>1, <1>2, <1>3 DEF N, Enabled, Between
  <2> QED  BY <1>1, <1>2, <1>3, <2>1, LedgerChange, Zenon DEF IInv
<1> QED  BY <1>2, <1>3, <1>4, <1>5, <1>6

-------------------------------------------------------------------------------
(* The clocks of the bus models.                                            *)
WStates == {"reset", "idle", "control", "resp", "start", "data", "ack"}
RStates == {"reset", "idle", "control", "data", "start", "ack", "lost"}

(* Where the machines of slave s may stand next.                            *)
MachineNext(s) ==
  /\ wstate' \in [Slaves -> WStates] /\ rstate' \in [Slaves -> RStates]
  /\ \A x \in Slaves \ {s} : wstate'[x] = wstate[x] /\ rstate'[x] = rstate[x]
  /\ wstate'[s] \in {"control", "start", "data", "ack"} => m_Write'[s].bEnable
  /\ rstate'[s] \notin {"reset", "idle"} => m_Read'[s].bEnable
  /\ kind[s] = "virtual" => wstate'[s] = "idle" /\ rstate'[s] # "reset"

LEMMA QuietMove ==
  ASSUME IInv, NEW s \in Slaves, MachineNext(s),
         UNCHANGED <<swVars, reqVars, kind, served, maxiVars, engVars, mem>>
  PROVE  IInv'
<1>1. TypeOK'
  BY DEF IInv, TypeOK, MachineNext, WStates, RStates, swVars, reqVars, maxiVars, engVars
<1>2. LockOK' /\ AckOK' /\ HoldLedger'
  BY QuietStep DEF swVars, reqVars, engVars
<1>3. MachineOK'
  BY MachineStep DEF IInv, MachineNext, reqVars
<1> QED  BY <1>1, <1>2, <1>3 DEF IInv

LEMMA MoveNext ==
  ASSUME IInv, NEW s \in Slaves, NEW from, NEW to,
         m_Write' = m_Write, m_Read' = m_Read,
         \/ /\ MoveW(s, from, to) /\ to \in WStates
            /\ to \in {"control", "start", "data", "ack"} => m_Write[s].bEnable
            /\ kind[s] # "virtual"
         \/ /\ MoveR(s, from, to) /\ to \in RStates \ {"reset"}
            /\ to # "idle" => m_Read[s].bEnable
  PROVE  MachineNext(s)
<1>1. /\ wstate \in [Slaves -> WStates] /\ rstate \in [Slaves -> RStates]
      /\ wstate[s] \in {"control", "start", "data", "ack"} => m_Write[s].bEnable
      /\ rstate[s] \notin {"reset", "idle"} => m_Read[s].bEnable
      /\ kind[s] = "virtual" => wstate[s] = "idle" /\ rstate[s] # "reset"
  BY DEF IInv, TypeOK, MachineOK, WStates, RStates
<1>2. CASE MoveW(s, from, to) /\ to \in WStates
            /\ (to \in {"control", "start", "data", "ack"} => m_Write[s].bEnable)
            /\ kind[s] # "virtual"
  <2>1. wstate' = [wstate EXCEPT ![s] = to] /\ rstate' = rstate
    BY <1>2 DEF MoveW
  <2> QED  BY <1>1, <1>2, <2>1 DEF MachineNext
<1>3. CASE MoveR(s, from, to) /\ to \in RStates \ {"reset"}
            /\ (to # "idle" => m_Read[s].bEnable)
  <2>1. rstate' = [rstate EXCEPT ![s] = to] /\ wstate' = wstate
    BY <1>3 DEF MoveR
  <2> QED  BY <1>1, <1>3, <2>1 DEF MachineNext
<1> QED  BY <1>2, <1>3

(* The clocks on which no access happens.                                   *)
LEMMA QuietClock ==
  ASSUME IInv, NEW s \in Slaves,
         \/ WriteUp(s) \/ GetWrite(s) \/ WriteResp(s)
         \/ ReadUp(s) \/ GetRead(s) \/ ReadControl(s)
         \/ ApbIdle(s) \/ ApbStart(s) \/ VirtualRead(s) \/ VirtualWait(s)
  PROVE  IInv'
<1>1. /\ wstate[s] \in {"control", "start", "data", "ack"} => m_Write[s].bEnable
      /\ rstate[s] \notin {"reset", "idle"} => m_Read[s].bEnable
  BY DEF IInv, MachineOK
<1>2. /\ NoAccess
      /\ UNCHANGED <<swVars, maxiVars, kind>>
      /\ \E from, to \in WStates \cup RStates :
           \/ /\ MoveW(s, from, to) /\ to \in WStates
              /\ to \in {"control", "start", "data", "ack"} => m_Write[s].bEnable
              /\ kind[s] # "virtual"
           \/ /\ MoveR(s, from, to) /\ to \in RStates \ {"reset"}
              /\ to # "idle" => m_Read[s].bEnable
  <2> DEFINE Moves(from, to) ==
           \/ /\ MoveW(s, from, to) /\ to \in WStates
              /\ to \in {"control", "start", "data", "ack"} => m_Write[s].bEnable
              /\ kind[s] # "virtual"
           \/ /\ MoveR(s, from, to) /\ to \in RStates \ {"reset"}
              /\ to # "idle" => m_Read[s].bEnable
  <2>1. NoAccess /\ UNCHANGED <<swVars, maxiVars, kind>>
    BY DEF WriteUp, GetWrite, WriteResp, ReadUp, GetRead, ReadControl, ApbIdle,
           ApbStart, VirtualRead, VirtualWait, Clocked
  <2>2. \/ Moves("reset", "idle") \/ Moves("idle", "control") \/ Moves("resp", "idle")
        \/ Moves("control", "data") \/ Moves("idle", "start") \/ Moves("start", "data")
    <3>1. CASE WriteUp(s) \/ WriteResp(s)
      BY <3>1 DEF WriteUp, WriteResp, Clocked, WStates
    <3>2. CASE GetWrite(s)
      BY <3>2 DEF GetWrite, Clocked, WStates
    <3>3. CASE ReadUp(s)
      BY <3>3 DEF ReadUp, RStates
    <3>4. CASE GetRead(s) \/ VirtualRead(s)
      BY <3>4 DEF GetRead, VirtualRead, RStates
    <3>5. CASE ReadControl(s) \/ VirtualWait(s)
      BY <1>1, <3>5 DEF ReadControl, VirtualWait, RStates, MoveR
    <3>6. CASE ApbIdle(s)
      BY <3>6 DEF ApbIdle, Clocked, WStates, RStates
    <3>7. CASE ApbStart(s)
      <4>1. CASE MoveW(s, "start", "data")
        <5>1. m_Write[s].bEnable
          BY <1>1, <4>1 DEF MoveW
        <5> QED  BY <3>7, <4>1, <5>1 DEF ApbStart, Clocked, WStates
      <4>2. CASE MoveR(s, "start", "data")
        <5>1. m_Read[s].bEnable
          BY <1>1, <4>2 DEF MoveR
        <5> QED  BY <4>2, <5>1 DEF RStates
      <4> QED  BY <3>7, <4>1, <4>2 DEF ApbStart
    <3> QED  BY <3>1, <3>2, <3>3, <3>4, <3>5, <3>6, <3>7
  <2>3. /\ "reset" \in WStates \cup RStates /\ "idle" \in WStates \cup RStates
        /\ "control" \in WStates \cup RStates /\ "resp" \in WStates \cup RStates
        /\ "data" \in WStates \cup RStates /\ "start" \in WStates \cup RStates
    BY DEF WStates
  <2>4. \E from, to \in WStates \cup RStates : Moves(from, to)
    <3> HIDE DEF Moves
    <3> QED  BY <2>2, <2>3
  <2> QED  BY <2>1, <2>4
<1>3. MachineNext(s)
  BY <1>2, MoveNext, Zenon DEF NoAccess, reqVars
<1> QED  BY <1>2, <1>3, QuietMove DEF NoAccess

LEMMA ResetStep ==
  ASSUME IInv, NEW s \in Slaves, SlaveReset(s)
  PROVE  IInv'
<1>1. /\ wstate \in [Slaves -> WStates] /\ rstate \in [Slaves -> RStates]
      /\ wstate[s] \in {"control", "start", "data", "ack"} => m_Write[s].bEnable
      /\ rstate[s] \notin {"reset", "idle"} => m_Read[s].bEnable
      /\ kind[s] = "virtual" => wstate[s] = "idle" /\ rstate[s] # "reset"
  BY DEF IInv, TypeOK, MachineOK, WStates, RStates
<1>2. /\ wstate' = [wstate EXCEPT ![s] = AtReset(s, wstate[s])]
      /\ rstate' = [rstate EXCEPT ![s] = AtReset(s, rstate[s])]
      /\ UNCHANGED <<swVars, reqVars, kind, served, maxiVars, engVars, mem>>
  BY DEF SlaveReset
<1>3. /\ AtReset(s, wstate[s]) \in {"reset", "idle"}
      /\ AtReset(s, rstate[s]) \in {"reset", "idle", "lost"}
      /\ AtReset(s, rstate[s]) = "lost" => m_Read[s].bEnable
      /\ kind[s] = "virtual" => AtReset(s, wstate[s]) = "idle" /\ AtReset(s, rstate[s]) # "reset"
  <2>1. kind[s] \in {"saxi", "apb", "virtual"}
    BY SlavesAssumption DEF IInv, TypeOK
  <2> QED  BY <1>1, <2>1 DEF AtReset
<1>4. MachineNext(s)
  BY <1>1, <1>2, <1>3 DEF MachineNext, reqVars, WStates, RStates
<1> QED  BY <1>2, <1>4, QuietMove

(* The clocks on which the design takes a write or answers a read.          *)
LEMMA MemTypes ==
  ASSUME TypeOK, NEW s \in Slaves
  PROVE  /\ Answer(s) \in Data
         /\ Accept(s) => mem' \in [Regs -> Data]
<1>1. m_Write[s].data \in Data /\ m_Read[s].addr \in Regs /\ mem \in [Regs -> Data]
  BY DEF TypeOK, Requests
<1> QED  BY <1>1 DEF Answer, Accept

LEMMA WriteAnswered ==
  ASSUME IInv, NEW s \in Slaves, m_Write[s].bEnable, engine = "run",
         UNCHANGED <<swVars, maxiVars, kind>>, WriteAck(s),
         mem' \in [Regs -> Data], served' \subseteq Slaves,
         \/ \E from \in WStates, to \in {"resp", "idle"} :
              MoveW(s, from, to) /\ kind[s] # "virtual"
         \/ UNCHANGED <<wstate, rstate>> /\ kind[s] = "virtual"
  PROVE  IInv'
<1>1. /\ LockOK' /\ AckOK' /\ HoldLedger'
      /\ m_Write' \in [Slaves -> Requests] /\ m_Read' = m_Read
      /\ m_LockBusAck' \in [Slaves -> Nat] /\ engine' = "lock" /\ hold' = hold
      /\ \A x \in Slaves \ {s} : m_Write'[x].bEnable = m_Write[x].bEnable
  BY WriteAckStep
<1>2. /\ wstate \in [Slaves -> WStates] /\ rstate \in [Slaves -> RStates]
      /\ rstate[s] \notin {"reset", "idle"} => m_Read[s].bEnable
      /\ kind[s] = "virtual" => wstate[s] = "idle" /\ rstate[s] # "reset"
  BY DEF IInv, TypeOK, MachineOK, WStates, RStates
<1>3. /\ wstate' \in [Slaves -> WStates] /\ rstate' = rstate
      /\ wstate'[s] \in {"resp", "idle"}
      /\ kind[s] = "virtual" => wstate'[s] = "idle"
      /\ \A x \in Slaves \ {s} : wstate'[x] = wstate[x]
  <2>1. CASE UNCHANGED <<wstate, rstate>> /\ kind[s] = "virtual"
    BY <1>2, <2>1
  <2>2. CASE \E from \in WStates, to \in {"resp", "idle"} :
               MoveW(s, from, to) /\ kind[s] # "virtual"
    <3>1. PICK from \in WStates, to \in {"resp", "idle"} :
            MoveW(s, from, to) /\ kind[s] # "virtual"
      BY <2>2
    <3>2. wstate' = [wstate EXCEPT ![s] = to] /\ rstate' = rstate /\ to \in WStates
      BY <3>1 DEF MoveW, WStates
    <3> QED  BY <1>2, <3>1, <3>2
  <2> QED  BY <2>1, <2>2
<1>4. TypeOK'
  BY <1>1, <1>2, <1>3 DEF IInv, TypeOK, swVars, maxiVars, WStates, RStates
<1>5. MachineOK'
  <2>1. /\ wstate'[s] \in {"control", "start", "data", "ack"} => m_Write'[s].bEnable
        /\ rstate'[s] \notin {"reset", "idle"} => m_Read'[s].bEnable
        /\ kind[s] = "virtual" => wstate'[s] = "idle" /\ rstate'[s] # "reset"
    BY <1>1, <1>2, <1>3
  <2>2. \A x \in Slaves \ {s} :
           /\ wstate'[x] = wstate[x] /\ rstate'[x] = rstate[x]
           /\ m_Write'[x].bEnable = m_Write[x].bEnable
           /\ m_Read'[x].bEnable = m_Read[x].bEnable
    BY <1>1, <1>3
  <2> QED  BY <2>1, <2>2, MachineStep DEF IInv
<1> QED  BY <1>1, <1>4, <1>5 DEF IInv

LEMMA ReadAnswered ==
  ASSUME IInv, NEW s \in Slaves, m_Read[s].bEnable, engine = "run",
         UNCHANGED <<swVars, maxiVars, kind, served, mem>>,
         NEW d \in Data, ReadAck(s, d),
         NEW from, MoveR(s, from, "idle")
  PROVE  IInv'
<1>1. /\ LockOK' /\ AckOK' /\ HoldLedger'
      /\ m_Read' \in [Slaves -> Requests] /\ m_Write' = m_Write
      /\ m_LockBusAck' \in [Slaves -> Nat] /\ engine' = "lock" /\ hold' = hold
      /\ \A x \in Slaves \ {s} : m_Read'[x].bEnable = m_Read[x].bEnable
  BY ReadAckStep
<1>2. /\ wstate \in [Slaves -> WStates] /\ rstate \in [Slaves -> RStates]
      /\ wstate[s] \in {"control", "start", "data", "ack"} => m_Write[s].bEnable
      /\ kind[s] = "virtual" => wstate[s] = "idle" /\ rstate[s] # "reset"
  BY DEF IInv, TypeOK, MachineOK, WStates, RStates
<1>3. /\ rstate' \in [Slaves -> RStates] /\ wstate' = wstate
      /\ rstate'[s] = "idle"
      /\ \A x \in Slaves \ {s} : rstate'[x] = rstate[x]
  <2>1. rstate' = [rstate EXCEPT ![s] = "idle"] /\ wstate' = wstate /\ "idle" \in RStates
    BY DEF MoveR, RStates
  <2> QED  BY <1>2, <2>1
<1>4. TypeOK'
  BY <1>1, <1>2, <1>3 DEF IInv, TypeOK, swVars, maxiVars, WStates, RStates
<1>5. MachineOK'
  <2>1. /\ wstate'[s] \in {"control", "start", "data", "ack"} => m_Write'[s].bEnable
        /\ rstate'[s] \notin {"reset", "idle"} => m_Read'[s].bEnable
        /\ kind[s] = "virtual" => wstate'[s] = "idle" /\ rstate'[s] # "reset"
    BY <1>1, <1>2, <1>3
  <2>2. \A x \in Slaves \ {s} :
           /\ wstate'[x] = wstate[x] /\ rstate'[x] = rstate[x]
           /\ m_Write'[x].bEnable = m_Write[x].bEnable
           /\ m_Read'[x].bEnable = m_Read[x].bEnable
    BY <1>1, <1>3
  <2> QED  BY <2>1, <2>2, MachineStep DEF IInv
<1> QED  BY <1>1, <1>4, <1>5 DEF IInv

LEMMA ApbDataStep ==
  ASSUME IInv, NEW s \in Slaves, ApbData(s)
  PROVE  IInv'
<1>1. /\ m_Write \in [Slaves -> Requests] /\ m_Read \in [Slaves -> Requests]
      /\ wstate \in [Slaves -> WStates] /\ rstate \in [Slaves -> RStates]
      /\ served \subseteq Slaves /\ Answer(s) \in Data
      /\ wstate[s] \in {"control", "start", "data", "ack"} => m_Write[s].bEnable
      /\ rstate[s] \notin {"reset", "idle"} => m_Read[s].bEnable
  BY MemTypes DEF IInv, TypeOK, MachineOK, WStates, RStates
<1>2. /\ kind[s] = "apb" /\ kind' = kind
      /\ UNCHANGED <<swVars, maxiVars, m_Write, m_LockBusAck, engVars>>
  BY DEF ApbData, Clocked
<1>3. /\ m_Read' \in [Slaves -> Requests]
      /\ \A x \in Slaves : /\ m_Read'[x].bEnable = m_Read[x].bEnable
                           /\ m_Read'[x].bWait = m_Read[x].bWait
      /\ mem' \in [Regs -> Data] /\ served' \subseteq Slaves
      /\ MachineNext(s)
  <2>1. CASE /\ MoveW(s, "data", "ack") /\ Accept(s)
             /\ served' = served \cup {s} /\ UNCHANGED m_Read
    <3>1. wstate' = [wstate EXCEPT ![s] = "ack"] /\ rstate' = rstate /\ m_Write[s].bEnable
      BY <1>1, <2>1 DEF MoveW
    <3>2. mem' \in [Regs -> Data]
      BY <2>1, MemTypes DEF IInv
    <3>3. MachineNext(s)
      BY <1>1, <1>2, <2>1, <3>1 DEF MachineNext, WStates, RStates
    <3> QED  BY <1>1, <2>1, <3>2, <3>3
  <2>2. CASE /\ MoveR(s, "data", "ack")
             /\ m_Read' = [m_Read EXCEPT ![s].data = Answer(s)]
             /\ UNCHANGED <<served, mem>>
    <3>1. rstate' = [rstate EXCEPT ![s] = "ack"] /\ wstate' = wstate /\ m_Read[s].bEnable
      BY <1>1, <2>2 DEF MoveR
    <3>2. /\ [m_Read[s] EXCEPT !.data = Answer(s)] \in Requests
          /\ [m_Read[s] EXCEPT !.data = Answer(s)].bEnable = m_Read[s].bEnable
          /\ [m_Read[s] EXCEPT !.data = Answer(s)].bWait = m_Read[s].bWait
      BY <1>1 DEF Requests
    <3>3. m_Read' = [m_Read EXCEPT ![s] = [m_Read[s] EXCEPT !.data = Answer(s)]]
      BY <2>2
    <3>4. /\ m_Read' \in [Slaves -> Requests]
          /\ \A x \in Slaves : /\ m_Read'[x].bEnable = m_Read[x].bEnable
                               /\ m_Read'[x].bWait = m_Read[x].bWait
      BY <1>1, <3>2, <3>3
    <3>5. MachineNext(s)
      BY <1>1, <1>2, <3>1, <3>4 DEF MachineNext, WStates, RStates
    <3>6. mem' \in [Regs -> Data] /\ served' \subseteq Slaves
      BY <1>1, <2>2 DEF IInv, TypeOK
    <3> QED  BY <3>4, <3>5, <3>6
  <2> QED  BY <2>1, <2>2 DEF ApbData
<1>4. TypeOK'
  BY <1>2, <1>3 DEF IInv, TypeOK, swVars, maxiVars, engVars, MachineNext, WStates, RStates
<1>5. LockOK' /\ AckOK' /\ HoldLedger'
  BY <1>2, <1>3, QuietStep DEF swVars, engVars
<1>6. MachineOK'
  BY <1>2, <1>3, MachineStep DEF IInv, MachineNext
<1> QED  BY <1>4, <1>5, <1>6 DEF IInv

LEMMA AccessClock ==
  ASSUME IInv, NEW s \in Slaves,
         \/ WriteControl(s) \/ ReadData(s) \/ ApbAck(s)
         \/ VirtualWrite(s) \/ VirtualAnswer(s)
  PROVE  IInv'
<1>1. /\ wstate[s] \in {"control", "start", "data", "ack"} => m_Write[s].bEnable
      /\ rstate[s] \notin {"reset", "idle"} => m_Read[s].bEnable
      /\ mem \in [Regs -> Data] /\ served \subseteq Slaves /\ TypeOK
      /\ Answer(s) \in Data /\ (Accept(s) => mem' \in [Regs -> Data])
      /\ m_Read[s].data \in Data
  BY MemTypes DEF IInv, TypeOK, MachineOK, Requests
<1>2. engine = "run" /\ UNCHANGED <<swVars, maxiVars, kind>>
  BY DEF WriteControl, ReadData, ApbAck, VirtualWrite, VirtualAnswer, Clocked
<1>3. CASE WriteControl(s)
  <2>1. /\ MoveW(s, "control", "resp") /\ kind[s] # "virtual" /\ WriteAck(s)
        /\ Accept(s) /\ served' = served
    BY <1>3 DEF WriteControl, Clocked
  <2>2. m_Write[s].bEnable
    BY <1>1, <2>1 DEF MoveW
  <2>3. "control" \in WStates
    BY DEF WStates
  <2> QED  BY <1>1, <1>2, <2>1, <2>2, <2>3, WriteAnswered
<1>4. CASE VirtualWrite(s)
  <2>1. /\ UNCHANGED <<wstate, rstate, served>> /\ kind[s] = "virtual" /\ WriteAck(s)
        /\ Accept(s) /\ m_Write[s].bEnable
    BY <1>4 DEF VirtualWrite, Clocked
  <2> QED  BY <1>1, <1>2, <2>1, WriteAnswered
<1>5. CASE ReadData(s)
  <2>1. MoveR(s, "data", "idle") /\ ReadAck(s, Answer(s)) /\ UNCHANGED <<served, mem>>
    BY <1>5 DEF ReadData
  <2>2. m_Read[s].bEnable
    BY <1>1, <2>1 DEF MoveR
  <2> QED  BY <1>1, <1>2, <2>1, <2>2, ReadAnswered
<1>6. CASE VirtualAnswer(s)
  <2>1. /\ UNCHANGED <<served, mem>>
        /\ \E from \in {"data", "lost"}, d \in Data : MoveR(s, from, "idle") /\ ReadAck(s, d)
    BY <1>1, <1>6 DEF VirtualAnswer
  <2>2. PICK from \in {"data", "lost"}, d \in Data : MoveR(s, from, "idle") /\ ReadAck(s, d)
    BY <2>1
  <2>3. m_Read[s].bEnable
    BY <1>1, <2>2 DEF MoveR
  <2> QED  BY <1>2, <2>1, <2>2, <2>3, ReadAnswered
<1>7. CASE ApbAck(s)
  <2>1. CASE MoveW(s, "ack", "idle") /\ WriteAck(s) /\ served' = served \ {s}
    <3>1. m_Write[s].bEnable /\ kind[s] # "virtual" /\ mem' = mem
      BY <1>1, <1>7, <2>1 DEF MoveW, ApbAck, Clocked
    <3>2. "ack" \in WStates
      BY DEF WStates
    <3> QED  BY <1>1, <1>2, <2>1, <3>1, <3>2, WriteAnswered
  <2>2. CASE MoveR(s, "ack", "idle") /\ ReadAck(s, m_Read[s].data) /\ UNCHANGED served
    <3>1. m_Read[s].bEnable /\ mem' = mem
      BY <1>1, <1>7, <2>2 DEF MoveR, ApbAck
    <3> QED  BY <1>1, <1>2, <2>2, <3>1, ReadAnswered
  <2> QED  BY <1>7, <2>1, <2>2 DEF ApbAck
<1> QED  BY <1>3, <1>4, <1>5, <1>6, <1>7

LEMMA SlaveKeeps ==
  ASSUME IInv, NEW s \in Slaves, SlaveStep(s) \/ SlaveReset(s)
  PROVE  IInv'
BY QuietClock, AccessClock, ApbDataStep, ResetStep, Zenon
   DEF SlaveStep, WriteStep, ReadStep, ApbStep

-------------------------------------------------------------------------------
(* The steps of a software thread.                                          *)
PCs == {"idle", "lock", "try", "unlock", "wait", "return"}

LEMMA GoTypes ==
  ASSUME TypeOK, NEW c \in Clients, NEW place \in PCs, Go(c, place)
  PROVE  /\ pc' \in [Clients -> PCs] /\ pc'[c] = place
         /\ \A b \in Clients \ {c} : pc'[b] = pc[b]
BY DEF TypeOK, Go, PCs

(* A thread that stays in, or stays out, leaves the lock as it is.          *)
LEMMA SamePlace ==
  ASSUME LockOK, m_LockSW' = m_LockSW, Inside' = Inside
  PROVE  LockOK'
BY DEF LockOK

(* The thread that is inside is alone: only it can be owed something.       *)
LEMMA AloneInside ==
  ASSUME IInv, NEW c \in Clients, c \in Inside
  PROVE  /\ m_LockSW = 0
         /\ \A b \in Clients \ {c} : pc[b] \in {"idle", "lock"}
         /\ \A s \in Slaves : Asked(s) <=> pc[c] \in {"unlock", "wait"} /\ Slave(c) = s
<1>1. m_LockSW = 0
  BY DEF IInv, LockOK, TypeOK
<1>2. \A b \in Clients \ {c} : b \notin Inside /\ pc[b] \in PCs
  BY DEF IInv, LockOK, TypeOK, PCs
<1>3. \A b \in Clients \ {c} : pc[b] \in {"idle", "lock"}
  BY <1>2 DEF Inside, PCs
<1>4. \A s \in Slaves : Asked(s) <=> pc[c] \in {"unlock", "wait"} /\ Slave(c) = s
  BY <1>3 DEF Asked
<1> QED  BY <1>1, <1>3, <1>4

LEMMA CallStep ==
  ASSUME IInv, NEW c \in Clients, NEW o \in Ops, Call(c, o)
  PROVE  IInv'
<1>1. /\ pc[c] = "idle" /\ pc' = [pc EXCEPT ![c] = "lock"]
      /\ op' = [op EXCEPT ![c] = o] /\ ret' = [ret EXCEPT ![c] = NoData]
      /\ UNCHANGED <<m_LockSW, reqVars, busVars, maxiVars, engVars, mem>>
  BY DEF Call, Go
<1>2. pc \in [Clients -> PCs] /\ op \in [Clients -> Ops]
  BY DEF IInv, TypeOK, PCs
<1>3. TypeOK'
  BY <1>1, <1>2 DEF IInv, TypeOK, reqVars, busVars, maxiVars, engVars, PCs
<1>4. LockOK'
  <2>1. Inside' = Inside
    BY <1>1, <1>2 DEF Inside
  <2> QED  BY <1>1, <2>1, SamePlace DEF IInv
<1>5. AckOK'
  <2> SUFFICES ASSUME NEW s \in Slaves  PROVE Owed(s)' = N(Asked(s))'
    BY DEF AckOK
  <2>1. N(Asked(s))' = N(Asked(s))
    BY <1>1, <1>2 DEF Asked, Slave, N
  <2>2. Owed(s)' = Owed(s)
    BY <1>1 DEF Owed, reqVars
  <2> QED  BY <2>1, <2>2 DEF IInv, AckOK
<1>6. HoldLedger'
  <2>1. {x \in Clients : pc'[x] = "unlock"} = {x \in Clients : pc[x] = "unlock"}
    BY <1>1, <1>2
  <2> QED  BY <1>1, <2>1 DEF HoldLedger, IInv, reqVars, engVars
<1>7. MachineOK'
  BY <1>1 DEF IInv, MachineOK, reqVars, busVars
<1> QED  BY <1>3, <1>4, <1>5, <1>6, <1>7 DEF IInv

LEMMA LockStep ==
  ASSUME IInv, NEW c \in Clients, LockSW(c)
  PROVE  IInv'
<1>1. /\ pc[c] = "lock" /\ pc' = [pc EXCEPT ![c] = "try"]
      /\ m_LockSW = 1 /\ m_LockSW' = 0
      /\ UNCHANGED <<op, ret, reqVars, busVars, maxiVars, engVars, mem>>
  <2>1. m_LockSW \in {0, 1} /\ m_LockSW > 0 /\ m_LockSW' = m_LockSW - 1
    BY DEF IInv, TypeOK, LockSW
  <2>2. m_LockSW = 1 /\ m_LockSW' = 0
    BY <2>1
  <2> QED  BY <2>2 DEF LockSW, Go
<1>2. pc \in [Clients -> PCs] /\ op \in [Clients -> Ops]
  BY DEF IInv, TypeOK, PCs
<1>3. TypeOK'
  BY <1>1, <1>2 DEF IInv, TypeOK, reqVars, busVars, maxiVars, engVars, PCs
<1>4. LockOK'
  <2>1. Inside = {}
    BY <1>1 DEF IInv, LockOK
  <2>2. Inside' = {c}
    BY <1>1, <1>2, <2>1 DEF Inside
  <2> QED  BY <1>1, <2>2 DEF LockOK
<1>5. AckOK'
  <2> SUFFICES ASSUME NEW s \in Slaves  PROVE Owed(s)' = N(Asked(s))'
    BY DEF AckOK
  <2>1. N(Asked(s))' = N(Asked(s))
    BY <1>1, <1>2 DEF Asked, Slave, N
  <2>2. Owed(s)' = Owed(s)
    BY <1>1 DEF Owed, reqVars
  <2> QED  BY <2>1, <2>2 DEF IInv, AckOK
<1>6. HoldLedger'
  <2>1. {x \in Clients : pc'[x] = "unlock"} = {x \in Clients : pc[x] = "unlock"}
    BY <1>1, <1>2
  <2> QED  BY <1>1, <2>1 DEF HoldLedger, IInv, reqVars, engVars
<1>7. MachineOK'
  BY <1>1 DEF IInv, MachineOK, reqVars, busVars
<1> QED  BY <1>3, <1>4, <1>5, <1>6, <1>7 DEF IInv

(* The request is published: the thread becomes one that has asked.         *)
LEMMA TryWriteStep ==
  ASSUME IInv, NEW c \in Clients, TryWrite(c)
  PROVE  IInv'
<1> DEFINE t == Slave(c)
           q == [bEnable |-> TRUE, bWait |-> FALSE,
                 addr |-> op[c].addr, data |-> op[c].data]
<1>1. /\ pc[c] = "try" /\ pc' = [pc EXCEPT ![c] = "unlock"]
      /\ m_Write' = [m_Write EXCEPT ![t] = q]
      /\ ~ m_Write[t].bEnable
      /\ UNCHANGED <<m_LockSW, op, ret, m_Read, m_LockBusAck, busVars, maxiVars,
                     engVars, mem>>
  BY DEF TryWrite, WriteFree, Go
<1>2. /\ pc \in [Clients -> PCs] /\ op[c] \in Ops /\ t \in Slaves
      /\ m_Write \in [Slaves -> Requests] /\ m_Read \in [Slaves -> Requests]
      /\ m_LockBusAck \in [Slaves -> Nat] /\ hold \in Int
  BY OpTypes, SlavesAssumption DEF IInv, TypeOK, PCs, Slave
<1>3. q \in Requests /\ q.bEnable = TRUE /\ q.bWait = FALSE
  BY <1>2, OpTypes DEF Requests
<1> HIDE DEF q, t
<1>4. /\ m_Write' \in [Slaves -> Requests] /\ m_Write'[t] = q
      /\ \A x \in Slaves \ {t} : m_Write'[x] = m_Write[x]
      /\ pc' \in [Clients -> PCs] /\ pc'[c] = "unlock"
      /\ \A b \in Clients \ {c} : pc'[b] = pc[b]
  BY <1>1, <1>2, <1>3 DEF PCs
<1>5. TypeOK'
  BY <1>1, <1>4 DEF IInv, TypeOK, busVars, maxiVars, engVars, PCs
<1>6. LockOK'
  <2>1. Inside' = Inside
    BY <1>1, <1>2, <1>4 DEF Inside
  <2> QED  BY <1>1, <2>1, SamePlace DEF IInv
<1>7. c \in Inside /\ c \in Inside'
  BY <1>1, <1>4 DEF Inside
<1>8. AckOK'
  <2> SUFFICES ASSUME NEW s \in Slaves  PROVE Owed(s)' = N(Asked(s))'
    BY DEF AckOK
  <2>1. ~ Asked(s)
    BY <1>1, <1>7, AloneInside
  <2>2. Asked(s)' <=> s = t
    BY <1>1, <1>4, <1>7, AloneInside DEF Asked, Slave, t
  <2>3. Owed(s) = 0
    BY <2>1 DEF IInv, AckOK, N
  <2>4. /\ m_LockBusAck[s] = 0
        /\ ~ (m_Read[s].bEnable /\ ~m_Read[s].bWait)
        /\ ~ (m_Write[s].bEnable /\ ~m_Write[s].bWait)
    BY <1>2, <2>3 DEF Owed, N
  <2>5. CASE s = t
    BY <1>1, <1>3, <1>4, <2>2, <2>4, <2>5 DEF Owed, N
  <2>6. CASE s # t
    BY <1>1, <1>4, <2>2, <2>4, <2>6 DEF Owed, N
  <2> QED  BY <2>5, <2>6
<1>9. HoldLedger'
  <2>1. (hold' - N(engine' = "lock")) - (hold - N(engine = "lock")) =
           (N(Enabled(m_Write', t)) - N(Enabled(m_Write, t)))
             + (N(Enabled(m_Read', t)) - N(Enabled(m_Read, t)))
             - (N(Between(c)') - N(Between(c)))
    BY <1>1, <1>2, <1>3, <1>4 DEF N, Enabled, Between, engVars
  <2>2. /\ \A x \in Slaves \ {t} : /\ m_Write'[x].bEnable = m_Write[x].bEnable
                                   /\ m_Read'[x].bEnable = m_Read[x].bEnable
        /\ \A b \in Clients \ {c} : (pc'[b] = "unlock") = (pc[b] = "unlock")
        /\ hold' \in Int
    BY <1>1, <1>2, <1>4 DEF engVars
  <2> QED  BY <2>1, <2>2, LedgerChange, Zenon DEF IInv
<1>10. MachineOK'
  <2>1. \A x \in Slaves : /\ m_Write[x].bEnable => m_Write'[x].bEnable
                          /\ m_Read[x].bEnable => m_Read'[x].bEnable
    BY <1>1, <1>3, <1>4
  <2> QED  BY <1>1, <2>1, MachineRequest DEF IInv
<1> QED  BY <1>5, <1>6, <1>8, <1>9, <1>10 DEF IInv

LEMMA TryReadStep ==
  ASSUME IInv, NEW c \in Clients, TryRead(c)
  PROVE  IInv'
<1> DEFINE t == Slave(c)
           q == [m_Read[t] EXCEPT !.bEnable = TRUE, !.bWait = FALSE, !.addr = op[c].addr]
<1>1. /\ pc[c] = "try" /\ pc' = [pc EXCEPT ![c] = "unlock"]
      /\ m_Read' = [m_Read EXCEPT ![t] = q]
      /\ ~ m_Read[t].bEnable
      /\ UNCHANGED <<m_LockSW, op, ret, m_Write, m_LockBusAck, busVars, maxiVars,
                     engVars, mem>>
  BY DEF TryRead, ReadFree, Go
<1>2. /\ pc \in [Clients -> PCs] /\ op[c] \in Ops /\ t \in Slaves
      /\ m_Read \in [Slaves -> Requests] /\ m_Write \in [Slaves -> Requests]
      /\ m_LockBusAck \in [Slaves -> Nat] /\ hold \in Int
  BY OpTypes, SlavesAssumption DEF IInv, TypeOK, PCs, Slave
<1>3. q \in Requests /\ q.bEnable = TRUE /\ q.bWait = FALSE
  BY <1>2, OpTypes DEF Requests
<1> HIDE DEF q, t
<1>4. /\ m_Read' \in [Slaves -> Requests] /\ m_Read'[t] = q
      /\ \A x \in Slaves \ {t} : m_Read'[x] = m_Read[x]
      /\ pc' \in [Clients -> PCs] /\ pc'[c] = "unlock"
      /\ \A b \in Clients \ {c} : pc'[b] = pc[b]
  BY <1>1, <1>2, <1>3 DEF PCs
<1>5. TypeOK'
  BY <1>1, <1>4 DEF IInv, TypeOK, busVars, maxiVars, engVars, PCs
<1>6. LockOK'
  <2>1. Inside' = Inside
    BY <1>1, <1>2, <1>4 DEF Inside
  <2> QED  BY <1>1, <2>1, SamePlace DEF IInv
<1>7. c \in Inside /\ c \in Inside'
  BY <1>1, <1>4 DEF Inside
<1>8. AckOK'
  <2> SUFFICES ASSUME NEW s \in Slaves  PROVE Owed(s)' = N(Asked(s))'
    BY DEF AckOK
  <2>1. ~ Asked(s)
    BY <1>1, <1>7, AloneInside
  <2>2. Asked(s)' <=> s = t
    BY <1>1, <1>4, <1>7, AloneInside DEF Asked, Slave, t
  <2>3. Owed(s) = 0
    BY <2>1 DEF IInv, AckOK, N
  <2>4. /\ m_LockBusAck[s] = 0
        /\ ~ (m_Write[s].bEnable /\ ~m_Write[s].bWait)
        /\ ~ (m_Read[s].bEnable /\ ~m_Read[s].bWait)
    BY <1>2, <2>3 DEF Owed, N
  <2>5. CASE s = t
    BY <1>1, <1>3, <1>4, <2>2, <2>4, <2>5 DEF Owed, N
  <2>6. CASE s # t
    BY <1>1, <1>4, <2>2, <2>4, <2>6 DEF Owed, N
  <2> QED  BY <2>5, <2>6
<1>9. HoldLedger'
  <2>1. (hold' - N(engine' = "lock")) - (hold - N(engine = "lock")) =
           (N(Enabled(m_Write', t)) - N(Enabled(m_Write, t)))
             + (N(Enabled(m_Read', t)) - N(Enabled(m_Read, t)))
             - (N(Between(c)') - N(Between(c)))
    BY <1>1, <1>2, <1>3, <1>4 DEF N, Enabled, Between, engVars
  <2>2. /\ \A x \in Slaves \ {t} : /\ m_Read'[x].bEnable = m_Read[x].bEnable
                                   /\ m_Write'[x].bEnable = m_Write[x].bEnable
        /\ \A b \in Clients \ {c} : (pc'[b] = "unlock") = (pc[b] = "unlock")
        /\ hold' \in Int
    BY <1>1, <1>2, <1>4 DEF engVars
  <2> QED  BY <2>1, <2>2, LedgerChange, Zenon DEF IInv
<1>10. MachineOK'
  <2>1. \A x \in Slaves : /\ m_Read[x].bEnable => m_Read'[x].bEnable
                          /\ m_Write[x].bEnable => m_Write'[x].bEnable
    BY <1>1, <1>3, <1>4
  <2> QED  BY <1>1, <2>1, MachineRequest DEF IInv
<1> QED  BY <1>5, <1>6, <1>8, <1>9, <1>10 DEF IInv

LEMMA UnlockSum ==
  ASSUME NEW h \in Int, NEW e \in Int, NEW w \in Int, NEW r \in Int
  PROVE  ((h + 1) - e) - (h - e) = (w - w) + (r - r) - (0 - 1)
<1>1. ((h + 1) - e) - (h - e) = 1
  OBVIOUS
<1>2. w - w = 0 /\ r - r = 0
  OBVIOUS
<1>3. 0 + 0 - (0 - 1) = 1
  OBVIOUS
<1> QED  BY <1>1, <1>2, <1>3, Zenon

LEMMA UnlockStep ==
  ASSUME IInv, NEW c \in Clients, Unlock(c)
  PROVE  IInv'
<1>1. /\ pc[c] = "unlock" /\ pc' = [pc EXCEPT ![c] = "wait"]
      /\ hold' = hold + 1
      /\ UNCHANGED <<m_LockSW, op, ret, reqVars, busVars, maxiVars, engine, mem>>
  BY DEF Unlock, Go
<1>2. pc \in [Clients -> PCs] /\ hold \in Int
  BY DEF IInv, TypeOK, PCs
<1>3. TypeOK'
  BY <1>1, <1>2 DEF IInv, TypeOK, reqVars, busVars, maxiVars, PCs
<1>4. LockOK'
  <2>1. Inside' = Inside
    BY <1>1, <1>2 DEF Inside
  <2> QED  BY <1>1, <2>1, SamePlace DEF IInv
<1>5. AckOK'
  <2> SUFFICES ASSUME NEW s \in Slaves  PROVE Owed(s)' = N(Asked(s))'
    BY DEF AckOK
  <2>1. N(Asked(s))' = N(Asked(s))
    BY <1>1, <1>2 DEF Asked, Slave, N
  <2>2. Owed(s)' = Owed(s)
    BY <1>1 DEF Owed, reqVars
  <2> QED  BY <2>1, <2>2 DEF IInv, AckOK
<1>6. HoldLedger'
  <2> DEFINE s == Slave(c)
  <2> HIDE DEF s
  <2>0. m_Write' = m_Write /\ m_Read' = m_Read /\ engine' = engine
    BY <1>1 DEF reqVars
  <2>1. (hold' - N(engine' = "lock")) - (hold - N(engine = "lock")) =
           (N(Enabled(m_Write', s)) - N(Enabled(m_Write, s)))
             + (N(Enabled(m_Read', s)) - N(Enabled(m_Read, s)))
             - (N(Between(c)') - N(Between(c)))
    <3>1. N(Between(c)) = 1 /\ N(Between(c)') = 0
      BY <1>1, <1>2 DEF N, Between
    <3>2. N(Enabled(m_Write', s)) = N(Enabled(m_Write, s)) /\ N(Enabled(m_Write, s)) \in Int
      BY <2>0 DEF N, Enabled
    <3>3. N(Enabled(m_Read', s)) = N(Enabled(m_Read, s)) /\ N(Enabled(m_Read, s)) \in Int
      BY <2>0 DEF N, Enabled
    <3>4. N(engine' = "lock") = N(engine = "lock") /\ N(engine = "lock") \in Int
      BY <2>0 DEF N
    <3>5. hold' = hold + 1 /\ hold \in Int
      BY <1>1, <1>2
    <3>6. ((hold + 1) - N(engine = "lock")) - (hold - N(engine = "lock")) =
             (N(Enabled(m_Write, s)) - N(Enabled(m_Write, s)))
               + (N(Enabled(m_Read, s)) - N(Enabled(m_Read, s))) - (0 - 1)
      <4>1. /\ hold \in Int /\ N(engine = "lock") \in Int
            /\ N(Enabled(m_Write, s)) \in Int /\ N(Enabled(m_Read, s)) \in Int
        BY <3>2, <3>3, <3>4, <3>5, Zenon
      <4> QED  BY <4>1, UnlockSum
    <3>7. /\ hold' - N(engine' = "lock") = (hold + 1) - N(engine = "lock")
          /\ N(Between(c)') - N(Between(c)) = 0 - 1
      BY <3>1, <3>4, <3>5, Zenon
    <3> QED  BY <3>2, <3>3, <3>6, <3>7
  <2>2. /\ \A x \in Slaves \ {s} : /\ m_Write'[x].bEnable = m_Write[x].bEnable
                                   /\ m_Read'[x].bEnable = m_Read[x].bEnable
        /\ \A b \in Clients \ {c} : (pc'[b] = "unlock") = (pc[b] = "unlock")
        /\ hold' \in Int
    BY <1>1, <1>2 DEF reqVars
  <2> QED  BY <2>1, <2>2, LedgerChange, Zenon DEF IInv
<1>7. MachineOK'
  BY <1>1 DEF IInv, MachineOK, reqVars, busVars
<1> QED  BY <1>3, <1>4, <1>5, <1>6, <1>7 DEF IInv

(* The thread takes the acknowledge it was owed, and nothing is owed then.  *)
LEMMA AckDownStep ==
  ASSUME IInv, NEW c \in Clients, AckDown(c)
  PROVE  IInv'
<1> DEFINE t == Slave(c)
<1>1. /\ pc[c] = "wait" /\ pc' = [pc EXCEPT ![c] = "return"]
      /\ m_LockBusAck[t] > 0
      /\ m_LockBusAck' = [m_LockBusAck EXCEPT ![t] = @ - 1]
      /\ UNCHANGED <<m_LockSW, op, ret, m_Write, m_Read, busVars, maxiVars,
                     engVars, mem>>
  BY DEF AckDown, Go
<1>2. /\ pc \in [Clients -> PCs] /\ t \in Slaves /\ m_LockBusAck \in [Slaves -> Nat]
  BY OpTypes, SlavesAssumption DEF IInv, TypeOK, PCs, Slave
<1> HIDE DEF t
<1>3. /\ pc' \in [Clients -> PCs] /\ pc'[c] = "return"
      /\ \A b \in Clients \ {c} : pc'[b] = pc[b]
      /\ m_LockBusAck[t] - 1 \in Nat
      /\ m_LockBusAck' \in [Slaves -> Nat]
      /\ m_LockBusAck'[t] = m_LockBusAck[t] - 1
      /\ \A x \in Slaves \ {t} : m_LockBusAck'[x] = m_LockBusAck[x]
  BY <1>1, <1>2 DEF PCs
<1>4. TypeOK'
  BY <1>1, <1>3 DEF IInv, TypeOK, busVars, maxiVars, engVars, PCs
<1>5. LockOK'
  <2>1. Inside' = Inside
    BY <1>1, <1>2, <1>3 DEF Inside
  <2> QED  BY <1>1, <2>1, SamePlace DEF IInv
<1>6. c \in Inside
  BY <1>1 DEF Inside
<1>7. AckOK'
  <2> SUFFICES ASSUME NEW s \in Slaves  PROVE Owed(s)' = N(Asked(s))'
    BY DEF AckOK
  <2>1. Asked(s) <=> s = t
    BY <1>1, <1>6, AloneInside DEF t
  <2>2. ~ Asked(s)'
    BY <1>3, <1>6, AloneInside DEF Asked
  <2>3. CASE s = t
    <3>1. /\ Owed(s) = 1 /\ m_LockBusAck[s] \in Nat /\ m_LockBusAck[s] > 0
          /\ m_LockBusAck'[s] = m_LockBusAck[s] - 1
      BY <1>1, <1>2, <1>3, <2>1, <2>3 DEF IInv, AckOK, N
    <3>2. /\ m_LockBusAck'[s] = 0
          /\ ~ (m_Read[s].bEnable /\ ~m_Read[s].bWait)
          /\ ~ (m_Write[s].bEnable /\ ~m_Write[s].bWait)
      BY <3>1 DEF Owed, N
    <3> QED  BY <1>1, <2>2, <3>2 DEF Owed, N
  <2>4. CASE s # t
    <3>1. Owed(s) = 0
      BY <2>1, <2>4 DEF IInv, AckOK, N
    <3>2. Owed(s)' = Owed(s)
      BY <1>1, <1>3, <2>4 DEF Owed
    <3> QED  BY <2>2, <3>1, <3>2 DEF N
  <2> QED  BY <2>3, <2>4
<1>8. HoldLedger'
  <2>1. {x \in Clients : pc'[x] = "unlock"} = {x \in Clients : pc[x] = "unlock"}
    BY <1>1, <1>3
  <2> QED  BY <1>1, <2>1 DEF HoldLedger, IInv, engVars
<1>9. MachineOK'
  BY <1>1 DEF IInv, MachineOK, busVars
<1> QED  BY <1>4, <1>5, <1>7, <1>8, <1>9 DEF IInv

LEMMA ReturnStep ==
  ASSUME IInv, NEW c \in Clients, Return(c)
  PROVE  IInv'
<1>1. /\ pc[c] = "return" /\ pc' = [pc EXCEPT ![c] = "idle"]
      /\ ret' = [ret EXCEPT ![c] =
           IF op[c].kind = "read" THEN m_Read[Slave(c)].data ELSE NoData]
      /\ m_LockSW' = m_LockSW + 1
      /\ op' = [op EXCEPT ![c] = NoOp]
      /\ UNCHANGED <<reqVars, busVars, maxiVars, engVars, mem>>
  BY DEF Return, Go
<1>2. /\ pc \in [Clients -> PCs] /\ op \in [Clients -> Ops] /\ Slave(c) \in Slaves
      /\ ret \in [Clients -> Data \cup {NoData}]
      /\ m_Read \in [Slaves -> Requests]
  BY OpTypes, SlavesAssumption DEF IInv, TypeOK, PCs, Slave
<1>3. c \in Inside
  BY <1>1 DEF Inside
<1>4. /\ m_LockSW' = 1
      /\ pc' \in [Clients -> PCs] /\ pc'[c] = "idle"
      /\ \A b \in Clients \ {c} : pc'[b] = pc[b] /\ op'[b] = op[b]
      /\ op' \in [Clients -> Ops]
  BY <1>1, <1>2, <1>3, AloneInside, AnyTypes DEF PCs
<1>5. ret' \in [Clients -> Data \cup {NoData}]
  <2>1. m_Read[Slave(c)].data \in Data
    BY <1>2 DEF Requests
  <2> QED  BY <1>1, <1>2, <2>1
<1>6. TypeOK'
  BY <1>1, <1>4, <1>5 DEF IInv, TypeOK, reqVars, busVars, maxiVars, engVars, PCs
<1>7. LockOK'
  <2>1. Inside' = {}
    BY <1>3, <1>4, AloneInside DEF Inside
  <2> QED  BY <2>1 DEF LockOK
<1>8. AckOK'
  <2> SUFFICES ASSUME NEW s \in Slaves  PROVE Owed(s)' = N(Asked(s))'
    BY DEF AckOK
  <2>1. N(Asked(s))' = N(Asked(s))
    BY <1>1, <1>4 DEF Asked, Slave, N
  <2>2. Owed(s)' = Owed(s)
    BY <1>1 DEF Owed, reqVars
  <2> QED  BY <2>1, <2>2 DEF IInv, AckOK
<1>9. HoldLedger'
  <2>1. {x \in Clients : pc'[x] = "unlock"} = {x \in Clients : pc[x] = "unlock"}
    BY <1>1, <1>4
  <2> QED  BY <1>1, <2>1 DEF HoldLedger, IInv, reqVars, engVars
<1>10. MachineOK'
  BY <1>1 DEF IInv, MachineOK, reqVars, busVars
<1> QED  BY <1>6, <1>7, <1>8, <1>9, <1>10 DEF IInv

LEMMA ClientKeeps ==
  ASSUME IInv, NEW c \in Clients, ClientStep(c)
  PROVE  IInv'
BY CallStep, LockStep, TryWriteStep, TryReadStep, UnlockStep, AckDownStep,
   ReturnStep, Zenon DEF ClientStep

(* A hardware write holds the engine by itself, and nobody is owed more.    *)
LEMMA RequestWriteStep ==
  ASSUME IInv, NEW m \in Channels, RequestWrite(m)
  PROVE  IInv'
<1> DEFINE t == Target(m)
           q == [bEnable |-> TRUE, bWait |-> TRUE,
                 addr |-> desc[m].addr, data |-> desc[m].data]
<1>1. /\ m_Write' = [m_Write EXCEPT ![t] = q]
      /\ ~ m_Write[t].bEnable
      /\ hold' = hold + 1
      /\ status' = [status EXCEPT ![m] = "wait"]
      /\ UNCHANGED <<swVars, m_Read, m_LockBusAck, busVars, desc, engine, mem>>
  BY DEF RequestWrite, WriteFree, Advance
<1>2. /\ desc[m] \in Ops /\ t \in Slaves /\ hold \in Int
      /\ m_Write \in [Slaves -> Requests] /\ m_Read \in [Slaves -> Requests]
      /\ status \in [Channels -> {"none", "request", "wait", "done"}]
  BY OpTypes, SlavesAssumption DEF IInv, TypeOK, Target
<1>3. q \in Requests /\ q.bEnable = TRUE /\ q.bWait = TRUE
  BY <1>2, OpTypes DEF Requests
<1> HIDE DEF q, t
<1>4. /\ m_Write' \in [Slaves -> Requests] /\ m_Write'[t] = q
      /\ \A x \in Slaves \ {t} : m_Write'[x] = m_Write[x]
  BY <1>1, <1>2, <1>3
<1>5. TypeOK'
  <2>1. status' \in [Channels -> {"none", "request", "wait", "done"}] /\ hold' \in Int
    BY <1>1, <1>2
  <2> QED  BY <1>1, <1>4, <2>1 DEF IInv, TypeOK, swVars, busVars
<1>6. LockOK'
  BY <1>1 DEF IInv, LockOK, Inside, swVars
<1>7. AckOK'
  <2> SUFFICES ASSUME NEW s \in Slaves  PROVE Owed(s)' = N(Asked(s))'
    BY DEF AckOK
  <2>1. N(Asked(s))' = N(Asked(s))
    BY <1>1 DEF Asked, Slave, swVars, N
  <2>2. N(m_Write'[s].bEnable /\ ~m_Write'[s].bWait) = N(m_Write[s].bEnable /\ ~m_Write[s].bWait)
    BY <1>1, <1>3, <1>4 DEF N
  <2>3. Owed(s)' = Owed(s)
    BY <1>1, <2>2 DEF Owed
  <2> QED  BY <2>1, <2>3 DEF IInv, AckOK
<1>8. HoldLedger'
  <2> DEFINE c == CHOOSE x : TRUE
  <2> HIDE DEF c
  <2>1. (hold' - N(engine' = "lock")) - (hold - N(engine = "lock")) =
           (N(Enabled(m_Write', t)) - N(Enabled(m_Write, t)))
             + (N(Enabled(m_Read', t)) - N(Enabled(m_Read, t)))
             - (N(Between(c)') - N(Between(c)))
    BY <1>1, <1>2, <1>3, <1>4 DEF N, Enabled, Between, swVars
  <2>2. /\ \A x \in Slaves \ {t} : /\ m_Write'[x].bEnable = m_Write[x].bEnable
                                   /\ m_Read'[x].bEnable = m_Read[x].bEnable
        /\ \A b \in Clients \ {c} : (pc'[b] = "unlock") = (pc[b] = "unlock")
        /\ hold' \in Int
    BY <1>1, <1>2, <1>4 DEF swVars
  <2> QED  BY <2>1, <2>2, LedgerChange, Zenon DEF IInv
<1>9. MachineOK'
  <2>1. \A x \in Slaves : /\ m_Write[x].bEnable => m_Write'[x].bEnable
                          /\ m_Read[x].bEnable => m_Read'[x].bEnable
    BY <1>1, <1>3, <1>4
  <2> QED  BY <1>1, <2>1, MachineRequest DEF IInv
<1> QED  BY <1>5, <1>6, <1>7, <1>8, <1>9 DEF IInv

LEMMA RequestReadStep ==
  ASSUME IInv, NEW m \in Channels, RequestRead(m)
  PROVE  IInv'
<1> DEFINE t == Target(m)
           q == [m_Read[t] EXCEPT !.bEnable = TRUE, !.bWait = TRUE, !.addr = desc[m].addr]
<1>1. /\ m_Read' = [m_Read EXCEPT ![t] = q]
      /\ ~ m_Read[t].bEnable
      /\ hold' = hold + 1
      /\ status' = [status EXCEPT ![m] = "wait"]
      /\ UNCHANGED <<swVars, m_Write, m_LockBusAck, busVars, desc, engine, mem>>
  BY DEF RequestRead, Advance
<1>2. /\ desc[m] \in Ops /\ t \in Slaves /\ hold \in Int
      /\ m_Read \in [Slaves -> Requests] /\ m_Write \in [Slaves -> Requests]
      /\ status \in [Channels -> {"none", "request", "wait", "done"}]
  BY OpTypes, SlavesAssumption DEF IInv, TypeOK, Target
<1>3. q \in Requests /\ q.bEnable = TRUE /\ q.bWait = TRUE
  BY <1>2, OpTypes DEF Requests
<1> HIDE DEF q, t
<1>4. /\ m_Read' \in [Slaves -> Requests] /\ m_Read'[t] = q
      /\ \A x \in Slaves \ {t} : m_Read'[x] = m_Read[x]
  BY <1>1, <1>2, <1>3
<1>5. TypeOK'
  <2>1. status' \in [Channels -> {"none", "request", "wait", "done"}] /\ hold' \in Int
    BY <1>1, <1>2
  <2> QED  BY <1>1, <1>4, <2>1 DEF IInv, TypeOK, swVars, busVars
<1>6. LockOK'
  BY <1>1 DEF IInv, LockOK, Inside, swVars
<1>7. AckOK'
  <2> SUFFICES ASSUME NEW s \in Slaves  PROVE Owed(s)' = N(Asked(s))'
    BY DEF AckOK
  <2>1. N(Asked(s))' = N(Asked(s))
    BY <1>1 DEF Asked, Slave, swVars, N
  <2>2. N(m_Read'[s].bEnable /\ ~m_Read'[s].bWait) = N(m_Read[s].bEnable /\ ~m_Read[s].bWait)
    BY <1>1, <1>3, <1>4 DEF N
  <2>3. Owed(s)' = Owed(s)
    BY <1>1, <2>2 DEF Owed
  <2> QED  BY <2>1, <2>3 DEF IInv, AckOK
<1>8. HoldLedger'
  <2> DEFINE c == CHOOSE x : TRUE
  <2> HIDE DEF c
  <2>1. (hold' - N(engine' = "lock")) - (hold - N(engine = "lock")) =
           (N(Enabled(m_Write', t)) - N(Enabled(m_Write, t)))
             + (N(Enabled(m_Read', t)) - N(Enabled(m_Read, t)))
             - (N(Between(c)') - N(Between(c)))
    BY <1>1, <1>2, <1>3, <1>4 DEF N, Enabled, Between, swVars
  <2>2. /\ \A x \in Slaves \ {t} : /\ m_Read'[x].bEnable = m_Read[x].bEnable
                                   /\ m_Write'[x].bEnable = m_Write[x].bEnable
        /\ \A b \in Clients \ {c} : (pc'[b] = "unlock") = (pc[b] = "unlock")
        /\ hold' \in Int
    BY <1>1, <1>2, <1>4 DEF swVars
  <2> QED  BY <2>1, <2>2, LedgerChange, Zenon DEF IInv
<1>9. MachineOK'
  <2>1. \A x \in Slaves : /\ m_Read[x].bEnable => m_Read'[x].bEnable
                          /\ m_Write[x].bEnable => m_Write'[x].bEnable
    BY <1>1, <1>3, <1>4
  <2> QED  BY <1>1, <2>1, MachineRequest DEF IInv
<1> QED  BY <1>5, <1>6, <1>7, <1>8, <1>9 DEF IInv

LEMMA MaxiQuiet ==
  ASSUME IInv, NEW m \in Channels,
         (\E o \in Ops : MaxiStart(m, o)) \/ WaitWrite(m) \/ MaxiReset(m)
  PROVE  IInv'
<1>1. /\ desc \in [Channels -> Ops]
      /\ status \in [Channels -> {"none", "request", "wait", "done"}]
      /\ m_Write \in [Slaves -> Requests]
  BY DEF IInv, TypeOK
<1>2. /\ UNCHANGED <<swVars, m_Read, m_LockBusAck, busVars, engVars, mem>>
      /\ \E st \in {"none", "request", "done"}, o \in Ops :
           status' = [status EXCEPT ![m] = st] /\ desc' = [desc EXCEPT ![m] = o]
      /\ \/ m_Write' = m_Write
         \/ /\ m_Write' = [m_Write EXCEPT ![Target(m)].bWait = FALSE]
            /\ ~ m_Write[Target(m)].bEnable
  <2>1. CASE \E o \in Ops : MaxiStart(m, o)
    BY <2>1 DEF MaxiStart, Advance, reqVars
  <2>2. CASE WaitWrite(m)
    BY <2>2, AnyTypes DEF WaitWrite, Advance
  <2>3. CASE MaxiReset(m)
    BY <2>3, AnyTypes DEF MaxiReset, Advance, reqVars
  <2> QED  BY <2>1, <2>2, <2>3
<1>3. /\ m_Write' \in [Slaves -> Requests]
      /\ \A x \in Slaves : /\ m_Write'[x].bEnable = m_Write[x].bEnable
                           /\ m_Write[x].bEnable => m_Write'[x].bWait = m_Write[x].bWait
  <2>1. CASE m_Write' = m_Write
    BY <1>1, <2>1
  <2>2. CASE /\ m_Write' = [m_Write EXCEPT ![Target(m)].bWait = FALSE]
             /\ ~ m_Write[Target(m)].bEnable
    <3>1. m_Write' = [m_Write EXCEPT ![Target(m)] = [m_Write[Target(m)] EXCEPT !.bWait = FALSE]]
      BY <2>2
    <3>2. \A q \in Requests : /\ [q EXCEPT !.bWait = FALSE] \in Requests
                              /\ [q EXCEPT !.bWait = FALSE].bEnable = q.bEnable
      BY DEF Requests
    <3>3. Target(m) \in Slaves
      BY <1>1, OpTypes, SlavesAssumption DEF Target
    <3> DEFINE t == Target(m)
               q == [m_Write[t] EXCEPT !.bWait = FALSE]
    <3>4. q \in Requests /\ q.bEnable = m_Write[t].bEnable /\ t \in Slaves
      BY <1>1, <3>2, <3>3
    <3>5. m_Write' = [m_Write EXCEPT ![t] = q] /\ ~ m_Write[t].bEnable
      BY <2>2, <3>1
    <3> HIDE DEF t, q
    <3> QED  BY <1>1, <3>4, <3>5
  <2> QED  BY <1>2, <2>1, <2>2
<1>4. TypeOK'
  <2>1. /\ status' \in [Channels -> {"none", "request", "wait", "done"}]
        /\ desc' \in [Channels -> Ops]
    BY <1>1, <1>2
  <2> QED  BY <1>2, <1>3, <2>1 DEF IInv, TypeOK, swVars, busVars, engVars
<1>5. LockOK' /\ AckOK' /\ HoldLedger'
  BY <1>2, <1>3, QuietStep DEF swVars, engVars
<1>6. MachineOK'
  BY <1>2, <1>3, MachineRequest DEF IInv
<1> QED  BY <1>4, <1>5, <1>6 DEF IInv

LEMMA MaxiKeeps ==
  ASSUME IInv, NEW m \in Channels, MaxiStep(m)
  PROVE  IInv'
BY RequestWriteStep, RequestReadStep, MaxiQuiet, Zenon DEF MaxiStep

LEMMA AckLockStep ==
  ASSUME IInv, AckLock
  PROVE  IInv'
<1>1. /\ engine = "lock" /\ engine' = "run" /\ hold' = hold - 1
      /\ UNCHANGED <<swVars, reqVars, busVars, maxiVars, mem>>
  BY DEF AckLock
<1>2. hold \in Int
  BY DEF IInv, TypeOK
<1>3. TypeOK'
  BY <1>1, <1>2 DEF IInv, TypeOK, swVars, reqVars, busVars, maxiVars
<1>4. LockOK'
  BY <1>1 DEF IInv, LockOK, Inside, swVars
<1>5. AckOK'
  <2>1. \A s : Owed(s)' = Owed(s)
    BY <1>1 DEF Owed, reqVars
  <2>2. \A s : N(Asked(s))' = N(Asked(s))
    BY <1>1 DEF Asked, Slave, swVars, N
  <2> QED  BY <2>1, <2>2 DEF IInv, AckOK
<1>6. HoldLedger'
  <2>1. N(engine = "lock") = 1 /\ N(engine' = "lock") = 0
    BY <1>1 DEF N
  <2>2. hold' - N(engine' = "lock") = hold - N(engine = "lock")
    BY <1>1, <1>2, <2>1
  <2> QED  BY <1>1, <2>2, Zenon DEF IInv, HoldLedger, reqVars, swVars
<1>7. MachineOK'
  BY <1>1 DEF IInv, MachineOK, reqVars, busVars
<1> QED  BY <1>3, <1>4, <1>5, <1>6, <1>7 DEF IInv

-------------------------------------------------------------------------------
LEMMA InitIInv == Init => IInv
<1> SUFFICES ASSUME Init  PROVE IInv
  OBVIOUS
<1>1. /\ m_LockSW = 1 /\ m_LockBusAck = [s \in Slaves |-> 0]
      /\ m_Write = [s \in Slaves |-> NoRequest] /\ m_Read = [s \in Slaves |-> NoRequest]
      /\ kind \in [Slaves -> Kinds]
      /\ wstate = [s \in Slaves |-> IF kind[s] = "saxi" THEN "reset" ELSE "idle"]
      /\ rstate = wstate /\ served = {}
      /\ pc = [c \in Clients |-> "idle"] /\ op = [c \in Clients |-> NoOp]
      /\ ret = [c \in Clients |-> NoData]
      /\ status = [m \in Channels |-> "none"] /\ desc = [m \in Channels |-> NoOp]
      /\ engine = "run" /\ hold = 0 /\ mem \in [Regs -> Data]
  BY DEF Init
<1>2. NoRequest \in Requests /\ NoOp \in Ops /\ NoRequest.bEnable = FALSE
  BY AnyTypes DEF NoRequest
<1>3. TypeOK
  <2>1. /\ m_Write \in [Slaves -> Requests] /\ m_Read \in [Slaves -> Requests]
        /\ m_LockBusAck \in [Slaves -> Nat]
    BY <1>1, <1>2
  <2>2. /\ op \in [Clients -> Ops] /\ desc \in [Channels -> Ops]
        /\ ret \in [Clients -> Data \cup {NoData}]
    BY <1>1, <1>2
  <2>3. /\ wstate \in [Slaves -> {"reset", "idle"}] /\ rstate \in [Slaves -> {"reset", "idle"}]
        /\ pc \in [Clients -> {"idle"}] /\ status \in [Channels -> {"none"}]
    BY <1>1
  <2>4. /\ wstate \in [Slaves -> WStates] /\ rstate \in [Slaves -> RStates]
    BY <2>3 DEF WStates, RStates
  <2>5. /\ pc \in [Clients -> PCs] /\ status \in [Channels -> {"none", "request", "wait", "done"}]
    BY <2>3 DEF PCs
  <2> QED  BY <1>1, <2>1, <2>2, <2>4, <2>5 DEF TypeOK, WStates, RStates, PCs
<1>4. LockOK
  BY <1>1 DEF LockOK, Inside
<1>5. AckOK
  BY <1>1, <1>2 DEF AckOK, Owed, Asked, N
<1>6. MachineOK
  BY <1>1 DEF MachineOK
<1>7. HoldLedger
  <2>1. /\ {s \in Slaves : m_Write[s].bEnable} = {} /\ {s \in Slaves : m_Read[s].bEnable} = {}
        /\ {c \in Clients : pc[c] = "unlock"} = {}
    BY <1>1, <1>2
  <2>2. Cardinality({}) = 0 /\ N(engine = "lock") = 0
    BY <1>1, FS_EmptySet DEF N
  <2>3. hold - N(engine = "lock") = 0 + 0 - 0
    BY <1>1, <2>2
  <2> QED  BY <2>1, <2>2, <2>3, Zenon DEF HoldLedger
<1> QED  BY <1>3, <1>4, <1>5, <1>6, <1>7 DEF IInv

LEMMA NextIInv == IInv /\ [Next]_vars => IInv'
<1> SUFFICES ASSUME IInv, [Next]_vars  PROVE IInv'
  OBVIOUS
<1>1. CASE \E c \in Clients : ClientStep(c)
  BY <1>1, ClientKeeps
<1>2. CASE \E s \in Slaves : SlaveStep(s) \/ SlaveReset(s)
  BY <1>2, SlaveKeeps
<1>3. CASE AckLock
  BY <1>3, AckLockStep
<1>4. CASE \E m \in Channels : MaxiStep(m)
  BY <1>4, MaxiKeeps
<1>5. CASE UNCHANGED vars
  <2>1. /\ UNCHANGED <<swVars, reqVars, busVars, maxiVars, engVars, mem>>
    BY <1>5 DEF vars
  <2>2. TypeOK'
    BY <2>1 DEF IInv, TypeOK, swVars, reqVars, busVars, maxiVars, engVars
  <2>3. LockOK' /\ AckOK' /\ HoldLedger'
    BY <2>1, QuietStep DEF swVars, reqVars, engVars
  <2>4. MachineOK'
    BY <2>1 DEF IInv, MachineOK, reqVars, busVars
  <2> QED  BY <2>2, <2>3, <2>4 DEF IInv
<1> QED  BY <1>1, <1>2, <1>3, <1>4, <1>5 DEF Next

LEMMA Invariance == Spec => []IInv
BY InitIInv, NextIInv, PTL DEF Spec

-------------------------------------------------------------------------------
(* Every variable keeps its type (BusSlave.cpp, AXI_Slave_Lite.cpp,         *)
(* APB_Slave.cpp, VirtualSlave.cpp); an acknowledge counter never falls     *)
(* below zero.                                                              *)
THEOREM TypeCorrect == Spec => []TypeOK
<1>1. IInv => TypeOK
  BY DEF IInv
<1> QED  BY Invariance, <1>1, PTL

(* The Unlock()s and Lock(500)s of BusSlave.cpp balance, whatever requests, *)
(* resets and masters there are.                                            *)
THEOREM HoldsBalance == Spec => []HoldLedger
<1>1. IInv => HoldLedger
  BY DEF IInv
<1> QED  BY Invariance, <1>1, PTL

(* An acknowledge in m_LockBusAck is that of the thread that waits for it.  *)
THEOREM AcksBelong == Spec => []AckBelongs
<1>1. IInv => AckBelongs
  <2> SUFFICES ASSUME IInv, NEW s \in Slaves, m_LockBusAck[s] > 0
               PROVE  /\ m_LockBusAck[s] = 1
                      /\ \E c \in Clients : pc[c] \in {"unlock", "wait"} /\ Slave(c) = s
    BY DEF AckBelongs
  <2>1. m_LockBusAck[s] \in Nat /\ Owed(s) = N(Asked(s))
    BY DEF IInv, TypeOK, AckOK
  <2>2. m_LockBusAck[s] = 1 /\ Asked(s)
    BY <2>1 DEF Owed, N
  <2> QED  BY <2>2 DEF Asked
<1> QED  BY Invariance, <1>1, PTL

-------------------------------------------------------------------------------
(* The wait flag of a slave and its owner: only a master's own steps touch  *)
(* them, and a packet stays as it is while the flag is up.                  *)
FlagKept(s) ==
  /\ m_Write'[s].bWait = m_Write[s].bWait
  /\ m_Write[s].bWait => /\ m_Write'[s].addr = m_Write[s].addr
                         /\ m_Write'[s].data = m_Write[s].data
OthersOnly == UNCHANGED <<status, desc>> /\ \A s \in Slaves : FlagKept(s)

LEMMA WriteAckFlag ==
  ASSUME TypeOK, NEW s \in Slaves, WriteAck(s)
  PROVE  \A x \in Slaves : FlagKept(x)
<1>1. m_Write \in [Slaves -> Requests] /\ m_Write' = [m_Write EXCEPT ![s].bEnable = FALSE]
  BY DEF TypeOK, WriteAck
<1>2. m_Write' = [m_Write EXCEPT ![s] = [m_Write[s] EXCEPT !.bEnable = FALSE]]
  BY <1>1
<1>3. \A q \in Requests : /\ [q EXCEPT !.bEnable = FALSE].bWait = q.bWait
                          /\ [q EXCEPT !.bEnable = FALSE].addr = q.addr
                          /\ [q EXCEPT !.bEnable = FALSE].data = q.data
  BY DEF Requests
<1> QED  BY <1>1, <1>2, <1>3 DEF FlagKept

LEMMA OthersStep ==
  ASSUME TypeOK,
         \/ \E c \in Clients : ClientStep(c)
         \/ \E s \in Slaves : SlaveStep(s) \/ SlaveReset(s)
         \/ AckLock
         \/ UNCHANGED vars
  PROVE  OthersOnly
<1>1. CASE \E c \in Clients : ClientStep(c)
  <2>1. PICK c \in Clients : ClientStep(c)
    BY <1>1
  <2>2. CASE TryWrite(c)
    <3> DEFINE t == Slave(c)
               q == [bEnable |-> TRUE, bWait |-> FALSE,
                     addr |-> op[c].addr, data |-> op[c].data]
    <3>1. /\ m_Write' = [m_Write EXCEPT ![t] = q] /\ q.bWait = FALSE
          /\ ~ m_Write[t].bWait /\ UNCHANGED <<status, desc>>
      BY <2>2 DEF TryWrite, WriteFree, maxiVars
    <3>2. m_Write \in [Slaves -> Requests] /\ \A x \in Slaves : m_Write[x].bWait \in BOOLEAN
      BY DEF TypeOK, Requests
    <3> HIDE DEF t, q
    <3> QED  BY <3>1, <3>2 DEF OthersOnly, FlagKept
  <2>3. CASE ~ TryWrite(c)
    <3>1. UNCHANGED <<status, desc, m_Write>>
      BY <2>1, <2>3 DEF ClientStep, Call, LockSW, TryRead, Unlock, AckDown, Return,
                        maxiVars, reqVars
    <3> QED  BY <3>1 DEF OthersOnly, FlagKept
  <2> QED  BY <2>2, <2>3
<1>2. CASE \E s \in Slaves : SlaveStep(s) \/ SlaveReset(s)
  <2>1. PICK s \in Slaves : SlaveStep(s) \/ SlaveReset(s)
    BY <1>2
  <2>2. UNCHANGED <<status, desc>>
    BY <2>1 DEF SlaveStep, WriteStep, ReadStep, ApbStep, SlaveReset, WriteUp, GetWrite,
                WriteControl, WriteResp, ReadUp, GetRead, ReadControl, ReadData, ApbIdle,
                ApbStart, ApbData, ApbAck, VirtualWrite, VirtualRead, VirtualWait,
                VirtualAnswer, Clocked, maxiVars
  <2>3. WriteAck(s) \/ m_Write' = m_Write
    BY <2>1 DEF SlaveStep, WriteStep, ReadStep, ApbStep, SlaveReset, WriteUp, GetWrite,
                WriteControl, WriteResp, ReadUp, GetRead, ReadControl, ReadData, ApbIdle,
                ApbStart, ApbData, ApbAck, VirtualWrite, VirtualRead, VirtualWait,
                VirtualAnswer, ReadAck, NoAccess, reqVars
  <2> QED  BY <2>2, <2>3, WriteAckFlag DEF OthersOnly, FlagKept
<1>3. CASE AckLock \/ UNCHANGED vars
  BY <1>3 DEF AckLock, vars, maxiVars, reqVars, OthersOnly, FlagKept
<1> QED  BY <1>1, <1>2, <1>3

(* A master's step, as the flags and the masters see it.                    *)
Asks(m) ==
  /\ m \in Writers /\ status[m] = "request" /\ ~ m_Write[Target(m)].bWait
  /\ status' = [status EXCEPT ![m] = "wait"] /\ desc' = desc
  /\ m_Write'[Target(m)].bWait
  /\ m_Write'[Target(m)].addr = desc[m].addr /\ m_Write'[Target(m)].data = desc[m].data
  /\ \A s \in Slaves \ {Target(m)} : FlagKept(s)
Collects(m) ==
  /\ status[m] = "wait" /\ m_Write[Target(m)].bWait
  /\ \E o \in Ops : desc' = [desc EXCEPT ![m] = o]
  /\ status' = [status EXCEPT ![m] = "done"]
  /\ ~ m_Write'[Target(m)].bWait
  /\ \A s \in Slaves \ {Target(m)} : FlagKept(s)
Elsewhere(m) ==
  /\ status[m] # "wait" \/ m \in MaxiResets
  /\ \E st \in {"none", "request", "wait"}, o \in Ops :
       /\ st = "wait" => m \in Readers
       /\ status' = [status EXCEPT ![m] = st] /\ desc' = [desc EXCEPT ![m] = o]
  /\ \A s \in Slaves : FlagKept(s)

LEMMA MasterStep ==
  ASSUME TypeOK, NEW m \in Channels, MaxiStep(m)
  PROVE  Asks(m) \/ Collects(m) \/ Elsewhere(m)
<1> DEFINE t == Target(m)
<1>1. /\ m_Write \in [Slaves -> Requests] /\ t \in Slaves /\ desc[m] \in Ops
      /\ desc \in [Channels -> Ops] /\ \A x \in Slaves : m_Write[x].bWait \in BOOLEAN
  BY OpTypes, SlavesAssumption DEF TypeOK, Target, Requests
<1>2. CASE RequestWrite(m)
  <2> DEFINE q == [bEnable |-> TRUE, bWait |-> TRUE,
                   addr |-> desc[m].addr, data |-> desc[m].data]
  <2>1. /\ m \in Writers /\ status[m] = "request" /\ ~ m_Write[t].bWait
        /\ m_Write' = [m_Write EXCEPT ![t] = q]
        /\ status' = [status EXCEPT ![m] = "wait"] /\ desc' = desc
    BY <1>2 DEF RequestWrite, WriteFree, Advance
  <2>2. q.bWait /\ q.addr = desc[m].addr /\ q.data = desc[m].data
    OBVIOUS
  <2> HIDE DEF q
  <2>3. m_Write'[t] = q /\ \A s \in Slaves \ {t} : m_Write'[s] = m_Write[s]
    BY <1>1, <2>1
  <2> QED  BY <2>1, <2>2, <2>3 DEF Asks, FlagKept
<1>3. CASE WaitWrite(m)
  <2> DEFINE q == [m_Write[t] EXCEPT !.bWait = FALSE]
  <2>1. /\ status[m] = "wait" /\ m_Write[t].bWait
        /\ m_Write' = [m_Write EXCEPT ![t] = q]
        /\ status' = [status EXCEPT ![m] = "done"] /\ desc' = [desc EXCEPT ![m] = NoOp]
    BY <1>3 DEF WaitWrite, Advance
  <2>2. q.bWait = FALSE
    BY <1>1 DEF Requests
  <2> HIDE DEF q
  <2>3. m_Write'[t] = q /\ \A s \in Slaves \ {t} : m_Write'[s] = m_Write[s]
    BY <1>1, <2>1
  <2> QED  BY <2>1, <2>2, <2>3, AnyTypes DEF Collects, FlagKept
<1>4. CASE RequestRead(m)
  <2>1. /\ m \in Readers /\ m_Write' = m_Write /\ status[m] = "request"
        /\ status' = [status EXCEPT ![m] = "wait"]
        /\ desc' = [desc EXCEPT ![m] = desc[m]]
    BY <1>1, <1>4 DEF RequestRead, Advance
  <2> QED  BY <1>1, <2>1 DEF Elsewhere, FlagKept
<1>5. CASE \E o \in Ops : MaxiStart(m, o)
  BY <1>5 DEF MaxiStart, Advance, reqVars, Elsewhere, FlagKept
<1>6. CASE MaxiReset(m)
  BY <1>6, AnyTypes DEF MaxiReset, Advance, reqVars, Elsewhere, FlagKept
<1> QED  BY <1>2, <1>3, <1>4, <1>5, <1>6 DEF MaxiStep

LEMMA OwnersInit == Init => WaitersOwnSlave /\ WaitHasOwner
BY DEF Init, WaitersOwnSlave, WaitHasOwner, NoRequest, Channels

LEMMA TargetTypes ==
  ASSUME TypeOK
  PROVE  /\ \A m \in Channels : Target(m) \in Slaves
         /\ desc \in [Channels -> Ops]
         /\ status \in [Channels -> {"none", "request", "wait", "done"}]
BY OpTypes, SlavesAssumption DEF TypeOK, Target

LEMMA OwnSlaveStep ==
  ASSUME Readers = {}, TypeOK, WaitersOwnSlave, [Next]_vars
  PROVE  WaitersOwnSlave'
<1> SUFFICES ASSUME NEW w \in Writers, status'[w] = "wait"
             PROVE  /\ m_Write'[Target(w)'].bWait
                    /\ m_Write'[Target(w)'].addr = desc'[w].addr
                    /\ m_Write'[Target(w)'].data = desc'[w].data
                    /\ \A n \in Writers \ {w} :
                         ~ (status'[n] = "wait" /\ Target(n)' = Target(w)')
  BY DEF WaitersOwnSlave
<1>1. /\ Channels = Writers /\ \A m \in Channels : Target(m) \in Slaves
      /\ desc \in [Channels -> Ops]
      /\ status \in [Channels -> {"none", "request", "wait", "done"}]
  BY TargetTypes DEF Channels
<1>2. CASE OthersOnly
  <2>1. Target(w) \in Slaves /\ status[w] = "wait"
    BY <1>1, <1>2 DEF OthersOnly
  <2>2. \A n \in Writers : Target(n)' = Target(n)
    BY <1>2 DEF OthersOnly, Target
  <2> QED  BY <1>2, <2>1, <2>2 DEF OthersOnly, FlagKept, WaitersOwnSlave
<1>3. ASSUME NEW m \in Channels, Asks(m) \/ Collects(m) \/ Elsewhere(m)
      PROVE  /\ m_Write'[Target(w)'].bWait
             /\ m_Write'[Target(w)'].addr = desc'[w].addr
             /\ m_Write'[Target(w)'].data = desc'[w].data
             /\ \A n \in Writers \ {w} :
                  ~ (status'[n] = "wait" /\ Target(n)' = Target(w)')
  <2>1. CASE Asks(m)
    <3>1. \A n \in Channels : Target(n)' = Target(n)
      BY <2>1 DEF Asks, Target
    <3>2. \A n \in Channels \ {m} : status'[n] = status[n]
      BY <1>1, <2>1 DEF Asks
    <3>3. \A n \in Writers : status[n] = "wait" => Target(n) # Target(m)
      BY <2>1 DEF Asks, WaitersOwnSlave
    <3>4. CASE w = m
      BY <1>1, <2>1, <3>1, <3>2, <3>3, <3>4 DEF Asks
    <3>5. CASE w # m
      <4>1. status[w] = "wait" /\ Target(w) # Target(m) /\ FlagKept(Target(w))
        BY <1>1, <2>1, <3>2, <3>3, <3>5 DEF Asks
      <4>2. \A n \in Writers \ {w} : ~ (status'[n] = "wait" /\ Target(n)' = Target(w)')
        BY <1>1, <3>1, <3>2, <4>1 DEF WaitersOwnSlave
      <4>3. /\ m_Write[Target(w)].bWait
            /\ m_Write[Target(w)].addr = desc[w].addr
            /\ m_Write[Target(w)].data = desc[w].data
        BY <4>1 DEF WaitersOwnSlave
      <4>4. desc' = desc /\ Target(w)' = Target(w)
        BY <1>1, <2>1, <3>1 DEF Asks
      <4> QED  BY <4>1, <4>2, <4>3, <4>4 DEF FlagKept
    <3> QED  BY <3>4, <3>5
  <2>2. CASE Collects(m) \/ Elsewhere(m)
    <3>1. /\ \E o \in Ops : desc' = [desc EXCEPT ![m] = o]
          /\ \E st \in {"none", "request", "done"} : status' = [status EXCEPT ![m] = st]
      BY <2>2 DEF Collects, Elsewhere
    <3>2. /\ status'[m] # "wait"
          /\ \A n \in Channels \ {m} : status'[n] = status[n] /\ desc'[n] = desc[n]
      BY <1>1, <3>1
    <3>3. w # m /\ status[w] = "wait"
      BY <1>1, <3>2
    <3>4. \A n \in Channels \ {m} : Target(n)' = Target(n)
      BY <3>2 DEF Target
    <3>5. FlagKept(Target(w))
      <4>1. Collects(m) => Target(w) # Target(m)
        BY <1>1, <3>3 DEF Collects, WaitersOwnSlave
      <4> QED  BY <1>1, <2>2, <4>1 DEF Collects, Elsewhere
    <3>6. \A n \in Writers \ {w} : ~ (status'[n] = "wait" /\ Target(n)' = Target(w)')
      BY <1>1, <3>2, <3>3, <3>4 DEF WaitersOwnSlave
    <3> QED  BY <1>1, <3>2, <3>3, <3>4, <3>5, <3>6 DEF FlagKept, WaitersOwnSlave
  <2> QED  BY <1>3, <2>1, <2>2
<1> QED
  <2>1. OthersOnly \/ \E m \in Channels : MaxiStep(m)
    BY OthersStep DEF Next
  <2> QED  BY <1>2, <1>3, <2>1, MasterStep

LEMMA HasOwnerStep ==
  ASSUME MaxiResets = {}, TypeOK, WaitHasOwner, [Next]_vars
  PROVE  WaitHasOwner'
<1> SUFFICES ASSUME NEW s \in Slaves, m_Write'[s].bWait
             PROVE  \E n \in Writers : status'[n] = "wait" /\ Target(n)' = s
  BY DEF WaitHasOwner
<1>1. /\ \A m \in Channels : Target(m) \in Slaves
      /\ desc \in [Channels -> Ops] /\ Writers \subseteq Channels
      /\ status \in [Channels -> {"none", "request", "wait", "done"}]
  BY TargetTypes DEF Channels
<1>2. CASE OthersOnly
  BY <1>2 DEF OthersOnly, FlagKept, WaitHasOwner, Target
<1>3. ASSUME NEW m \in Channels, Asks(m) \/ Collects(m) \/ Elsewhere(m)
      PROVE  \E n \in Writers : status'[n] = "wait" /\ Target(n)' = s
  <2>1. CASE Asks(m) /\ s = Target(m)
    BY <1>1, <2>1 DEF Asks, Target
  <2>2. CASE ~ (Asks(m) /\ s = Target(m))
    <3>1. FlagKept(s) /\ (Collects(m) => s # Target(m))
      BY <1>3, <2>2 DEF Asks, Collects, Elsewhere
    <3>2. PICK n \in Writers : status[n] = "wait" /\ Target(n) = s
      BY <3>1 DEF FlagKept, WaitHasOwner
    <3>3. n # m
      BY <1>3, <3>1, <3>2 DEF Asks, Elsewhere
    <3>4. status'[n] = status[n] /\ desc'[n] = desc[n]
      BY <1>1, <1>3, <3>3 DEF Asks, Collects, Elsewhere
    <3> QED  BY <3>2, <3>4 DEF Target
  <2> QED  BY <2>1, <2>2
<1> QED
  <2>1. OthersOnly \/ \E m \in Channels : MaxiStep(m)
    BY OthersStep DEF Next
  <2> QED  BY <1>2, <1>3, <2>1, MasterStep

(* As long as no read channel polls WaitWrite, a hardware write that waits  *)
(* has its slave, and the packet in it, for itself (BusSlave.cpp,           *)
(* RequestWrite and WaitWrite).                                             *)
THEOREM WaitersOwn == (Readers = {}) => (Spec => []WaitersOwnSlave)
<1> SUFFICES ASSUME Readers = {}  PROVE Spec => []WaitersOwnSlave
  OBVIOUS
<1>1. TypeOK /\ WaitersOwnSlave /\ [Next]_vars => WaitersOwnSlave'
  BY OwnSlaveStep
<1>2. Init => WaitersOwnSlave
  BY OwnersInit
<1> QED  BY <1>1, <1>2, TypeCorrect, PTL DEF Spec

(* As long as no master is reset in mid-transaction, a slave is taken by a  *)
(* hardware write only while that write waits (AXI_Master.cpp, BusReset).   *)
THEOREM FlagsOwned == (MaxiResets = {}) => (Spec => []WaitHasOwner)
<1> SUFFICES ASSUME MaxiResets = {}  PROVE Spec => []WaitHasOwner
  OBVIOUS
<1>1. TypeOK /\ WaitHasOwner /\ [Next]_vars => WaitHasOwner'
  BY HasOwnerStep
<1>2. Init => WaitHasOwner
  BY OwnersInit
<1> QED  BY <1>1, <1>2, TypeCorrect, PTL DEF Spec

-------------------------------------------------------------------------------
(***************************************************************************)
(* BusSlave implements RegisterBus: for any number of software threads,    *)
(* bus models and hardware writers, each register access takes effect at   *)
(* one moment between its call and its return.  Two things are assumed,    *)
(* without which it is false: no hardware master reads a slave (see        *)
(* ReadReturnsOwn), and a virtual slave is not reset in the middle of a    *)
(* read, after which it answers with whatever DATA is.                     *)
(***************************************************************************)

(* The requests of slave s are for registers of s, and hardware reads none. *)
Addressed(s) ==
  /\ ~ m_Read[s].bWait
  /\ m_Write[s].bEnable => SlaveOf(m_Write[s].addr) = s
  /\ m_Read[s].bEnable => SlaveOf(m_Read[s].addr) = s
AddressedOK == \A s \in Slaves : Addressed(s)

(* The request that a thread is waiting for is its own, to the letter.      *)
Mine(c, s) ==
  /\ m_Write[s].bEnable /\ ~ m_Write[s].bWait =>
       op[c].kind = "write" /\ m_Write[s].addr = op[c].addr /\ m_Write[s].data = op[c].data
  /\ m_Read[s].bEnable => op[c].kind = "read" /\ m_Read[s].addr = op[c].addr
OwnOK == \A c \in Clients : pc[c] \in {"unlock", "wait"} => Mine(c, Slave(c))

(* What lies between the moment an APB register is read or written and its  *)
(* acknowledge: the sample stays current, the write is remembered.          *)
Sample(s) ==
  /\ rstate[s] # "lost"
  /\ s \in served => m_Write[s].bEnable /\ kind[s] = "apb"
  /\ wstate[s] = "ack" => s \in served
  /\ rstate[s] = "ack" => kind[s] = "apb" /\ m_Read[s].data = mem[m_Read[s].addr]
  /\ kind[s] = "apb" => wstate[s] = "idle" \/ rstate[s] = "idle"
SampleOK == \A s \in Slaves : Sample(s)

RInv == AddressedOK /\ OwnOK /\ SampleOK

Undisturbed == Readers = {} /\ "virtual" \notin SlaveResets

-------------------------------------------------------------------------------
(* What a step does to the requests, when it makes no new one.              *)
Kept(s) ==
  /\ m_Read'[s].bWait = m_Read[s].bWait
  /\ m_Write'[s].bEnable => /\ m_Write[s].bEnable /\ m_Write'[s].bWait = m_Write[s].bWait
                            /\ m_Write'[s].addr = m_Write[s].addr
                            /\ m_Write'[s].data = m_Write[s].data
  /\ m_Read'[s].bEnable => m_Read[s].bEnable /\ m_Read'[s].addr = m_Read[s].addr

LEMMA KeptKeeps ==
  ASSUME AddressedOK, OwnOK, TypeOK, \A s \in Slaves : Kept(s),
         \A c \in Clients : pc'[c] \in {"unlock", "wait"} =>
           pc[c] \in {"unlock", "wait"} /\ op'[c] = op[c]
  PROVE  AddressedOK' /\ OwnOK'
<1>1. AddressedOK'
  BY DEF AddressedOK, Addressed, Kept
<1>2. OwnOK'
  <2> SUFFICES ASSUME NEW c \in Clients, pc'[c] \in {"unlock", "wait"}
               PROVE  Mine(c, Slave(c))'
    BY DEF OwnOK
  <2>1. op'[c] = op[c] /\ Slave(c)' = Slave(c) /\ Mine(c, Slave(c))
    BY DEF OwnOK, Slave
  <2>2. Slave(c) \in Slaves
    BY OpTypes, SlavesAssumption DEF TypeOK, Slave
  <2> QED  BY <2>1, <2>2 DEF Mine, Kept
<1> QED  BY <1>1, <1>2

(* The fields of a request after the two EXCEPTs that the code makes of it. *)
LEMMA Fields ==
  ASSUME NEW q \in Requests, NEW d, NEW a
  PROVE  /\ [q EXCEPT !.bEnable = FALSE].bEnable = FALSE
         /\ [q EXCEPT !.bEnable = FALSE].bWait = q.bWait
         /\ [q EXCEPT !.bEnable = FALSE, !.data = d].bEnable = FALSE
         /\ [q EXCEPT !.bEnable = FALSE, !.data = d].bWait = q.bWait
         /\ [q EXCEPT !.bEnable = FALSE, !.data = d].addr = q.addr
         /\ [q EXCEPT !.bEnable = FALSE, !.data = d].data = d
         /\ [q EXCEPT !.data = d].bEnable = q.bEnable
         /\ [q EXCEPT !.data = d].bWait = q.bWait
         /\ [q EXCEPT !.data = d].addr = q.addr
         /\ [q EXCEPT !.data = d].data = d
         /\ [q EXCEPT !.bWait = FALSE].bEnable = q.bEnable
         /\ [q EXCEPT !.bEnable = TRUE, !.bWait = FALSE, !.addr = a].bEnable = TRUE
         /\ [q EXCEPT !.bEnable = TRUE, !.bWait = FALSE, !.addr = a].bWait = FALSE
         /\ [q EXCEPT !.bEnable = TRUE, !.bWait = FALSE, !.addr = a].addr = a
         /\ [q EXCEPT !.bEnable = TRUE, !.bWait = FALSE, !.addr = a].data = q.data
BY DEF Requests

(* The steps of a bus model, by what they do to the accesses of slave s:    *)
(* take a write and acknowledge it; take one on APB; acknowledge it later;  *)
(* answer a read with the register; sample it on APB; nothing.              *)
Takes(s) ==
  /\ m_Write[s].bEnable /\ kind[s] # "apb"
  /\ Accept(s) /\ WriteAck(s) /\ served' = served
  /\ wstate' = [wstate EXCEPT ![s] = wstate'[s]] /\ wstate'[s] # "ack"
  /\ rstate' = rstate
ApbTakes(s) ==
  /\ m_Write[s].bEnable /\ kind[s] = "apb"
  /\ Accept(s) /\ served' = served \cup {s} /\ UNCHANGED <<reqVars, engVars>>
  /\ MoveW(s, "data", "ack")
ApbAcks(s) ==
  /\ MoveW(s, "ack", "idle")
  /\ WriteAck(s) /\ served' = served \ {s} /\ mem' = mem
Answers(s) ==
  /\ m_Read[s].bEnable /\ ReadAck(s, mem[m_Read[s].addr])
  /\ UNCHANGED <<served, mem>>
  /\ \E from \in RStates : MoveR(s, from, "idle")
ApbSamples(s) ==
  /\ m_Read[s].bEnable /\ kind[s] = "apb"
  /\ m_Read' = [m_Read EXCEPT ![s].data = mem[m_Read[s].addr]]
  /\ UNCHANGED <<m_Write, m_LockBusAck, engVars, served, mem>>
  /\ MoveR(s, "data", "ack")
Moves(s) ==
  /\ NoAccess
  /\ wstate' = [wstate EXCEPT ![s] = wstate'[s]] /\ rstate' = [rstate EXCEPT ![s] = rstate'[s]]
  /\ wstate'[s] # "ack" /\ rstate'[s] \notin {"ack", "lost"}
  /\ kind[s] = "apb" => wstate'[s] = "idle" \/ rstate'[s] = "idle"

LEMMA SlaveKinds ==
  ASSUME Undisturbed, IInv, RInv, NEW s \in Slaves, SlaveStep(s) \/ SlaveReset(s)
  PROVE  /\ UNCHANGED <<swVars, maxiVars, kind>>
         /\ \/ Takes(s) \/ ApbTakes(s) \/ ApbAcks(s)
            \/ Answers(s) \/ ApbSamples(s) \/ Moves(s)
<1>1. /\ wstate \in [Slaves -> WStates] /\ rstate \in [Slaves -> RStates]
      /\ kind[s] \in {"saxi", "apb", "virtual"}
  BY SlavesAssumption DEF IInv, TypeOK, WStates, RStates
<1>2. /\ wstate[s] \in {"control", "start", "data", "ack"} => m_Write[s].bEnable
      /\ rstate[s] \notin {"reset", "idle"} => m_Read[s].bEnable
      /\ kind[s] = "virtual" => wstate[s] = "idle" /\ rstate[s] # "reset"
  BY DEF IInv, MachineOK
<1>3. Sample(s)
  BY DEF RInv, SampleOK
<1>4. UNCHANGED <<swVars, maxiVars, kind>>
  BY DEF SlaveStep, WriteStep, ReadStep, ApbStep, SlaveReset, WriteUp, GetWrite,
         WriteControl, WriteResp, ReadUp, GetRead, ReadControl, ReadData, ApbIdle,
         ApbStart, ApbData, ApbAck, VirtualWrite, VirtualRead, VirtualWait,
         VirtualAnswer, Clocked
<1>5. CASE SlaveReset(s)
  BY <1>1, <1>2, <1>3, <1>4, <1>5 DEF SlaveReset, AtReset, Moves, NoAccess, Undisturbed, Sample
<1>6. CASE WriteUp(s) \/ GetWrite(s) \/ WriteResp(s) \/ ReadUp(s) \/ GetRead(s) \/ ReadControl(s)
  <2>1. kind[s] = "saxi" /\ NoAccess /\ wstate[s] # "ack"
    BY <1>3, <1>6 DEF WriteUp, GetWrite, WriteResp, ReadUp, GetRead, ReadControl, Clocked, Sample
  <2>2. \/ MoveW(s, "reset", "idle") \/ MoveW(s, "idle", "control") \/ MoveW(s, "resp", "idle")
        \/ MoveR(s, "reset", "idle") \/ MoveR(s, "idle", "control") \/ MoveR(s, "control", "data")
    BY <1>6 DEF WriteUp, GetWrite, WriteResp, ReadUp, GetRead, ReadControl
  <2>3. Moves(s)
    BY <1>1, <1>3, <2>1, <2>2 DEF MoveW, MoveR, Moves, Sample
  <2> QED  BY <1>4, <2>3
<1>7. CASE VirtualRead(s) \/ VirtualWait(s)
  <2>1. kind[s] = "virtual" /\ NoAccess
    BY <1>7 DEF VirtualRead, VirtualWait, Clocked
  <2>2. MoveR(s, "idle", "control") \/ MoveR(s, "control", "data")
    BY <1>7 DEF VirtualRead, VirtualWait
  <2>3. Moves(s)
    BY <1>1, <1>2, <2>1, <2>2 DEF MoveR, Moves
  <2> QED  BY <1>4, <2>3
<1>8. CASE ApbIdle(s) \/ ApbStart(s)
  <2>1. NoAccess /\ kind[s] = "apb"
    BY <1>8 DEF ApbIdle, ApbStart, Clocked
  <2>2. \/ MoveW(s, "idle", "start") /\ rstate[s] = "idle"
        \/ MoveR(s, "idle", "start") /\ wstate[s] = "idle"
        \/ MoveW(s, "start", "data") \/ MoveR(s, "start", "data")
    BY <1>8 DEF ApbIdle, ApbStart
  <2>3. Moves(s)
    BY <1>1, <1>3, <2>1, <2>2 DEF MoveW, MoveR, Moves, Sample
  <2> QED  BY <1>4, <2>3
<1>9. CASE WriteControl(s) \/ VirtualWrite(s)
  BY <1>1, <1>2, <1>4, <1>9 DEF WriteControl, VirtualWrite, MoveW, Clocked, Takes
<1>10. CASE ReadData(s) \/ VirtualAnswer(s)
  <2>1. /\ m_Read[s].bEnable /\ rstate[s] # "lost" /\ "data" \in RStates
    BY <1>2, <1>3, <1>10 DEF ReadData, VirtualAnswer, MoveR, Sample, RStates
  <2> QED  BY <1>4, <1>10, <2>1 DEF ReadData, VirtualAnswer, MoveR, Answers, Answer
<1>11. CASE ApbData(s)
  BY <1>2, <1>4, <1>11 DEF ApbData, Clocked, ApbTakes, ApbSamples, Answer, MoveW, MoveR, reqVars
<1>12. CASE ApbAck(s)
  <2>1. CASE MoveW(s, "ack", "idle") /\ WriteAck(s) /\ served' = served \ {s}
    BY <1>4, <1>12, <2>1 DEF ApbAck, ApbAcks
  <2>2. CASE MoveR(s, "ack", "idle") /\ ReadAck(s, m_Read[s].data) /\ UNCHANGED served
    <3>1. /\ rstate[s] = "ack" /\ m_Read[s].data = mem[m_Read[s].addr] /\ "ack" \in RStates
          /\ m_Read[s].bEnable
      BY <1>2, <1>3, <2>2 DEF MoveR, Sample, RStates
    <3> QED  BY <1>4, <1>12, <2>2, <3>1 DEF ApbAck, Answers
  <2> QED  BY <1>12, <2>1, <2>2 DEF ApbAck
<1> QED  BY <1>5, <1>6, <1>7, <1>8, <1>9, <1>10, <1>11, <1>12
         DEF SlaveStep, WriteStep, ReadStep, ApbStep

-------------------------------------------------------------------------------
(* Each kind of step changes the requests of its slave alone, and asks      *)
(* nothing new.                                                             *)
LEMMA AckKeeps ==
  ASSUME TypeOK, NEW s \in Slaves, WriteAck(s) \/ \E d \in Data : ReadAck(s, d)
  PROVE  \A x \in Slaves : Kept(x)
<1>1. m_Write \in [Slaves -> Requests] /\ m_Read \in [Slaves -> Requests]
  BY DEF TypeOK
<1>2. CASE WriteAck(s)
  <2>1. /\ m_Write' = [m_Write EXCEPT ![s] = [m_Write[s] EXCEPT !.bEnable = FALSE]]
        /\ m_Read' = m_Read
    BY <1>2 DEF WriteAck
  <2>2. [m_Write[s] EXCEPT !.bEnable = FALSE].bEnable = FALSE
    BY <1>1, Fields
  <2> QED  BY <1>1, <2>1, <2>2 DEF Kept
<1>3. ASSUME NEW d \in Data, ReadAck(s, d)
      PROVE  \A x \in Slaves : Kept(x)
  <2> DEFINE q == [m_Read[s] EXCEPT !.bEnable = FALSE, !.data = d]
  <2>1. m_Read' = [m_Read EXCEPT ![s] = q] /\ m_Write' = m_Write
    BY <1>3 DEF ReadAck
  <2>2. q.bEnable = FALSE /\ q.bWait = m_Read[s].bWait
    BY <1>1, Fields
  <2> HIDE DEF q
  <2> QED  BY <1>1, <2>1, <2>2 DEF Kept
<1> QED  BY <1>2, <1>3

LEMMA SlaveKept ==
  ASSUME TypeOK, NEW s \in Slaves,
         \/ Takes(s) \/ ApbTakes(s) \/ ApbAcks(s)
         \/ Answers(s) \/ ApbSamples(s) \/ Moves(s)
  PROVE  \A x \in Slaves : Kept(x)
<1>1. /\ m_Read \in [Slaves -> Requests] /\ mem \in [Regs -> Data]
      /\ m_Read[s] \in Requests /\ mem[m_Read[s].addr] \in Data
  BY DEF TypeOK, Requests
<1>2. CASE Takes(s) \/ ApbAcks(s)
  BY <1>2, AckKeeps DEF Takes, ApbAcks
<1>3. CASE Answers(s)
  BY <1>1, <1>3, AckKeeps DEF Answers
<1>4. CASE ApbTakes(s) \/ Moves(s)
  BY <1>4 DEF ApbTakes, Moves, NoAccess, reqVars, Kept
<1>5. CASE ApbSamples(s)
  <2> DEFINE q == [m_Read[s] EXCEPT !.data = mem[m_Read[s].addr]]
  <2>1. m_Read' = [m_Read EXCEPT ![s] = q] /\ m_Write' = m_Write
    BY <1>5 DEF ApbSamples
  <2>2. /\ q.bEnable = m_Read[s].bEnable /\ q.bWait = m_Read[s].bWait
        /\ q.addr = m_Read[s].addr
    BY <1>1, Fields
  <2> HIDE DEF q
  <2> QED  BY <1>1, <2>1, <2>2 DEF Kept
<1> QED  BY <1>2, <1>3, <1>4, <1>5

LEMMA MaxiKept ==
  ASSUME Undisturbed, TypeOK, NEW m \in Channels, MaxiStep(m), ~ RequestWrite(m)
  PROVE  \A x \in Slaves : Kept(x)
<1>1. CASE WaitWrite(m)
  <2> DEFINE t == Target(m)
             q == [m_Write[t] EXCEPT !.bWait = FALSE]
  <2>1. m_Write \in [Slaves -> Requests] /\ t \in Slaves
    BY TargetTypes DEF TypeOK
  <2>2. m_Write' = [m_Write EXCEPT ![t] = q] /\ m_Read' = m_Read /\ ~ m_Write[t].bEnable
    BY <1>1 DEF WaitWrite
  <2>3. q.bEnable = m_Write[t].bEnable
    BY <2>1, Fields
  <2> HIDE DEF t, q
  <2> QED  BY <2>1, <2>2, <2>3 DEF Kept
<1>2. CASE ~ WaitWrite(m)
  BY <1>2 DEF MaxiStep, MaxiStart, RequestRead, MaxiReset, Undisturbed, reqVars, Kept
<1> QED  BY <1>1, <1>2

(* With nobody asking, a slave has neither a request of software nor an     *)
(* acknowledge; with somebody, one of the three.                            *)
LEMMA NoneOwed ==
  ASSUME IInv, NEW s \in Slaves, ~ Asked(s)
  PROVE  /\ m_LockBusAck[s] = 0
         /\ ~ (m_Write[s].bEnable /\ ~ m_Write[s].bWait)
         /\ ~ (m_Read[s].bEnable /\ ~ m_Read[s].bWait)
<1>1. m_LockBusAck[s] \in Nat /\ Owed(s) = 0
  BY DEF IInv, TypeOK, AckOK, N
<1>2. /\ m_Write[s].bEnable /\ ~ m_Write[s].bWait => Owed(s) # 0
      /\ m_Read[s].bEnable /\ ~ m_Read[s].bWait => Owed(s) # 0
      /\ m_LockBusAck[s] # 0 => Owed(s) # 0
  BY <1>1 DEF Owed, N
<1> QED  BY <1>1, <1>2

LEMMA OneOwed ==
  ASSUME IInv, NEW s \in Slaves
  PROVE  /\ m_LockBusAck[s] \in {0, 1}
         /\ m_Write[s].bEnable /\ ~ m_Write[s].bWait =>
              Asked(s) /\ m_LockBusAck[s] = 0 /\ ~ (m_Read[s].bEnable /\ ~ m_Read[s].bWait)
         /\ m_Read[s].bEnable /\ ~ m_Read[s].bWait => Asked(s) /\ m_LockBusAck[s] = 0
         /\ Asked(s) => \/ m_LockBusAck[s] = 1
                        \/ m_Write[s].bEnable /\ ~ m_Write[s].bWait
                        \/ m_Read[s].bEnable /\ ~ m_Read[s].bWait
<1>1. m_LockBusAck[s] \in Nat /\ Owed(s) = N(Asked(s))
  BY DEF IInv, TypeOK, AckOK
<1> QED  BY <1>1 DEF Owed, N

LEMMA TryWriteOwn ==
  ASSUME IInv, RInv, NEW c \in Clients, TryWrite(c)
  PROVE  AddressedOK' /\ OwnOK'
<1> DEFINE t == Slave(c)
           q == [bEnable |-> TRUE, bWait |-> FALSE,
                 addr |-> op[c].addr, data |-> op[c].data]
<1>1. /\ m_Write \in [Slaves -> Requests] /\ t \in Slaves /\ op[c] \in Ops
      /\ pc \in [Clients -> PCs] /\ SlaveOf(op[c].addr) = t
  BY OpTypes, SlavesAssumption DEF IInv, TypeOK, Slave, PCs
<1>2. /\ pc[c] = "try" /\ pc' = [pc EXCEPT ![c] = "unlock"] /\ op[c].kind = "write"
      /\ m_Write' = [m_Write EXCEPT ![t] = q] /\ m_Read' = m_Read /\ op' = op
  BY DEF TryWrite, Go
<1>3. /\ \A b \in Clients \ {c} : pc[b] \in {"idle", "lock"}
      /\ ~ Asked(t)
  BY <1>1, <1>2, AloneInside DEF Inside
<1>4. q.addr = op[c].addr /\ q.data = op[c].data
  OBVIOUS
<1>5. ~ m_Read[t].bEnable
  BY <1>1, <1>3, NoneOwed DEF RInv, AddressedOK, Addressed
<1> HIDE DEF q
<1>6. m_Write'[t] = q /\ \A s \in Slaves \ {t} : m_Write'[s] = m_Write[s]
  BY <1>1, <1>2
<1>7. AddressedOK'
  BY <1>1, <1>2, <1>4, <1>6 DEF RInv, AddressedOK, Addressed
<1>8. Slave(c)' = t /\ \A b \in Clients \ {c} : pc'[b] \in {"idle", "lock"}
  BY <1>1, <1>2, <1>3 DEF Slave
<1>9. Mine(c, Slave(c))'
  BY <1>2, <1>4, <1>5, <1>6, <1>8 DEF Mine
<1> QED  BY <1>7, <1>8, <1>9 DEF OwnOK

LEMMA TryReadOwn ==
  ASSUME IInv, RInv, NEW c \in Clients, TryRead(c)
  PROVE  AddressedOK' /\ OwnOK'
<1> DEFINE t == Slave(c)
           q == [m_Read[t] EXCEPT !.bEnable = TRUE, !.bWait = FALSE, !.addr = op[c].addr]
<1>1. /\ m_Read \in [Slaves -> Requests] /\ t \in Slaves /\ op[c] \in Ops
      /\ pc \in [Clients -> PCs] /\ SlaveOf(op[c].addr) = t
  BY OpTypes, SlavesAssumption DEF IInv, TypeOK, Slave, PCs
<1>2. /\ pc[c] = "try" /\ pc' = [pc EXCEPT ![c] = "unlock"] /\ op[c].kind = "read"
      /\ m_Read' = [m_Read EXCEPT ![t] = q] /\ m_Write' = m_Write /\ op' = op
  BY DEF TryRead, Go
<1>3. /\ \A b \in Clients \ {c} : pc[b] \in {"idle", "lock"}
      /\ ~ Asked(t)
  BY <1>1, <1>2, AloneInside DEF Inside
<1>4. q.addr = op[c].addr /\ q.bWait = FALSE
  BY <1>1, Fields
<1>5. ~ (m_Write[t].bEnable /\ ~ m_Write[t].bWait)
  BY <1>1, <1>3, NoneOwed
<1> HIDE DEF q
<1>6. m_Read'[t] = q /\ \A s \in Slaves \ {t} : m_Read'[s] = m_Read[s]
  BY <1>1, <1>2
<1>7. AddressedOK'
  BY <1>1, <1>2, <1>4, <1>6 DEF RInv, AddressedOK, Addressed
<1>8. Slave(c)' = t /\ \A b \in Clients \ {c} : pc'[b] \in {"idle", "lock"}
  BY <1>1, <1>2, <1>3 DEF Slave
<1>9. Mine(c, Slave(c))'
  BY <1>2, <1>4, <1>5, <1>6, <1>8 DEF Mine
<1> QED  BY <1>7, <1>8, <1>9 DEF OwnOK

LEMMA RequestWriteOwn ==
  ASSUME TypeOK, RInv, NEW m \in Channels, RequestWrite(m)
  PROVE  AddressedOK' /\ OwnOK'
<1> DEFINE t == Target(m)
           q == [bEnable |-> TRUE, bWait |-> TRUE,
                 addr |-> desc[m].addr, data |-> desc[m].data]
<1>1. m_Write \in [Slaves -> Requests] /\ t \in Slaves /\ SlaveOf(desc[m].addr) = t
  BY TargetTypes DEF TypeOK, Target
<1>2. m_Write' = [m_Write EXCEPT ![t] = q] /\ m_Read' = m_Read /\ pc' = pc /\ op' = op
  BY DEF RequestWrite, swVars
<1>3. q.addr = desc[m].addr /\ q.bWait = TRUE
  OBVIOUS
<1> HIDE DEF q
<1>4. m_Write'[t] = q /\ \A s \in Slaves \ {t} : m_Write'[s] = m_Write[s]
  BY <1>1, <1>2
<1>5. AddressedOK'
  BY <1>1, <1>2, <1>3, <1>4 DEF RInv, AddressedOK, Addressed
<1>6. OwnOK'
  <2> SUFFICES ASSUME NEW c \in Clients, pc'[c] \in {"unlock", "wait"}
               PROVE  Mine(c, Slave(c))'
    BY DEF OwnOK
  <2>1. Mine(c, Slave(c)) /\ Slave(c)' = Slave(c) /\ Slave(c) \in Slaves
    BY <1>2, OpTypes, SlavesAssumption DEF RInv, OwnOK, TypeOK, Slave
  <2> QED  BY <1>2, <1>3, <1>4, <2>1 DEF Mine
<1> QED  BY <1>5, <1>6

LEMMA OwnStep ==
  ASSUME Undisturbed, IInv, RInv, [Next]_vars
  PROVE  AddressedOK' /\ OwnOK'
<1>1. CASE \E c \in Clients : ClientStep(c)
  <2>1. PICK c \in Clients : ClientStep(c)
    BY <1>1
  <2>2. CASE TryWrite(c) \/ TryRead(c)
    BY <2>2, TryWriteOwn, TryReadOwn
  <2>3. CASE ~ (TryWrite(c) \/ TryRead(c))
    <3>1. m_Write' = m_Write /\ m_Read' = m_Read
      BY <2>1, <2>3 DEF ClientStep, Call, LockSW, Unlock, AckDown, Return, reqVars
    <3>2. pc \in [Clients -> PCs] /\ op \in [Clients -> Ops]
      BY DEF IInv, TypeOK, PCs
    <3>3. \A b \in Clients : pc'[b] \in {"unlock", "wait"} =>
            pc[b] \in {"unlock", "wait"} /\ op'[b] = op[b]
      BY <2>1, <2>3, <3>2 DEF ClientStep, Call, LockSW, Unlock, AckDown, Return, Go
    <3> QED  BY <3>1, <3>3, KeptKeeps DEF Kept, IInv, RInv
  <2> QED  BY <2>2, <2>3
<1>2. CASE \E s \in Slaves : SlaveStep(s) \/ SlaveReset(s)
  <2>1. PICK s \in Slaves : SlaveStep(s) \/ SlaveReset(s)
    BY <1>2
  <2>2. \A x \in Slaves : Kept(x)
    BY <2>1, SlaveKinds, SlaveKept DEF IInv
  <2>3. pc' = pc /\ op' = op
    BY <2>1, SlaveKinds DEF swVars
  <2> QED  BY <2>2, <2>3, KeptKeeps DEF IInv, RInv
<1>3. CASE AckLock \/ UNCHANGED vars
  <2>1. UNCHANGED <<pc, op, m_Write, m_Read>>
    BY <1>3 DEF AckLock, vars, swVars, reqVars
  <2> QED  BY <2>1, KeptKeeps DEF Kept, IInv, RInv
<1>4. CASE \E m \in Channels : MaxiStep(m)
  <2>1. PICK m \in Channels : MaxiStep(m)
    BY <1>4
  <2>2. CASE RequestWrite(m)
    BY <2>2, RequestWriteOwn DEF IInv
  <2>3. CASE ~ RequestWrite(m)
    <3>1. \A x \in Slaves : Kept(x)
      BY <2>1, <2>3, MaxiKept DEF IInv
    <3>2. pc' = pc /\ op' = op
      BY <2>1 DEF MaxiStep, MaxiStart, RequestWrite, RequestRead, WaitWrite, MaxiReset, swVars
    <3> QED  BY <3>1, <3>2, KeptKeeps DEF IInv, RInv
  <2> QED  BY <2>2, <2>3
<1> QED  BY <1>1, <1>2, <1>3, <1>4 DEF Next

-------------------------------------------------------------------------------
(* Steps that leave the bus models and the registers alone, and withdraw no *)
(* request, leave the samples alone.                                        *)
LEMMA SampleStays ==
  ASSUME SampleOK, MachineOK, UNCHANGED <<busVars, mem>>,
         \A s \in Slaves :
           /\ m_Write[s].bEnable => m_Write'[s].bEnable
           /\ m_Read[s].bEnable => m_Read'[s] = m_Read[s]
  PROVE  SampleOK'
<1> SUFFICES ASSUME NEW s \in Slaves  PROVE Sample(s)'
  BY DEF SampleOK
<1>1. Sample(s) /\ (rstate[s] = "ack" => m_Read[s].bEnable)
  BY DEF SampleOK, MachineOK
<1> QED  BY <1>1 DEF Sample, busVars

LEMMA TryKeepsSample ==
  ASSUME IInv, RInv, NEW c \in Clients, TryWrite(c) \/ TryRead(c)
  PROVE  SampleOK'
<1> DEFINE t == Slave(c)
<1>1. /\ m_Write \in [Slaves -> Requests] /\ m_Read \in [Slaves -> Requests] /\ t \in Slaves
  BY OpTypes, SlavesAssumption DEF IInv, TypeOK, Slave
<1>2. CASE TryWrite(c)
  <2> DEFINE q == [bEnable |-> TRUE, bWait |-> FALSE,
                   addr |-> op[c].addr, data |-> op[c].data]
  <2>1. m_Write' = [m_Write EXCEPT ![t] = q] /\ m_Read' = m_Read /\ UNCHANGED <<busVars, mem>>
    BY <1>2 DEF TryWrite
  <2>2. q.bEnable = TRUE
    OBVIOUS
  <2> HIDE DEF t, q
  <2>3. \A s \in Slaves : m_Write[s].bEnable => m_Write'[s].bEnable
    BY <1>1, <2>1, <2>2
  <2> QED  BY <2>1, <2>3, SampleStays DEF IInv, RInv
<1>3. CASE TryRead(c)
  <2> DEFINE q == [m_Read[t] EXCEPT !.bEnable = TRUE, !.bWait = FALSE, !.addr = op[c].addr]
  <2>1. /\ m_Read' = [m_Read EXCEPT ![t] = q] /\ m_Write' = m_Write
        /\ UNCHANGED <<busVars, mem>> /\ ~ m_Read[t].bEnable
    BY <1>3 DEF TryRead, ReadFree
  <2> HIDE DEF t, q
  <2>2. \A s \in Slaves : m_Read[s].bEnable => m_Read'[s] = m_Read[s]
    BY <1>1, <2>1
  <2> QED  BY <2>1, <2>2, SampleStays DEF IInv, RInv
<1> QED  BY <1>2, <1>3

LEMMA MaxiKeepsSample ==
  ASSUME Undisturbed, IInv, RInv, NEW m \in Channels, MaxiStep(m)
  PROVE  SampleOK'
<1> DEFINE t == Target(m)
<1>1. m_Write \in [Slaves -> Requests] /\ t \in Slaves
  BY TargetTypes DEF IInv, TypeOK
<1>2. UNCHANGED <<busVars, mem>> /\ m_Read' = m_Read
  BY DEF MaxiStep, MaxiStart, RequestWrite, RequestRead, WaitWrite, MaxiReset, Undisturbed, reqVars
<1>3. \A s \in Slaves : m_Write[s].bEnable => m_Write'[s].bEnable
  <2>1. CASE RequestWrite(m)
    <3> DEFINE q == [bEnable |-> TRUE, bWait |-> TRUE,
                     addr |-> desc[m].addr, data |-> desc[m].data]
    <3>1. m_Write' = [m_Write EXCEPT ![t] = q]
      BY <2>1 DEF RequestWrite
    <3>2. q.bEnable = TRUE
      OBVIOUS
    <3> HIDE DEF t, q
    <3> QED  BY <1>1, <3>1, <3>2
  <2>2. CASE WaitWrite(m)
    <3> DEFINE q == [m_Write[t] EXCEPT !.bWait = FALSE]
    <3>1. m_Write' = [m_Write EXCEPT ![t] = q]
      BY <2>2 DEF WaitWrite
    <3>2. q.bEnable = m_Write[t].bEnable
      BY <1>1, Fields
    <3> HIDE DEF t, q
    <3> QED  BY <1>1, <3>1, <3>2
  <2>3. CASE ~ (RequestWrite(m) \/ WaitWrite(m))
    BY <2>3 DEF MaxiStep, MaxiStart, RequestRead, MaxiReset, reqVars
  <2> QED  BY <2>1, <2>2, <2>3
<1> QED  BY <1>2, <1>3, SampleStays DEF IInv, RInv

(* Writes of one slave change no register of another.                       *)
LEMMA AcceptElsewhere ==
  ASSUME IInv, RInv, NEW s \in Slaves, NEW x \in Slaves \ {s},
         m_Write[s].bEnable, Accept(s), m_Read[x].bEnable
  PROVE  mem'[m_Read[x].addr] = mem[m_Read[x].addr]
<1>1. /\ mem \in [Regs -> Data] /\ m_Write[s].addr \in Regs /\ m_Read[x].addr \in Regs
  BY DEF IInv, TypeOK, Requests
<1>2. m_Write[s].addr # m_Read[x].addr
  BY DEF RInv, AddressedOK, Addressed
<1> QED  BY <1>1, <1>2 DEF Accept

(* Nor does a bus model touch anything else of another slave.               *)
LEMMA SampleElsewhere ==
  ASSUME IInv, RInv, NEW s \in Slaves, kind' = kind,
         \/ Takes(s) \/ ApbTakes(s) \/ ApbAcks(s)
         \/ Answers(s) \/ ApbSamples(s) \/ Moves(s),
         NEW x \in Slaves \ {s}
  PROVE  Sample(x)'
<1>1. /\ m_Write \in [Slaves -> Requests] /\ m_Read \in [Slaves -> Requests]
      /\ wstate \in [Slaves -> WStates] /\ rstate \in [Slaves -> RStates]
  BY DEF IInv, TypeOK, WStates, RStates
<1>2. wstate'[x] = wstate[x] /\ rstate'[x] = rstate[x]
  BY <1>1 DEF Takes, ApbTakes, ApbAcks, Answers, ApbSamples, Moves, MoveW, MoveR
<1>3. x \in served' <=> x \in served
  BY DEF Takes, ApbTakes, ApbAcks, Answers, ApbSamples, Moves, NoAccess
<1>4. m_Write'[x] = m_Write[x] /\ m_Read'[x] = m_Read[x]
  BY <1>1 DEF Takes, ApbTakes, ApbAcks, Answers, ApbSamples, Moves, NoAccess,
              WriteAck, ReadAck, reqVars
<1>5. mem' = mem \/ (Accept(s) /\ m_Write[s].bEnable)
  BY DEF Takes, ApbTakes, ApbAcks, Answers, ApbSamples, Moves, NoAccess
<1>6. Sample(x) /\ (rstate[x] = "ack" => m_Read[x].bEnable)
  BY DEF IInv, MachineOK, RInv, SampleOK
<1>7. rstate[x] = "ack" => mem'[m_Read[x].addr] = mem[m_Read[x].addr]
  BY <1>5, <1>6, AcceptElsewhere
<1> QED  BY <1>2, <1>3, <1>4, <1>6, <1>7 DEF Sample

LEMMA SampleHere ==
  ASSUME IInv, RInv, NEW s \in Slaves, kind' = kind,
         \/ Takes(s) \/ ApbTakes(s) \/ ApbAcks(s)
         \/ Answers(s) \/ ApbSamples(s) \/ Moves(s)
  PROVE  Sample(s)'
<1>1. /\ m_Write \in [Slaves -> Requests] /\ m_Read \in [Slaves -> Requests]
      /\ wstate \in [Slaves -> WStates] /\ rstate \in [Slaves -> RStates]
      /\ m_Read[s] \in Requests
  BY DEF IInv, TypeOK, WStates, RStates
<1>2. Sample(s) /\ (wstate[s] \in {"data", "ack"} => m_Write[s].bEnable)
  BY DEF RInv, SampleOK, IInv, MachineOK
<1>3. CASE Takes(s)
  <2>1. s \notin served /\ rstate[s] # "ack" /\ rstate'[s] = rstate[s]
    BY <1>2, <1>3 DEF Takes, Sample
  <2> QED  BY <1>2, <1>3, <2>1 DEF Takes, Sample
<1>4. CASE ApbTakes(s)
  <2>1. /\ wstate' = [wstate EXCEPT ![s] = "ack"] /\ rstate' = rstate
        /\ served' = served \cup {s} /\ m_Write' = m_Write /\ rstate[s] = "idle"
    BY <1>2, <1>4 DEF ApbTakes, MoveW, reqVars, Sample
  <2> QED  BY <1>1, <1>2, <1>4, <2>1 DEF ApbTakes, Sample
<1>5. CASE ApbAcks(s)
  <2>1. /\ wstate' = [wstate EXCEPT ![s] = "idle"] /\ rstate' = rstate
        /\ served' = served \ {s} /\ rstate[s] = "idle"
    BY <1>2, <1>5 DEF ApbAcks, MoveW, Sample
  <2> QED  BY <1>1, <1>2, <2>1 DEF Sample
<1>6. CASE Answers(s)
  <2>1. /\ \E from \in RStates : rstate' = [rstate EXCEPT ![s] = "idle"] /\ wstate' = wstate
        /\ served' = served /\ m_Write' = m_Write
    BY <1>6 DEF Answers, MoveR, ReadAck
  <2>2. rstate'[s] = "idle"
    BY <1>1, <2>1
  <2> QED  BY <1>2, <2>1, <2>2 DEF Sample
<1>7. CASE ApbSamples(s)
  <2> DEFINE q == [m_Read[s] EXCEPT !.data = mem[m_Read[s].addr]]
  <2>1. /\ rstate' = [rstate EXCEPT ![s] = "ack"] /\ wstate' = wstate /\ wstate[s] = "idle"
        /\ served' = served /\ m_Write' = m_Write /\ mem' = mem
        /\ m_Read' = [m_Read EXCEPT ![s] = q]
    BY <1>2, <1>7 DEF ApbSamples, MoveR, Sample
  <2>2. q.data = mem[m_Read[s].addr] /\ q.addr = m_Read[s].addr
    BY <1>1, Fields
  <2> HIDE DEF q
  <2>3. m_Read'[s].data = mem'[m_Read'[s].addr] /\ rstate'[s] = "ack"
    BY <1>1, <2>1, <2>2
  <2> QED  BY <1>2, <1>7, <2>1, <2>3 DEF ApbSamples, Sample
<1>8. CASE Moves(s)
  BY <1>2, <1>8 DEF Moves, NoAccess, reqVars, Sample
<1> QED  BY <1>3, <1>4, <1>5, <1>6, <1>7, <1>8

LEMMA SampleStep ==
  ASSUME Undisturbed, IInv, RInv, [Next]_vars
  PROVE  SampleOK'
<1>1. CASE \E c \in Clients : ClientStep(c)
  <2>1. PICK c \in Clients : ClientStep(c)
    BY <1>1
  <2>2. CASE TryWrite(c) \/ TryRead(c)
    BY <2>2, TryKeepsSample
  <2>3. CASE ~ (TryWrite(c) \/ TryRead(c))
    <3>1. UNCHANGED <<busVars, mem, m_Write, m_Read>>
      BY <2>1, <2>3 DEF ClientStep, Call, LockSW, Unlock, AckDown, Return, reqVars
    <3> QED  BY <3>1, SampleStays DEF IInv, RInv
  <2> QED  BY <2>2, <2>3
<1>2. CASE \E s \in Slaves : SlaveStep(s) \/ SlaveReset(s)
  <2>1. PICK s \in Slaves : SlaveStep(s) \/ SlaveReset(s)
    BY <1>2
  <2> QED  BY <2>1, SlaveKinds, SampleElsewhere, SampleHere DEF SampleOK
<1>3. CASE AckLock \/ UNCHANGED vars
  <2>1. UNCHANGED <<busVars, mem, m_Write, m_Read>>
    BY <1>3 DEF AckLock, vars, reqVars
  <2> QED  BY <2>1, SampleStays DEF IInv, RInv
<1>4. CASE \E m \in Channels : MaxiStep(m)
  BY <1>4, MaxiKeepsSample
<1> QED  BY <1>1, <1>2, <1>3, <1>4 DEF Next

LEMMA InitRInv == Init => RInv
<1> SUFFICES ASSUME Init  PROVE RInv
  OBVIOUS
<1>1. /\ m_Write = [s \in Slaves |-> NoRequest] /\ m_Read = [s \in Slaves |-> NoRequest]
      /\ wstate = [s \in Slaves |-> IF kind[s] = "saxi" THEN "reset" ELSE "idle"]
      /\ rstate = wstate /\ served = {} /\ pc = [c \in Clients |-> "idle"]
  BY DEF Init
<1>2. NoRequest.bEnable = FALSE /\ NoRequest.bWait = FALSE
  BY DEF NoRequest
<1>3. \A s \in Slaves : Addressed(s)
  BY <1>1, <1>2 DEF Addressed
<1>4. \A s \in Slaves : Sample(s)
  BY <1>1 DEF Sample
<1> QED  BY <1>1, <1>3, <1>4 DEF RInv, AddressedOK, OwnOK, SampleOK

LEMMA Refining == Undisturbed => (Spec => []RInv)
<1> SUFFICES ASSUME Undisturbed  PROVE Spec => []RInv
  OBVIOUS
<1>1. IInv /\ RInv /\ [Next]_vars => RInv'
  BY OwnStep, SampleStep DEF RInv
<1> QED  BY <1>1, InitRInv, Invariance, PTL DEF Spec

-------------------------------------------------------------------------------
(* The steps of the abstract bus, in the words of BusSlave.                 *)
SameCall(c) == AbstractCall(c)' = AbstractCall(c)
OthersSame(c) == \A b \in Clients \ {c} : SameCall(b)
MapInvoke(c) ==
  /\ AbstractCall(c).state = "none" /\ AbstractCall(c).state' = "pending"
  /\ ret' = [ret EXCEPT ![c] = NoData] /\ mem' = mem
MapTake(c) ==
  /\ AbstractCall(c).state = "pending" /\ AbstractCall(c).state' = "done"
  /\ AbstractCall(c).kind' = AbstractCall(c).kind
  /\ AbstractCall(c).addr' = AbstractCall(c).addr
  /\ IF AbstractCall(c).kind = "write"
       THEN mem' = [mem EXCEPT ![AbstractCall(c).addr] = AbstractCall(c).data]
       ELSE AbstractCall(c).data' = mem[AbstractCall(c).addr] /\ mem' = mem
  /\ ret' = ret
MapReturn(c) ==
  /\ AbstractCall(c).state = "done" /\ AbstractCall(c).state' = "none"
  /\ ret' = [ret EXCEPT ![c] = IF AbstractCall(c).kind = "read"
                                 THEN AbstractCall(c).data ELSE NoData]
  /\ mem' = mem
MapHwWrite ==
  /\ \E r \in Regs, d \in Data : mem' = [mem EXCEPT ![r] = d]
  /\ ret' = ret /\ \A c \in Clients : SameCall(c)
MapStutter == mem' = mem /\ ret' = ret /\ \A c \in Clients : SameCall(c)

Mapped ==
  \/ \E c \in Clients : (MapInvoke(c) \/ MapTake(c) \/ MapReturn(c)) /\ OthersSame(c)
  \/ MapHwWrite
  \/ MapStutter

LEMMA MappedIsBus == Mapped => [Bus!BusNext]_(Bus!busVars)
<1> SUFFICES ASSUME Mapped  PROVE [Bus!BusNext]_(Bus!busVars)
  OBVIOUS
<1> DEFINE C == [c \in Clients |-> AbstractCall(c)]
<1>1. \A c \in Clients : C[c] = AbstractCall(c) /\ C'[c] = AbstractCall(c)'
  OBVIOUS
<1>2. ASSUME NEW c \in Clients, MapInvoke(c) \/ MapTake(c) \/ MapReturn(c), OthersSame(c)
      PROVE  Bus!BusNext
  <2>1. Bus!Only(c)
    BY <1>1, <1>2 DEF Bus!Only, OthersSame, SameCall
  <2>2. Bus!Invoke(c) \/ Bus!Take(c) \/ Bus!Return(c)
    BY <1>1, <1>2 DEF MapInvoke, MapTake, MapReturn, Bus!Invoke, Bus!Take, Bus!Return
  <2> QED  BY <2>1, <2>2 DEF Bus!BusNext
<1>3. ASSUME \A c \in Clients : SameCall(c)
      PROVE  C' = C
  BY <1>3 DEF SameCall
<1>4. CASE MapHwWrite
  BY <1>3, <1>4 DEF MapHwWrite, Bus!BusNext, Bus!HwWrite
<1>5. CASE MapStutter
  BY <1>3, <1>5 DEF MapStutter, Bus!busVars
<1> QED  BY <1>2, <1>4, <1>5 DEF Mapped

-------------------------------------------------------------------------------
(* When the call of a thread stays as it is.                                *)
LEMMA SameAway ==
  ASSUME NEW c, pc[c] \in {"idle", "lock"}, pc'[c] = pc[c], op'[c] = op[c]
  PROVE  SameCall(c)
BY DEF SameCall, AbstractCall, Acknowledged

LEMMA SameWaiting ==
  ASSUME NEW c, pc'[c] = pc[c], op'[c] = op[c],
         pc[c] \in {"unlock", "wait", "return"} =>
           /\ Acknowledged(c)' <=> Acknowledged(c)
           /\ op[c].kind = "read" /\ Acknowledged(c) =>
                m_Read'[Slave(c)].data = m_Read[Slave(c)].data
  PROVE  SameCall(c)
<1>1. Slave(c)' = Slave(c)
  BY DEF Slave
<1>2. CASE pc[c] \in {"unlock", "wait", "return"}
  BY <1>1, <1>2 DEF SameCall, AbstractCall
<1>3. CASE pc[c] \notin {"unlock", "wait", "return"}
  BY <1>1, <1>3 DEF SameCall, AbstractCall, Acknowledged
<1> QED  BY <1>2, <1>3

(* Steps that touch neither the threads nor what they see.                  *)
LEMMA SameSeen ==
  ASSUME UNCHANGED <<pc, op, m_LockBusAck, served>>, NEW c,
         m_Read'[Slave(c)].data = m_Read[Slave(c)].data
  PROVE  SameCall(c)
BY SameWaiting DEF Acknowledged, Slave

LEMMA SlaveTypes ==
  ASSUME TypeOK, NEW c \in Clients
  PROVE  /\ Slave(c) \in Slaves /\ op[c] \in Ops /\ op \in [Clients -> Ops]
         /\ pc \in [Clients -> PCs] /\ ret \in [Clients -> Data \cup {NoData}]
         /\ m_Read[Slave(c)] \in Requests /\ m_Read \in [Slaves -> Requests]
         /\ m_LockBusAck \in [Slaves -> Nat]
BY OpTypes, SlavesAssumption DEF TypeOK, Slave, PCs

LEMMA ClientMaps ==
  ASSUME IInv, RInv, NEW c \in Clients, ClientStep(c)
  PROVE  Mapped
<1> DEFINE t == Slave(c)
<1>1. /\ t \in Slaves /\ op[c] \in Ops /\ op \in [Clients -> Ops] /\ pc \in [Clients -> PCs]
      /\ m_Read[t] \in Requests /\ m_Read \in [Slaves -> Requests]
      /\ m_LockBusAck \in [Slaves -> Nat]
  BY SlaveTypes DEF IInv
<1>2. c \in Inside => \A b \in Clients \ {c} : pc[b] \in {"idle", "lock"}
  BY AloneInside
<1>3. ASSUME NEW o \in Ops, Call(c, o)
      PROVE  Mapped
  <2>1. /\ pc[c] = "idle" /\ pc' = [pc EXCEPT ![c] = "lock"] /\ op' = [op EXCEPT ![c] = o]
        /\ ret' = [ret EXCEPT ![c] = NoData] /\ mem' = mem
        /\ UNCHANGED <<m_LockBusAck, m_Read, served>>
    BY <1>3 DEF Call, Go, reqVars, busVars
  <2>2. MapInvoke(c)
    BY <1>1, <2>1 DEF MapInvoke, AbstractCall, Acknowledged
  <2>3. ASSUME NEW b \in Clients \ {c}  PROVE SameCall(b)
    <3>1. pc'[b] = pc[b] /\ op'[b] = op[b]
      BY <1>1, <2>1
    <3> QED  BY <2>1, <3>1, SameWaiting DEF Acknowledged, Slave
  <2> QED  BY <2>2, <2>3 DEF Mapped, OthersSame
<1>4. CASE LockSW(c)
  <2>1. /\ pc[c] = "lock" /\ pc' = [pc EXCEPT ![c] = "try"] /\ op' = op /\ ret' = ret
        /\ UNCHANGED <<mem, m_LockBusAck, m_Read, served>>
    BY <1>4 DEF LockSW, Go, reqVars, busVars
  <2>2. SameCall(c)
    BY <1>1, <2>1 DEF SameCall, AbstractCall, Acknowledged
  <2>3. ASSUME NEW b \in Clients \ {c}  PROVE SameCall(b)
    <3>1. pc'[b] = pc[b] /\ op'[b] = op[b]
      BY <1>1, <2>1
    <3> QED  BY <2>1, <3>1, SameWaiting DEF Acknowledged, Slave
  <2> QED  BY <2>1, <2>2, <2>3 DEF Mapped, MapStutter
<1>5. CASE TryWrite(c) \/ TryRead(c)
  <2>1. /\ pc[c] = "try" /\ pc' = [pc EXCEPT ![c] = "unlock"] /\ op' = op /\ ret' = ret
        /\ UNCHANGED <<mem, m_LockBusAck, served>>
        /\ op[c].kind = "write" => ~ m_Write[t].bEnable
    BY <1>5 DEF TryWrite, TryRead, Go, WriteFree, busVars
  <2>2. c \in Inside /\ ~ Asked(t)
    BY <1>1, <2>1, AloneInside DEF Inside
  <2>3. m_LockBusAck[t] = 0 /\ ~ (op[c].kind = "write" /\ t \in served)
    BY <1>1, <2>1, <2>2, NoneOwed DEF RInv, SampleOK, Sample
  <2>4. SameCall(c)
    <3>1. t' = t /\ pc'[c] = "unlock"
      BY <1>1, <2>1 DEF Slave
    <3>2. ~ Acknowledged(c) /\ ~ Acknowledged(c)'
      BY <2>1, <2>3, <3>1 DEF Acknowledged
    <3> QED  BY <2>1, <3>1, <3>2 DEF SameCall, AbstractCall
  <2>5. ASSUME NEW b \in Clients \ {c}  PROVE SameCall(b)
    BY <1>1, <1>2, <2>1, <2>2, SameAway
  <2> QED  BY <2>1, <2>4, <2>5 DEF Mapped, MapStutter
<1>6. CASE Unlock(c)
  <2>1. /\ pc[c] = "unlock" /\ pc' = [pc EXCEPT ![c] = "wait"] /\ op' = op /\ ret' = ret
        /\ UNCHANGED <<mem, m_LockBusAck, m_Read, served>>
    BY <1>6 DEF Unlock, Go, reqVars, busVars
  <2>2. SameCall(c)
    <3>1. t' = t /\ pc'[c] = "wait"
      BY <1>1, <2>1 DEF Slave
    <3>2. Acknowledged(c)' <=> Acknowledged(c)
      BY <2>1, <3>1 DEF Acknowledged
    <3> QED  BY <2>1, <3>1, <3>2 DEF SameCall, AbstractCall
  <2>3. ASSUME NEW b \in Clients \ {c}  PROVE SameCall(b)
    BY <1>1, <1>2, <2>1, SameAway DEF Inside
  <2> QED  BY <2>1, <2>2, <2>3 DEF Mapped, MapStutter
<1>7. CASE AckDown(c)
  <2>1. /\ pc[c] = "wait" /\ pc' = [pc EXCEPT ![c] = "return"] /\ op' = op /\ ret' = ret
        /\ m_LockBusAck[t] > 0 /\ UNCHANGED <<mem, m_Read, served>>
    BY <1>7 DEF AckDown, Go, busVars
  <2>2. SameCall(c)
    <3>1. t' = t /\ pc'[c] = "return"
      BY <1>1, <2>1 DEF Slave
    <3>2. Acknowledged(c)' /\ Acknowledged(c)
      BY <2>1, <3>1 DEF Acknowledged
    <3> QED  BY <2>1, <3>1, <3>2 DEF SameCall, AbstractCall
  <2>3. ASSUME NEW b \in Clients \ {c}  PROVE SameCall(b)
    BY <1>1, <1>2, <2>1, SameAway DEF Inside
  <2> QED  BY <2>1, <2>2, <2>3 DEF Mapped, MapStutter
<1>8. CASE Return(c)
  <2>1. /\ pc[c] = "return" /\ pc' = [pc EXCEPT ![c] = "idle"] /\ op' = [op EXCEPT ![c] = NoOp]
        /\ ret' = [ret EXCEPT ![c] = IF op[c].kind = "read" THEN m_Read[t].data ELSE NoData]
        /\ UNCHANGED <<mem, m_LockBusAck, m_Read, served>>
    BY <1>8 DEF Return, Go, reqVars, busVars
  <2>2. MapReturn(c)
    BY <1>1, <2>1 DEF MapReturn, AbstractCall, Acknowledged
  <2>3. ASSUME NEW b \in Clients \ {c}  PROVE SameCall(b)
    BY <1>1, <1>2, <2>1, SameAway DEF Inside
  <2> QED  BY <2>2, <2>3 DEF Mapped, OthersSame
<1> QED  BY <1>3, <1>4, <1>5, <1>6, <1>7, <1>8 DEF ClientStep

-------------------------------------------------------------------------------
(* Who waits for the request of a slave.                                    *)
LEMMA WriteAsker ==
  ASSUME IInv, RInv, NEW s \in Slaves, m_Write[s].bEnable, ~ m_Write[s].bWait
  PROVE  \E c \in Clients :
           /\ pc[c] \in {"unlock", "wait"} /\ Slave(c) = s
           /\ op[c].kind = "write"
           /\ m_Write[s].addr = op[c].addr /\ m_Write[s].data = op[c].data
           /\ m_LockBusAck[s] = 0
           /\ \A b \in Clients \ {c} : pc[b] \in {"idle", "lock"}
<1>1. Asked(s) /\ m_LockBusAck[s] = 0
  BY OneOwed
<1>2. PICK c \in Clients : pc[c] \in {"unlock", "wait"} /\ Slave(c) = s
  BY <1>1 DEF Asked
<1>3. \A b \in Clients \ {c} : pc[b] \in {"idle", "lock"}
  BY <1>2, AloneInside DEF Inside
<1>4. Mine(c, s)
  BY <1>2 DEF RInv, OwnOK
<1> QED  BY <1>1, <1>2, <1>3, <1>4 DEF Mine

LEMMA ReadAsker ==
  ASSUME IInv, RInv, NEW s \in Slaves, m_Read[s].bEnable
  PROVE  \E c \in Clients :
           /\ pc[c] \in {"unlock", "wait"} /\ Slave(c) = s
           /\ op[c].kind = "read" /\ m_Read[s].addr = op[c].addr
           /\ m_LockBusAck[s] = 0
           /\ \A b \in Clients \ {c} : pc[b] \in {"idle", "lock"}
<1>1. Asked(s) /\ m_LockBusAck[s] = 0
  BY OneOwed DEF RInv, AddressedOK, Addressed
<1>2. PICK c \in Clients : pc[c] \in {"unlock", "wait"} /\ Slave(c) = s
  BY <1>1 DEF Asked
<1>3. \A b \in Clients \ {c} : pc[b] \in {"idle", "lock"}
  BY <1>2, AloneInside DEF Inside
<1>4. Mine(c, s)
  BY <1>2 DEF RInv, OwnOK
<1> QED  BY <1>1, <1>2, <1>3, <1>4 DEF Mine

(* A thread that meets a hardware write at its slave has its acknowledge.   *)
LEMMA ForeignWrite ==
  ASSUME IInv, RInv, NEW c \in Clients, pc[c] \in {"unlock", "wait"},
         op[c].kind = "write", m_Write[Slave(c)].bWait
  PROVE  m_LockBusAck[Slave(c)] > 0
<1>1. Slave(c) \in Slaves /\ Asked(Slave(c))
  BY SlaveTypes DEF IInv, Asked
<1>2. ~ m_Read[Slave(c)].bEnable
  BY DEF RInv, OwnOK, Mine
<1> QED  BY <1>1, <1>2, OneOwed

LEMMA AckValues ==
  ASSUME TypeOK, NEW s \in Slaves, WriteAck(s)
  PROVE  /\ m_Read' = m_Read
         /\ m_Write[s].bWait => m_LockBusAck' = m_LockBusAck
         /\ ~ m_Write[s].bWait =>
              /\ m_LockBusAck'[s] = m_LockBusAck[s] + 1
              /\ \A x \in Slaves \ {s} : m_LockBusAck'[x] = m_LockBusAck[x]
BY DEF TypeOK, WriteAck

LEMMA TakenWrite ==
  ASSUME TypeOK, NEW s \in Slaves, Accept(s)
  PROVE  \E r \in Regs, d \in Data : mem' = [mem EXCEPT ![r] = d]
<1>1. m_Write[s].addr \in Regs /\ m_Write[s].data \in Data
  BY DEF TypeOK, Requests
<1> QED  BY <1>1 DEF Accept

LEMMA TakesMaps ==
  ASSUME IInv, RInv, NEW s \in Slaves, Takes(s), UNCHANGED swVars
  PROVE  Mapped
<1>1. /\ UNCHANGED <<pc, op, ret, served>> /\ m_Read' = m_Read /\ s \notin served
      /\ m_Write[s].bEnable /\ Accept(s)
  BY AckValues DEF Takes, swVars, IInv, RInv, SampleOK, Sample
<1>2. CASE m_Write[s].bWait
  <2>1. m_LockBusAck' = m_LockBusAck
    BY <1>2, AckValues DEF Takes, IInv
  <2>2. \A c \in Clients : SameCall(c)
    BY <1>1, <2>1, SameSeen
  <2> QED  BY <1>1, <2>2, TakenWrite DEF IInv, Mapped, MapHwWrite
<1>3. CASE ~ m_Write[s].bWait
  <2>1. PICK c \in Clients :
           /\ pc[c] \in {"unlock", "wait"} /\ Slave(c) = s
           /\ op[c].kind = "write"
           /\ m_Write[s].addr = op[c].addr /\ m_Write[s].data = op[c].data
           /\ m_LockBusAck[s] = 0
           /\ \A b \in Clients \ {c} : pc[b] \in {"idle", "lock"}
    BY <1>1, <1>3, WriteAsker
  <2>2. m_LockBusAck'[s] = 1
    BY <1>3, <2>1, AckValues DEF Takes, IInv
  <2>3. Slave(c)' = s
    BY <1>1, <2>1 DEF Slave
  <2>4. ~ Acknowledged(c) /\ Acknowledged(c)'
    BY <1>1, <2>1, <2>2, <2>3 DEF Acknowledged
  <2>5. MapTake(c)
    BY <1>1, <2>1, <2>4 DEF MapTake, AbstractCall, Accept
  <2>6. OthersSame(c)
    BY <1>1, <2>1, SameAway DEF OthersSame
  <2> QED  BY <2>5, <2>6 DEF Mapped
<1> QED  BY <1>2, <1>3

LEMMA ApbTakesMaps ==
  ASSUME IInv, RInv, NEW s \in Slaves, ApbTakes(s), UNCHANGED swVars
  PROVE  Mapped
<1>1. /\ UNCHANGED <<pc, op, ret, m_LockBusAck, m_Read>> /\ served' = served \cup {s}
      /\ m_Write[s].bEnable /\ Accept(s)
  BY DEF ApbTakes, swVars, reqVars
<1>2. CASE s \in served
  <2>1. \A c \in Clients : SameCall(c)
    BY <1>1, <1>2, SameSeen
  <2> QED  BY <1>1, <2>1, TakenWrite DEF IInv, Mapped, MapHwWrite
<1>3. CASE s \notin served /\ m_Write[s].bWait
  <2> SUFFICES ASSUME NEW c \in Clients  PROVE SameCall(c)
    BY <1>1, TakenWrite DEF IInv, Mapped, MapHwWrite
  <2>1. Slave(c)' = Slave(c)
    BY <1>1 DEF Slave
  <2>2. pc[c] \in {"unlock", "wait"} /\ op[c].kind = "write" /\ Slave(c) = s =>
          m_LockBusAck[s] > 0
    BY <1>3, ForeignWrite
  <2>3. Acknowledged(c)' <=> Acknowledged(c)
    BY <1>1, <2>1, <2>2 DEF Acknowledged
  <2> QED  BY <1>1, <2>3, SameWaiting
<1>4. CASE s \notin served /\ ~ m_Write[s].bWait
  <2>1. PICK c \in Clients :
           /\ pc[c] \in {"unlock", "wait"} /\ Slave(c) = s
           /\ op[c].kind = "write"
           /\ m_Write[s].addr = op[c].addr /\ m_Write[s].data = op[c].data
           /\ m_LockBusAck[s] = 0
           /\ \A b \in Clients \ {c} : pc[b] \in {"idle", "lock"}
    BY <1>1, <1>4, WriteAsker
  <2>2. Slave(c)' = s
    BY <1>1, <2>1 DEF Slave
  <2>3. ~ Acknowledged(c) /\ Acknowledged(c)'
    BY <1>1, <1>4, <2>1, <2>2 DEF Acknowledged
  <2>4. MapTake(c)
    BY <1>1, <2>1, <2>3 DEF MapTake, AbstractCall, Accept
  <2>5. OthersSame(c)
    BY <1>1, <2>1, SameAway DEF OthersSame
  <2> QED  BY <2>4, <2>5 DEF Mapped
<1> QED  BY <1>2, <1>3, <1>4

LEMMA ApbAcksMaps ==
  ASSUME IInv, RInv, NEW s \in Slaves, ApbAcks(s), UNCHANGED swVars
  PROVE  Mapped
<1>1. /\ UNCHANGED <<pc, op, ret, mem>> /\ m_Read' = m_Read /\ served' = served \ {s}
      /\ s \in served /\ m_Write[s].bEnable
  BY AckValues DEF ApbAcks, MoveW, swVars, IInv, RInv, SampleOK, Sample
<1> SUFFICES \A c \in Clients : SameCall(c)
  BY <1>1 DEF Mapped, MapStutter
<1>2. CASE m_Write[s].bWait
  <2> SUFFICES ASSUME NEW c \in Clients  PROVE SameCall(c)
    OBVIOUS
  <2>1. Slave(c)' = Slave(c) /\ m_LockBusAck' = m_LockBusAck
    BY <1>1, <1>2, AckValues DEF Slave, ApbAcks, IInv
  <2>2. pc[c] \in {"unlock", "wait"} /\ op[c].kind = "write" /\ Slave(c) = s =>
          m_LockBusAck[s] > 0
    BY <1>2, ForeignWrite
  <2>3. Acknowledged(c)' <=> Acknowledged(c)
    BY <1>1, <2>1, <2>2 DEF Acknowledged
  <2> QED  BY <1>1, <2>3, SameWaiting
<1>3. CASE ~ m_Write[s].bWait
  <2>1. PICK c \in Clients :
           /\ pc[c] \in {"unlock", "wait"} /\ Slave(c) = s
           /\ op[c].kind = "write"
           /\ m_Write[s].addr = op[c].addr /\ m_Write[s].data = op[c].data
           /\ m_LockBusAck[s] = 0
           /\ \A b \in Clients \ {c} : pc[b] \in {"idle", "lock"}
    BY <1>1, <1>3, WriteAsker
  <2>2. Slave(c)' = s /\ m_LockBusAck'[s] = 1
    BY <1>1, <1>3, <2>1, AckValues DEF Slave, ApbAcks, IInv
  <2>3. Acknowledged(c) /\ Acknowledged(c)'
    BY <1>1, <2>1, <2>2 DEF Acknowledged
  <2>4. SameCall(c)
    BY <1>1, <2>3, SameWaiting
  <2>5. \A b \in Clients \ {c} : SameCall(b)
    BY <1>1, <2>1, SameAway
  <2> QED  BY <2>4, <2>5
<1> QED  BY <1>2, <1>3

LEMMA AnswersMaps ==
  ASSUME IInv, RInv, NEW s \in Slaves, Answers(s), UNCHANGED swVars
  PROVE  Mapped
<1> DEFINE d == mem[m_Read[s].addr]
           q == [m_Read[s] EXCEPT !.bEnable = FALSE, !.data = d]
<1>1. /\ m_Read \in [Slaves -> Requests] /\ m_LockBusAck \in [Slaves -> Nat]
  BY DEF IInv, TypeOK
<1>2. /\ UNCHANGED <<pc, op, ret, mem, served>> /\ m_Read[s].bEnable
      /\ m_Read' = [m_Read EXCEPT ![s] = q] /\ ~ m_Read[s].bWait
      /\ m_LockBusAck' = [m_LockBusAck EXCEPT ![s] = IF m_Read[s].bWait THEN @ ELSE @ + 1]
  BY DEF Answers, ReadAck, swVars, RInv, AddressedOK, Addressed
<1>3. q.data = d
  BY <1>1, Fields
<1>4. PICK c \in Clients :
           /\ pc[c] \in {"unlock", "wait"} /\ Slave(c) = s
           /\ op[c].kind = "read" /\ m_Read[s].addr = op[c].addr
           /\ m_LockBusAck[s] = 0
           /\ \A b \in Clients \ {c} : pc[b] \in {"idle", "lock"}
  BY <1>2, ReadAsker
<1>5. m_LockBusAck'[s] = 1
  BY <1>1, <1>2, <1>4
<1> HIDE DEF q
<1>6. m_Read'[s].data = d
  BY <1>1, <1>2, <1>3
<1>7. Slave(c)' = s
  BY <1>2, <1>4 DEF Slave
<1>8. ~ Acknowledged(c) /\ Acknowledged(c)'
  BY <1>2, <1>4, <1>5, <1>7 DEF Acknowledged
<1>9. MapTake(c)
  BY <1>2, <1>4, <1>6, <1>7, <1>8 DEF MapTake, AbstractCall
<1>10. OthersSame(c)
  BY <1>2, <1>4, SameAway DEF OthersSame
<1> QED  BY <1>9, <1>10 DEF Mapped

LEMMA ApbSamplesMaps ==
  ASSUME IInv, RInv, NEW s \in Slaves, ApbSamples(s), UNCHANGED swVars
  PROVE  Mapped
<1>1. UNCHANGED <<pc, op, ret, mem, m_LockBusAck, served>> /\ m_Read[s].bEnable
  BY DEF ApbSamples, swVars
<1>2. PICK c \in Clients :
           /\ pc[c] \in {"unlock", "wait"} /\ Slave(c) = s
           /\ op[c].kind = "read" /\ m_Read[s].addr = op[c].addr
           /\ m_LockBusAck[s] = 0
           /\ \A b \in Clients \ {c} : pc[b] \in {"idle", "lock"}
  BY <1>1, ReadAsker
<1>3. Slave(c)' = s
  BY <1>1, <1>2 DEF Slave
<1>4. ~ Acknowledged(c) /\ ~ Acknowledged(c)'
  BY <1>1, <1>2, <1>3 DEF Acknowledged
<1>5. SameCall(c)
  BY <1>1, <1>4, SameWaiting
<1>6. \A b \in Clients \ {c} : SameCall(b)
  BY <1>1, <1>2, SameAway
<1> QED  BY <1>1, <1>5, <1>6 DEF Mapped, MapStutter

LEMMA NextMaps ==
  ASSUME Undisturbed, IInv, RInv, [Next]_vars
  PROVE  Mapped
<1>1. CASE \E c \in Clients : ClientStep(c)
  BY <1>1, ClientMaps
<1>2. CASE \E s \in Slaves : SlaveStep(s) \/ SlaveReset(s)
  <2>1. PICK s \in Slaves : SlaveStep(s) \/ SlaveReset(s)
    BY <1>2
  <2>2. UNCHANGED swVars
    BY <2>1, SlaveKinds
  <2>3. CASE Moves(s)
    <3>1. UNCHANGED <<pc, op, ret, mem, m_LockBusAck, served, m_Read>>
      BY <2>2, <2>3 DEF Moves, NoAccess, swVars, reqVars
    <3> QED  BY <3>1, SameSeen DEF Mapped, MapStutter
  <2> QED  BY <2>1, <2>2, <2>3, SlaveKinds, TakesMaps, ApbTakesMaps, ApbAcksMaps,
              AnswersMaps, ApbSamplesMaps
<1>3. CASE AckLock \/ (\E m \in Channels : MaxiStep(m)) \/ UNCHANGED vars
  <2>1. UNCHANGED <<pc, op, ret, mem, m_LockBusAck, served, m_Read>>
    BY <1>3 DEF AckLock, MaxiStep, MaxiStart, RequestWrite, RequestRead, WaitWrite,
                MaxiReset, Undisturbed, vars, swVars, reqVars, busVars
  <2> QED  BY <2>1, SameSeen DEF Mapped, MapStutter
<1> QED  BY <1>1, <1>2, <1>3 DEF Next

LEMMA InitMaps == Init => Bus!BusInit
BY DEF Init, Bus!BusInit, AbstractCall

-------------------------------------------------------------------------------
(* Register accesses are atomic: each RegRead and RegWrite takes effect at  *)
(* one moment between its call and its return, in spite of acknowledges     *)
(* that overtake the caller's UnLock, of resets of AXI4-Lite and APB slaves *)
(* and of masters in mid-transaction, and of hardware writes in between     *)
(* (BusSlave.cpp, AXI_Slave_Lite.cpp, APB_Slave.cpp, VirtualSlave.cpp).     *)
THEOREM Linearizable == Undisturbed => (Spec => BusSpec)
<1> SUFFICES ASSUME Undisturbed  PROVE Spec => BusSpec
  OBVIOUS
<1>1. IInv /\ RInv /\ [Next]_vars => [Bus!BusNext]_(Bus!busVars)
  BY NextMaps, MappedIsBus
<1>2. Spec => []RInv
  BY Refining
<1> QED  BY <1>1, <1>2, InitMaps, Invariance, PTL DEF Spec, BusSpec, Bus!BusSpec
===============================================================================
