------------------------------- MODULE BusSlave -------------------------------
(***************************************************************************)
(* The register bus between software and simulated hardware:               *)
(*   SimSystem/src/BusSlave.cpp        requests, acknowledges, semaphores  *)
(*   HDL/dpi/AXI_Slave_Lite.cpp        the bus models that serve a slave:  *)
(*   HDL/dpi/APB_Slave.cpp             AXI4-Lite, APB and a plain register *)
(*   HDL/dpi/VirtualSlave.cpp          port                                *)
(*   HDL/dpi/AXI_Master.cpp            a master that reaches a slave (MAXI)*)
(*                                                                         *)
(* Software threads call Write and Read.  Everything else runs on the      *)
(* engine's thread.  Each body between m_LockBus.Down() and Up() is one    *)
(* step: m_LockBus is never held over a wait, and GetWrite, GetRead and    *)
(* OnRun, which do not take it, look at bEnable only, which the software   *)
(* sets after the packet.  Read's load of packet.dwData, outside the       *)
(* section, is a step of its own.                                          *)
(* The registers themselves belong to the design under simulation: a write *)
(* takes effect when the bus accepts it, a read samples when it answers.   *)
(* One machine of APB_Slave serves reads and writes: it is in wstate when  *)
(* m_bWrite and in rstate otherwise, and the other one is idle.            *)
(***************************************************************************)
EXTENDS Integers, FiniteSets

CONSTANTS Clients,       \* software threads
          Slaves,        \* BusSlave objects
          Regs, Data,    \* addresses that some slave serves; register values
          SlaveOf(_),    \* FindSlave
          Kinds,         \* the bus models a slave may be served by
          NoData,
          Writers,       \* MAXI write channels that reach a slave
          Readers,       \* MAXI read channels that do
          MaxiResets,    \* those whose nRST may fall in mid-transaction
          SlaveResets    \* the bus models whose nRST may

ASSUME SlavesAssumption ==
  /\ IsFiniteSet(Clients) /\ IsFiniteSet(Slaves)
  /\ Regs # {} /\ Data # {}
  /\ \A r \in Regs : SlaveOf(r) \in Slaves
  /\ Kinds \subseteq {"saxi", "apb", "virtual"}

VARIABLES
  m_LockSW,              \* static semaphore, one for all the slaves
  m_LockBusAck,          \* semaphore of each slave
  m_Write, m_Read,       \* each slave's request: bEnable, bWait, packet
  kind,                  \* the bus model that has created the slave
  wstate, rstate,        \* its state machines, of writes and of reads
  served,                \* history: slaves whose write request the design has
                         \* taken and that has not been acknowledged
  pc, op, ret,           \* a software thread: its place, its call, its result
  status, desc,          \* a MAXI channel: pDesc->status, and the access
  engine,                \* "lock": the engine thread is between an
                         \* acknowledge and its Lock(500)
  hold,                  \* Unlock()s returned less Lock(500)s
  mem                    \* the registers

swVars   == <<m_LockSW, pc, op, ret>>
reqVars  == <<m_Write, m_Read, m_LockBusAck>>
busVars  == <<kind, wstate, rstate, served>>
maxiVars == <<status, desc>>
engVars  == <<engine, hold>>
vars     == <<swVars, reqVars, busVars, maxiVars, engVars, mem>>

-------------------------------------------------------------------------------
Channels == Writers \cup Readers
AnyReg   == CHOOSE r \in Regs : TRUE
AnyData  == CHOOSE d \in Data : TRUE
NoOp     == [kind |-> "read", addr |-> AnyReg, data |-> AnyData]
Ops      == [kind : {"write"}, addr : Regs, data : Data]
              \cup [kind : {"read"}, addr : Regs, data : {AnyData}]
Requests == [bEnable : BOOLEAN, bWait : BOOLEAN, addr : Regs, data : Data]
NoRequest ==
  [bEnable |-> FALSE, bWait |-> FALSE, addr |-> AnyReg, data |-> AnyData]

Slave(c) == SlaveOf(op[c].addr)

Init ==
  /\ m_LockSW = 1
  /\ m_LockBusAck = [s \in Slaves |-> 0]
  /\ m_Write = [s \in Slaves |-> NoRequest]
  /\ m_Read  = [s \in Slaves |-> NoRequest]
  /\ kind \in [Slaves -> Kinds]
  /\ wstate = [s \in Slaves |-> IF kind[s] = "saxi" THEN "reset" ELSE "idle"]
  /\ rstate = wstate
  /\ served = {}
  /\ pc = [c \in Clients |-> "idle"]
  /\ op = [c \in Clients |-> NoOp]
  /\ ret = [c \in Clients |-> NoData]
  /\ status = [m \in Channels |-> "none"]
  /\ desc = [m \in Channels |-> NoOp]
  /\ engine = "run"
  /\ hold = 0
  /\ mem \in [Regs -> Data]

Go(c, place) == pc' = [pc EXCEPT ![c] = place]

-------------------------------------------------------------------------------
(* BusSlave::Write and BusSlave::Read.                                      *)
Call(c, o) ==
  /\ pc[c] = "idle"
  /\ Go(c, "lock")
  /\ op' = [op EXCEPT ![c] = o]
  /\ ret' = [ret EXCEPT ![c] = NoData]
  /\ UNCHANGED <<m_LockSW, reqVars, busVars, maxiVars, engVars, mem>>

(* Mutant: m_LockSW does not exclude.                                       *)
LockSWFree(c) ==
  /\ pc[c] = "lock"
  /\ m_LockSW' = m_LockSW - 1
  /\ Go(c, "try")
  /\ UNCHANGED <<op, ret, reqVars, busVars, maxiVars, engVars, mem>>

LockSW(c) ==
  /\ pc[c] = "lock"
  /\ m_LockSW > 0
  /\ m_LockSW' = m_LockSW - 1
  /\ Go(c, "try")
  /\ UNCHANGED <<op, ret, reqVars, busVars, maxiVars, engVars, mem>>

(* Mutant: the wait flag of a hardware write is not looked at.              *)
WriteFreeOfEnable(s) == ~ m_Write[s].bEnable

(* The section under m_LockBus.  While the slave is taken the code spins.   *)
WriteFree(s) == ~ (m_Write[s].bEnable \/ m_Write[s].bWait)

TryWrite(c) ==
  /\ pc[c] = "try"
  /\ op[c].kind = "write"
  /\ WriteFree(Slave(c))
  /\ m_Write' = [m_Write EXCEPT ![Slave(c)] =
       [bEnable |-> TRUE, bWait |-> FALSE,
        addr |-> op[c].addr, data |-> op[c].data]]
  /\ Go(c, "unlock")
  /\ UNCHANGED <<m_LockSW, op, ret, m_Read, m_LockBusAck, busVars, maxiVars,
                 engVars, mem>>

(* The guard of Read tests the bWait of the write request.                  *)
ReadFree(s) == ~ (m_Read[s].bEnable \/ m_Write[s].bWait)

TryRead(c) ==
  /\ pc[c] = "try"
  /\ op[c].kind = "read"
  /\ ReadFree(Slave(c))
  /\ m_Read' = [m_Read EXCEPT ![Slave(c)] =
       [@ EXCEPT !.bEnable = TRUE, !.bWait = FALSE, !.addr = op[c].addr]]
  /\ Go(c, "unlock")
  /\ UNCHANGED <<m_LockSW, op, ret, m_Write, m_LockBusAck, busVars, maxiVars,
                 engVars, mem>>

(* Mutant: a posted write, which does not wait for its acknowledge.         *)
UnlockPosted(c) ==
  /\ pc[c] = "unlock"
  /\ hold' = hold + 1
  /\ Go(c, IF op[c].kind = "write" THEN "return" ELSE "wait")
  /\ UNCHANGED <<m_LockSW, op, ret, reqVars, busVars, maxiVars, engine, mem>>

Unlock(c) ==
  /\ pc[c] = "unlock"
  /\ hold' = hold + 1
  /\ Go(c, "wait")
  /\ UNCHANGED <<m_LockSW, op, ret, reqVars, busVars, maxiVars, engine, mem>>

AckDown(c) ==
  /\ pc[c] = "wait"
  /\ m_LockBusAck[Slave(c)] > 0
  /\ m_LockBusAck' = [m_LockBusAck EXCEPT ![Slave(c)] = @ - 1]
  /\ Go(c, "return")
  /\ UNCHANGED <<m_LockSW, op, ret, m_Write, m_Read, busVars, maxiVars,
                 engVars, mem>>

(* Mutant: m_LockSW is not given back.                                      *)
ReturnLocked(c) ==
  /\ pc[c] = "return"
  /\ ret' = [ret EXCEPT ![c] =
       IF op[c].kind = "read" THEN m_Read[Slave(c)].data ELSE NoData]
  /\ op' = [op EXCEPT ![c] = NoOp]
  /\ Go(c, "idle")
  /\ UNCHANGED <<m_LockSW, reqVars, busVars, maxiVars, engVars, mem>>

(* Read loads packet.dwData, with no lock, before m_LockSW.Up().            *)
Return(c) ==
  /\ pc[c] = "return"
  /\ ret' = [ret EXCEPT ![c] =
       IF op[c].kind = "read" THEN m_Read[Slave(c)].data ELSE NoData]
  /\ m_LockSW' = m_LockSW + 1
  /\ op' = [op EXCEPT ![c] = NoOp]
  /\ Go(c, "idle")
  /\ UNCHANGED <<reqVars, busVars, maxiVars, engVars, mem>>

-------------------------------------------------------------------------------
(* BusSlave::WriteAck and ReadAck, up to their Lock(500).  Mutant: the      *)
(* acknowledge goes to the software whoever asked.                          *)
WriteAckAlways(s) ==
  /\ m_Write' = [m_Write EXCEPT ![s].bEnable = FALSE]
  /\ m_LockBusAck' = [m_LockBusAck EXCEPT ![s] = @ + 1]
  /\ engine' = "lock"
  /\ UNCHANGED <<m_Read, hold>>

WriteAck(s) ==
  /\ m_Write' = [m_Write EXCEPT ![s].bEnable = FALSE]
  /\ m_LockBusAck' = [m_LockBusAck EXCEPT ![s] =
                        IF m_Write[s].bWait THEN @ ELSE @ + 1]
  /\ engine' = "lock"
  /\ UNCHANGED <<m_Read, hold>>

ReadAck(s, d) ==
  /\ m_Read' = [m_Read EXCEPT ![s].bEnable = FALSE, ![s].data = d]
  /\ m_LockBusAck' = [m_LockBusAck EXCEPT ![s] =
                        IF m_Read[s].bWait THEN @ ELSE @ + 1]
  /\ engine' = "lock"
  /\ UNCHANGED <<m_Write, hold>>

(* What a bus model leaves alone, and its moves from place to place.        *)
Clocked(s, k) ==
  /\ engine = "run"
  /\ kind[s] = k
  /\ UNCHANGED <<swVars, maxiVars, kind>>

MoveW(s, from, to) ==
  /\ wstate[s] = from
  /\ wstate' = [wstate EXCEPT ![s] = to]
  /\ UNCHANGED rstate

MoveR(s, from, to) ==
  /\ rstate[s] = from
  /\ rstate' = [rstate EXCEPT ![s] = to]
  /\ UNCHANGED wstate

NoAccess == UNCHANGED <<reqVars, engVars, served, mem>>

Accept(s) == mem' = [mem EXCEPT ![m_Write[s].addr] = m_Write[s].data]
Answer(s) == mem[m_Read[s].addr]

(* SAXI_Lite::BusWrite.  BUS_STATE_RESET lasts one clock.                   *)
WriteUp(s) == Clocked(s, "saxi") /\ MoveW(s, "reset", "idle") /\ NoAccess

GetWrite(s) ==
  /\ m_Write[s].bEnable
  /\ Clocked(s, "saxi") /\ MoveW(s, "idle", "control") /\ NoAccess

(* The address and the data have been accepted.                             *)
WriteControl(s) ==
  /\ Clocked(s, "saxi") /\ MoveW(s, "control", "resp")
  /\ Accept(s) /\ WriteAck(s) /\ UNCHANGED served

(* BVALID.                                                                  *)
WriteResp(s) == Clocked(s, "saxi") /\ MoveW(s, "resp", "idle") /\ NoAccess

(* SAXI_Lite::BusRead.                                                      *)
ReadUp(s) == Clocked(s, "saxi") /\ MoveR(s, "reset", "idle") /\ NoAccess

GetRead(s) ==
  /\ m_Read[s].bEnable
  /\ Clocked(s, "saxi") /\ MoveR(s, "idle", "control") /\ NoAccess

(* ARREADY.                                                                 *)
ReadControl(s) == Clocked(s, "saxi") /\ MoveR(s, "control", "data") /\ NoAccess

(* RVALID.                                                                  *)
ReadData(s) ==
  /\ Clocked(s, "saxi") /\ MoveR(s, "data", "idle")
  /\ ReadAck(s, Answer(s)) /\ UNCHANGED <<served, mem>>

-------------------------------------------------------------------------------
(* APB_Slave::BusSignal.  Reads go first.                                   *)
ApbIdle(s) ==
  /\ Clocked(s, "apb") /\ NoAccess
  /\ wstate[s] = "idle" /\ rstate[s] = "idle"
  /\ IF m_Read[s].bEnable THEN MoveR(s, "idle", "start")
     ELSE m_Write[s].bEnable /\ MoveW(s, "idle", "start")

ApbStart(s) ==
  /\ Clocked(s, "apb") /\ NoAccess
  /\ MoveW(s, "start", "data") \/ MoveR(s, "start", "data")

(* PREADY: the design has taken the access, the caller has no answer yet.   *)
ApbData(s) ==
  /\ Clocked(s, "apb")
  /\ \/ /\ MoveW(s, "data", "ack") /\ Accept(s)
        /\ served' = served \cup {s}
        /\ UNCHANGED m_Read
     \/ /\ MoveR(s, "data", "ack")
        /\ m_Read' = [m_Read EXCEPT ![s].data = Answer(s)]
        /\ UNCHANGED <<served, mem>>
  /\ UNCHANGED <<m_Write, m_LockBusAck, engVars>>

ApbAck(s) ==
  /\ Clocked(s, "apb") /\ UNCHANGED mem
  /\ \/ MoveW(s, "ack", "idle") /\ WriteAck(s) /\ served' = served \ {s}
     \/ MoveR(s, "ack", "idle") /\ ReadAck(s, m_Read[s].data) /\ UNCHANGED served

(* VirtualSlave::BusWrite and BusRead: m_pReadPacket is set in "control",   *)
(* "data" and "lost", m_bReadWait in "data".                                *)
VirtualWrite(s) ==
  /\ m_Write[s].bEnable
  /\ Clocked(s, "virtual")
  /\ Accept(s) /\ WriteAck(s) /\ UNCHANGED <<wstate, rstate, served>>

VirtualRead(s) ==
  /\ m_Read[s].bEnable
  /\ Clocked(s, "virtual") /\ MoveR(s, "idle", "control") /\ NoAccess

VirtualWait(s) == Clocked(s, "virtual") /\ MoveR(s, "control", "data") /\ NoAccess

(* After a reset DATA is not the answer to this read.                       *)
VirtualAnswer(s) ==
  /\ Clocked(s, "virtual") /\ UNCHANGED <<served, mem>>
  /\ \/ MoveR(s, "data", "idle") /\ ReadAck(s, Answer(s))
     \/ MoveR(s, "lost", "idle") /\ \E d \in Data : ReadAck(s, d)

-------------------------------------------------------------------------------
(* nRST falls: SAXI_Lite and APB_Slave forget the packet, VirtualSlave and  *)
(* the slave's requests do not.                                             *)
AtReset(s, state) ==
  IF kind[s] = "saxi" THEN "reset"
  ELSE IF kind[s] = "apb" \/ state = "idle" THEN "idle"
  ELSE "lost"

SlaveReset(s) ==
  /\ engine = "run"
  /\ kind[s] \in SlaveResets
  /\ wstate' = [wstate EXCEPT ![s] = AtReset(s, @)]
  /\ rstate' = [rstate EXCEPT ![s] = AtReset(s, @)]
  /\ UNCHANGED <<swVars, reqVars, kind, served, maxiVars, engVars, mem>>

(* The m_pSim->Lock(500) that ends WriteAck and ReadAck.                    *)
AckLock ==
  /\ engine = "lock"
  /\ engine' = "run"
  /\ hold' = hold - 1
  /\ UNCHANGED <<swVars, reqVars, busVars, maxiVars, mem>>

-------------------------------------------------------------------------------
(* MAXI::BusWriteData and MAXI::BusReadData on an address that is not in    *)
(* memory: MAXI_STATUS_INIT with FindSlave, then SLAVE_REQUEST, SLAVE_WAIT. *)
Advance(m, st) ==
  /\ engine = "run"
  /\ status' = [status EXCEPT ![m] = st]

MaxiStart(m, o) ==
  /\ status[m] = "none"
  /\ o.kind = IF m \in Writers THEN "write" ELSE "read"
  /\ Advance(m, "request")
  /\ desc' = [desc EXCEPT ![m] = o]
  /\ UNCHANGED <<swVars, reqVars, busVars, engVars, mem>>

Target(m) == SlaveOf(desc[m].addr)

(* Mutants: a hardware write does not wake the engine; it is taken for a    *)
(* software one.                                                            *)
RequestAsleep(m) ==
  /\ m \in Writers
  /\ status[m] = "request"
  /\ WriteFree(Target(m))
  /\ m_Write' = [m_Write EXCEPT ![Target(m)] =
       [bEnable |-> TRUE, bWait |-> TRUE,
        addr |-> desc[m].addr, data |-> desc[m].data]]
  /\ Advance(m, "wait")
  /\ UNCHANGED <<swVars, m_Read, m_LockBusAck, busVars, desc, engVars, mem>>

RequestNoWait(m) ==
  /\ m \in Writers
  /\ status[m] = "request"
  /\ WriteFree(Target(m))
  /\ m_Write' = [m_Write EXCEPT ![Target(m)] =
       [bEnable |-> TRUE, bWait |-> FALSE,
        addr |-> desc[m].addr, data |-> desc[m].data]]
  /\ hold' = hold + 1
  /\ Advance(m, "wait")
  /\ UNCHANGED <<swVars, m_Read, m_LockBusAck, busVars, desc, engine, mem>>

RequestWrite(m) ==
  /\ m \in Writers
  /\ status[m] = "request"
  /\ WriteFree(Target(m))
  /\ m_Write' = [m_Write EXCEPT ![Target(m)] =
       [bEnable |-> TRUE, bWait |-> TRUE,
        addr |-> desc[m].addr, data |-> desc[m].data]]
  /\ hold' = hold + 1
  /\ Advance(m, "wait")
  /\ UNCHANGED <<swVars, m_Read, m_LockBusAck, busVars, desc, engine, mem>>

RequestRead(m) ==
  /\ m \in Readers
  /\ status[m] = "request"
  /\ ~ m_Read[Target(m)].bEnable /\ ~ m_Read[Target(m)].bWait
  /\ m_Read' = [m_Read EXCEPT ![Target(m)] =
       [@ EXCEPT !.bEnable = TRUE, !.bWait = TRUE, !.addr = desc[m].addr]]
  /\ hold' = hold + 1
  /\ Advance(m, "wait")
  /\ UNCHANGED <<swVars, m_Write, m_LockBusAck, busVars, desc, engine, mem>>

(* Mutant: the slave is not given back.                                     *)
WaitKeeps(m) ==
  /\ status[m] = "wait"
  /\ ~ m_Write[Target(m)].bEnable /\ m_Write[Target(m)].bWait
  /\ Advance(m, "done")
  /\ desc' = [desc EXCEPT ![m] = NoOp]
  /\ UNCHANGED <<swVars, reqVars, busVars, engVars, mem>>

(* Both channels of MAXI poll WaitWrite.                                    *)
WaitWrite(m) ==
  /\ status[m] = "wait"
  /\ ~ m_Write[Target(m)].bEnable /\ m_Write[Target(m)].bWait
  /\ m_Write' = [m_Write EXCEPT ![Target(m)].bWait = FALSE]
  /\ Advance(m, "done")
  /\ desc' = [desc EXCEPT ![m] = NoOp]
  /\ UNCHANGED <<swVars, m_Read, m_LockBusAck, busVars, engVars, mem>>

(* nRST: pDesc = NULL.  No other step leaves MAXI_STATUS_DONE.              *)
MaxiReset(m) ==
  /\ m \in MaxiResets
  /\ Advance(m, "none")
  /\ desc' = [desc EXCEPT ![m] = NoOp]
  /\ UNCHANGED <<swVars, reqVars, busVars, engVars, mem>>

-------------------------------------------------------------------------------
ClientStep(c) ==
  \/ \E o \in Ops : Call(c, o)
  \/ LockSW(c) \/ TryWrite(c) \/ TryRead(c)
  \/ Unlock(c) \/ AckDown(c) \/ Return(c)

WriteStep(s) ==
  WriteUp(s) \/ GetWrite(s) \/ WriteControl(s) \/ WriteResp(s) \/ VirtualWrite(s)

ReadStep(s) ==
  \/ ReadUp(s) \/ GetRead(s) \/ ReadControl(s) \/ ReadData(s)
  \/ VirtualRead(s) \/ VirtualWait(s) \/ VirtualAnswer(s)

ApbStep(s) == ApbIdle(s) \/ ApbStart(s) \/ ApbData(s) \/ ApbAck(s)

SlaveStep(s) == WriteStep(s) \/ ReadStep(s) \/ ApbStep(s)

MaxiStep(m) ==
  \/ \E o \in Ops : MaxiStart(m, o)
  \/ RequestWrite(m) \/ RequestRead(m) \/ WaitWrite(m) \/ MaxiReset(m)

Next ==
  \/ \E c \in Clients : ClientStep(c)
  \/ \E s \in Slaves : SlaveStep(s) \/ SlaveReset(s)
  \/ AckLock
  \/ \E m \in Channels : MaxiStep(m)

Spec == Init /\ [][Next]_vars

(* A software thread inside a call goes on; a semaphore serves its waiters; *)
(* the engine evaluates the bus models again and again while a hold is open *)
(* (HeldGetsClock of DelayLock), and the design answers.                    *)
Fairness ==
  /\ \A c \in Clients :
       /\ SF_vars(LockSW(c))
       /\ WF_vars(TryWrite(c)) /\ WF_vars(TryRead(c))
       /\ WF_vars(Unlock(c)) /\ WF_vars(AckDown(c)) /\ WF_vars(Return(c))
  /\ WF_vars(AckLock)
  /\ \A s \in Slaves :
       /\ SF_vars(hold > 0 /\ WriteStep(s))
       /\ SF_vars(hold > 0 /\ ReadStep(s))
       /\ SF_vars(hold > 0 /\ ApbStep(s))
  /\ \A m \in Channels : SF_vars(WaitWrite(m))

FairSpec == Spec /\ Fairness

-------------------------------------------------------------------------------
TypeOK ==
  /\ m_LockSW \in {0, 1}
  /\ m_LockBusAck \in [Slaves -> Nat]
  /\ m_Write \in [Slaves -> Requests]
  /\ m_Read \in [Slaves -> Requests]
  /\ kind \in [Slaves -> Kinds]
  /\ wstate \in [Slaves -> {"reset", "idle", "control", "resp", "start", "data", "ack"}]
  /\ rstate \in
       [Slaves -> {"reset", "idle", "control", "data", "start", "ack", "lost"}]
  /\ served \subseteq Slaves
  /\ pc \in [Clients -> {"idle", "lock", "try", "unlock", "wait", "return"}]
  /\ op \in [Clients -> Ops]
  /\ ret \in [Clients -> Data \cup {NoData}]
  /\ status \in [Channels -> {"none", "request", "wait", "done"}]
  /\ desc \in [Channels -> Ops]
  /\ engine \in {"run", "lock"}
  /\ hold \in Int
  /\ mem \in [Regs -> Data]

N(b) == IF b THEN 1 ELSE 0

(* Every request that can be seen keeps the engine awake, once: the         *)
(* Unlock()s and Lock(500)s of BusSlave.cpp balance, but for the callers    *)
(* that have published a request and not yet unlocked.                      *)
HoldLedger ==
  hold - N(engine = "lock") =
    Cardinality({s \in Slaves : m_Write[s].bEnable})
      + Cardinality({s \in Slaves : m_Read[s].bEnable})
      - Cardinality({c \in Clients : pc[c] = "unlock"})

(* An acknowledge is never left over: one in m_LockBusAck belongs to the    *)
(* caller that is about to take it.  Otherwise the next call on that slave  *)
(* would return before its access (BusSlave.cpp, WriteAck and ReadAck).     *)
AckBelongs ==
  \A s \in Slaves : m_LockBusAck[s] > 0 =>
    /\ m_LockBusAck[s] = 1
    /\ \E c \in Clients : pc[c] \in {"unlock", "wait"} /\ Slave(c) = s

(* A hardware write that waits for its answer has the slave for itself and  *)
(* the packet is still its own (BusSlave.cpp, RequestWrite and WaitWrite).  *)
WaitersOwnSlave ==
  \A m \in Writers : status[m] = "wait" =>
    /\ m_Write[Target(m)].bWait
    /\ m_Write[Target(m)].addr = desc[m].addr
    /\ m_Write[Target(m)].data = desc[m].data
    /\ \A n \in Writers \ {m} :
         ~ (status[n] = "wait" /\ Target(n) = Target(m))

(* Without a reset of the master, a slave is taken by a hardware write only *)
(* as long as somebody will collect the answer: an orphan would make every  *)
(* later software access to that slave spin for ever, with m_LockSW taken.  *)
WaitHasOwner ==
  \A s \in Slaves : m_Write[s].bWait =>
    \E m \in Writers : status[m] = "wait" /\ Target(m) = s

(* RegRead and RegWrite return.                                             *)
CallReturns == \A c \in Clients : (pc[c] # "idle") ~> (pc[c] = "idle")

(* A hardware write that a slave has taken is answered, unless a read       *)
(* channel has taken an answer for its own (see MaxiReadAnswered).  On APB, *)
(* which serves reads first, software that reads on and on may hold it off. *)
MaxiWriteDone ==
  \A m \in Writers : (status[m] = "wait" /\ kind[Target(m)] # "apb") ~>
    (status[m] = "done" \/ \E r \in Readers : status[r] = "done")

(* MAXI ends a read of a slave with data only when the slave has answered   *)
(* that read: it waits "for slave transaction" (AXI_Master.cpp:416).        *)
MaxiReadAnswered ==
  [][\A m \in Readers :
       status[m] = "wait" /\ status'[m] = "done" => ~ m_Read[Target(m)].bEnable]_vars

(* What RegRead is about to return is the answer to its own request, "read  *)
(* register" (ddk/SystemHAL.h:58), and not to a later one on that slave.    *)
ReadReturnsOwn ==
  \A c \in Clients : pc[c] = "return" /\ op[c].kind = "read" =>
    \/ m_Read[Slave(c)].addr = op[c].addr
    \/ m_Read[Slave(c)].bEnable

-------------------------------------------------------------------------------
(* The abstract register bus.  A call takes effect at its acknowledge, a    *)
(* write on APB when the design has taken it.                               *)
Acknowledged(c) ==
  \/ pc[c] = "return"
  \/ /\ pc[c] \in {"unlock", "wait"}
     /\ \/ m_LockBusAck[Slave(c)] > 0
        \/ op[c].kind = "write" /\ Slave(c) \in served

AbstractCall(c) ==
  [state |-> IF pc[c] = "idle" THEN "none"
             ELSE IF Acknowledged(c) THEN "done" ELSE "pending",
   kind  |-> op[c].kind,
   addr  |-> op[c].addr,
   data  |-> IF op[c].kind = "read" /\ Acknowledged(c)
               THEN m_Read[Slave(c)].data ELSE op[c].data]

Bus == INSTANCE RegisterBus WITH
  call <- [c \in Clients |-> AbstractCall(c)]

BusSpec == Bus!BusSpec
===============================================================================
