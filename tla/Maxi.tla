---------------------------------- MODULE Maxi ---------------------------------
(***************************************************************************)
(* MAXI, the model of the memory behind an AXI master of the design:       *)
(*   HDL/dpi/AXI_Master.cpp   address phases, memory bursts, responses     *)
(*   HDL/dpi/RoundQueue.h     the queue between the two                    *)
(* Each clock of the design calls MAXIW_Interface and MAXIR_Interface, and *)
(* each of them first the data phase, then the address phase: one step.    *)
(* The two share only the engine's hold and the bandwidth, so each has its *)
(* clocks in its own time here.  A burst to a slave goes on in BusSlave;   *)
(* here the slave takes and answers it at some time.                       *)
(*                                                                         *)
(* Every LOGE ends the simulation (SystemLog::Log), so the design keeps to *)
(* the bursts that MAXI supports, and nothing waits for MAXI_TIMEOUT_COUNT *)
(* clocks.  Whether the bandwidth is valid is open in every clock.         *)
(***************************************************************************)
EXTENDS Integers, Sequences, FiniteSets

CONSTANTS Writes, Reads,   \* the bursts of the design
          Beats,           \* their numbers of beats
          ToSlave,         \* those whose address is not in memory
          Loads,           \* sets of bursts; an execution issues those of one
          QueueSize,       \* 4
          MaxLost          \* bound on the holds that resets leave behind

Bursts == Writes \cup Reads

ASSUME MaxiAssumption ==
  /\ QueueSize \in Nat \ {0}
  /\ Writes \cap Reads = {} /\ Bursts # {}
  /\ Beats \in [Bursts -> Nat \ {0}]
  /\ ToSlave \subseteq Bursts /\ \A t \in ToSlave : Beats[t] = 1
  /\ Loads \subseteq SUBSET Bursts
  /\ MaxLost \in Nat

VARIABLES
  queue,          \* m_WriteQ and m_ReadQ: [m_pQ, m_dwHead, m_dwTail, m_dwRestCount,
                  \* m_Pop]
  READY,          \* AWREADY, ARREADY
  pDesc,          \* whether m_Write.pDesc, m_Read.pDesc point to the queue's m_Pop
  WREADY, BVALID, RVALID, RLAST,
  hold,           \* AquireBus()es less ReleaseBus()es
  nRST,           \* the reset in the last clock, active low
  load            \* the bursts that the design issues

vars == <<queue, READY, pDesc, WREADY, BVALID, RVALID, RLAST, hold, nRST, load>>

-------------------------------------------------------------------------------
Dirs == {"W", "R"}
Of(d) == IF d = "W" THEN Writes ELSE Reads

AnyOf(d) == CHOOSE t \in Bursts : Of(d) = {} \/ t \in Of(d)
Desc == [tx : Bursts, BEAT : Nat, status : {"init", "request", "wait", "memory", "done"}]
NewDesc(t) == [tx |-> t, BEAT |-> Beats[t], status |-> "init"]

(* RoundQueue.                                                              *)
IsEmpty(q) == q.m_dwRestCount = QueueSize
IsFull(q) == q.m_dwRestCount = 0

Push(q, t) ==
  [q EXCEPT !.m_pQ[q.m_dwHead] = t, !.m_dwRestCount = @ - 1,
            !.m_dwHead = (@ + 1) % QueueSize]

(* Mutant: the slot is not given back.                                      *)
PopKeeps(q) ==
  [q EXCEPT !.m_Pop = NewDesc(q.m_pQ[q.m_dwTail]), !.m_dwTail = (@ + 1) % QueueSize]

(* The one element m_Pop, which pDesc points to.                            *)
Pop(q) ==
  [q EXCEPT !.m_Pop = NewDesc(q.m_pQ[q.m_dwTail]), !.m_dwRestCount = @ + 1,
            !.m_dwTail = (@ + 1) % QueueSize]

Count(q) == QueueSize - q.m_dwRestCount
Waiting(d) ==
  [k \in 1 .. Count(queue[d]) |->
     [tx |-> queue[d].m_pQ[(queue[d].m_dwTail + k - 1) % QueueSize],
      left |-> Beats[queue[d].m_pQ[(queue[d].m_dwTail + k - 1) % QueueSize]]]]

N(b) == IF b THEN 1 ELSE 0

(* The burst in service with what is left of it: the beats of a write, and  *)
(* after them its response; the beats of a read, with the one on the bus.   *)
InService(d) ==
  LET desc == queue[d].m_Pop
  IN  IF pDesc[d]
        THEN <<[tx |-> desc.tx,
                left |-> desc.BEAT + N(d = "R" /\ RVALID /\ desc.status = "memory")]>>
      ELSE IF d = "W" /\ BVALID THEN <<[tx |-> desc.tx, left |-> 0]>>
      ELSE <<>>

Open(d) == InService(d) \o Waiting(d)
Issued(d) == {Open(d)[k].tx : k \in DOMAIN Open(d)}

(* The holds that belong to no open burst.                                  *)
Balance(d) ==
  hold[d] - (Count(queue[d]) + N(pDesc[d] /\ queue[d].m_Pop.status # "done"))

Init ==
  /\ queue = [d \in Dirs |->
       [m_pQ |-> [k \in 0 .. QueueSize - 1 |-> AnyOf(d)], m_dwHead |-> 0,
        m_dwTail |-> 0, m_dwRestCount |-> QueueSize, m_Pop |-> NewDesc(AnyOf(d))]]
  /\ READY = [d \in Dirs |-> FALSE]
  /\ pDesc = [d \in Dirs |-> FALSE]
  /\ WREADY = FALSE /\ BVALID = FALSE /\ RVALID = FALSE /\ RLAST = FALSE
  /\ hold = [d \in Dirs |-> 0]
  /\ nRST = [d \in Dirs |-> TRUE]
  /\ load \in Loads

-------------------------------------------------------------------------------
(* Mutant: READY comes without a look at the queue.                         *)
ReadyOf(q) == TRUE

MayReady(q) == ~IsFull(q)

(* BusWriteRequest, BusReadRequest and the Lite ones, after a data phase    *)
(* that has left the queue q and h holds.                                   *)
Request(d, q, h) ==
  /\ \/ /\ READY[d]
        /\ \E t \in (load \cap Of(d)) \ Issued(d) :
             queue' = [queue EXCEPT ![d] = Push(q, t)]
        /\ READY' = [READY EXCEPT ![d] = FALSE]
        /\ hold' = [hold EXCEPT ![d] = h + 1]
     \/ /\ queue' = [queue EXCEPT ![d] = q]
        /\ READY' = [READY EXCEPT ![d] = @ \/ MayReady(q)]
        /\ hold' = [hold EXCEPT ![d] = h]
  /\ nRST' = [nRST EXCEPT ![d] = TRUE]
  /\ UNCHANGED load

(* Mutant: the reset empties the queue as well.                             *)
ResetEmpties(d) ==
  /\ Balance(d) < MaxLost
  /\ nRST' = [nRST EXCEPT ![d] = FALSE]
  /\ pDesc' = [pDesc EXCEPT ![d] = FALSE]
  /\ READY' = [READY EXCEPT ![d] = FALSE]
  /\ queue' = [queue EXCEPT ![d].m_dwTail = queue[d].m_dwHead,
                            ![d].m_dwRestCount = QueueSize]
  /\ IF d = "W"
       THEN WREADY' = FALSE /\ BVALID' = FALSE /\ UNCHANGED <<RVALID, RLAST>>
       ELSE RVALID' = FALSE /\ RLAST' = FALSE /\ UNCHANGED <<WREADY, BVALID>>
  /\ UNCHANGED <<hold, load>>

(* The queue is not emptied, and the burst in service keeps its hold.       *)
Reset(d) ==
  /\ Balance(d) < MaxLost
  /\ nRST' = [nRST EXCEPT ![d] = FALSE]
  /\ pDesc' = [pDesc EXCEPT ![d] = FALSE]
  /\ READY' = [READY EXCEPT ![d] = FALSE]
  /\ IF d = "W"
       THEN WREADY' = FALSE /\ BVALID' = FALSE /\ UNCHANGED <<RVALID, RLAST>>
       ELSE RVALID' = FALSE /\ RLAST' = FALSE /\ UNCHANGED <<WREADY, BVALID>>
  /\ UNCHANGED <<queue, hold, load>>

Status(d, s) == pDesc[d] /\ queue[d].m_Pop.status = s
SetStatus(d, s) == [queue[d] EXCEPT !.m_Pop.status = s]

(* MAXI_STATUS_INIT.                                                        *)
Target(d) ==
  /\ Status(d, "init")
  /\ Request(d, SetStatus(d, IF queue[d].m_Pop.tx \in ToSlave THEN "request"
                             ELSE "memory"), hold[d])
  /\ UNCHANGED <<pDesc, WREADY, BVALID, RVALID, RLAST>>

(* MAXI_STATUS_DONE has no case: the channel never leaves it.               *)
Done(d) ==
  /\ Status(d, "done")
  /\ Request(d, queue[d], hold[d])
  /\ UNCHANGED <<pDesc, WREADY, BVALID, RVALID, RLAST>>

-------------------------------------------------------------------------------
(* BusWriteData.                                                            *)
WritePop ==
  /\ ~pDesc["W"] /\ ~BVALID /\ ~IsEmpty(queue["W"])
  /\ pDesc' = [pDesc EXCEPT !["W"] = TRUE]
  /\ Request("W", Pop(queue["W"]), hold["W"])
  /\ UNCHANGED <<WREADY, BVALID, RVALID, RLAST>>

WriteIdle ==
  /\ ~pDesc["W"] /\ ~BVALID /\ IsEmpty(queue["W"])
  /\ Request("W", queue["W"], hold["W"])
  /\ UNCHANGED <<pDesc, WREADY, BVALID, RVALID, RLAST>>

WriteRespond(bready) ==
  /\ ~pDesc["W"] /\ BVALID
  /\ BVALID' = ~bready
  /\ Request("W", queue["W"], hold["W"])
  /\ UNCHANGED <<pDesc, WREADY, RVALID, RLAST>>

Takes(wvalid) == WREADY /\ wvalid

WriteMemory(wvalid, valid) ==
  LET q == [queue["W"] EXCEPT !.m_Pop.BEAT = @ - N(Takes(wvalid))]
      end == q.m_Pop.BEAT = 0
  IN  /\ Status("W", "memory")
      /\ WREADY' = (valid /\ ~end)
      /\ BVALID' = (BVALID \/ end)
      /\ pDesc' = [pDesc EXCEPT !["W"] = ~end]
      /\ Request("W", q, hold["W"] - N(end))
      /\ UNCHANGED <<RVALID, RLAST>>

(* RequestWrite and WaitWrite of the slave may refuse.                      *)
WriteSlave ==
  \/ /\ Status("W", "request")
     /\ \/ Request("W", SetStatus("W", "wait"), hold["W"]) /\ WREADY' = TRUE
        \/ Request("W", queue["W"], hold["W"]) /\ UNCHANGED WREADY
     /\ UNCHANGED <<pDesc, BVALID, RVALID, RLAST>>
  \/ /\ Status("W", "wait")
     /\ WREADY' = FALSE
     /\ \/ Request("W", SetStatus("W", "done"), hold["W"] - 1)
        \/ Request("W", queue["W"], hold["W"])
     /\ UNCHANGED <<pDesc, BVALID, RVALID, RLAST>>

-------------------------------------------------------------------------------
(* BusReadData.                                                             *)
ReadPop ==
  /\ ~pDesc["R"] /\ ~IsEmpty(queue["R"])
  /\ pDesc' = [pDesc EXCEPT !["R"] = TRUE]
  /\ RLAST' = FALSE /\ RVALID' = FALSE
  /\ Request("R", Pop(queue["R"]), hold["R"])
  /\ UNCHANGED <<WREADY, BVALID>>

ReadIdle ==
  /\ ~pDesc["R"] /\ IsEmpty(queue["R"])
  /\ RLAST' = FALSE /\ RVALID' = FALSE
  /\ Request("R", queue["R"], hold["R"])
  /\ UNCHANGED <<pDesc, WREADY, BVALID>>

ReadEnd ==
  /\ Status("R", "memory") /\ RLAST    \* and RREADY
  /\ pDesc' = [pDesc EXCEPT !["R"] = FALSE]
  /\ RLAST' = FALSE /\ RVALID' = FALSE
  /\ Request("R", queue["R"], hold["R"] - 1)
  /\ UNCHANGED <<WREADY, BVALID>>

(* Mutant: RLAST comes with the last beat but one.                          *)
LastOfTwo(beat) == beat <= 1

LastBeat(beat) == beat = 0

(* A beat is put on the bus when there is none or it is taken.              *)
ReadMemory(rready, valid) ==
  LET beat == queue["R"].m_Pop.BEAT - N(valid)
  IN  /\ Status("R", "memory") /\ ~(RLAST /\ rready)
      /\ IF ~RVALID \/ rready
           THEN /\ RVALID' = valid
                /\ RLAST' = IF valid THEN LastBeat(beat) ELSE RLAST
                /\ Request("R", [queue["R"] EXCEPT !.m_Pop.BEAT = beat], hold["R"])
           ELSE Request("R", queue["R"], hold["R"]) /\ UNCHANGED <<RVALID, RLAST>>
      /\ UNCHANGED <<pDesc, WREADY, BVALID>>

ReadSlave ==
  \/ /\ Status("R", "request")
     /\ \/ Request("R", SetStatus("R", "wait"), hold["R"])
        \/ Request("R", queue["R"], hold["R"])
     /\ UNCHANGED <<pDesc, WREADY, BVALID, RVALID, RLAST>>
  \/ /\ Status("R", "wait")
     /\ \/ /\ Request("R", SetStatus("R", "done"), hold["R"] - 1)
           /\ RVALID' = TRUE /\ RLAST' = TRUE
        \/ /\ Request("R", queue["R"], hold["R"])
           /\ UNCHANGED <<RVALID, RLAST>>
     /\ UNCHANGED <<pDesc, WREADY, BVALID>>

-------------------------------------------------------------------------------
Next ==
  \/ \E d \in Dirs : Reset(d) \/ Target(d) \/ Done(d)
  \/ WritePop \/ WriteIdle \/ WriteSlave
  \/ \E b \in BOOLEAN : WriteRespond(b)
  \/ \E v, b \in BOOLEAN : WriteMemory(v, b) \/ ReadMemory(v, b)
  \/ ReadPop \/ ReadIdle \/ ReadEnd \/ ReadSlave

Spec == Init /\ [][Next]_vars

(* While a burst is open the engine is awake and the clock runs; the design *)
(* gives and takes its beats, and the bandwidth is valid again and again,   *)
(* for what was consumed is divided by a time that grows.                   *)
Fairness ==
  /\ \A d \in Dirs : SF_vars(Target(d))
  /\ SF_vars(WritePop) /\ SF_vars(WriteRespond(TRUE))
  /\ SF_vars(\E v \in BOOLEAN : WriteMemory(v, TRUE))
  /\ SF_vars(WREADY /\ \E b \in BOOLEAN : WriteMemory(TRUE, b))
  /\ SF_vars(ReadPop) /\ SF_vars(ReadEnd) /\ SF_vars(ReadMemory(TRUE, TRUE))

FairSpec == Spec /\ Fairness

-------------------------------------------------------------------------------
RoundQueue ==
  [m_pQ : [0 .. QueueSize - 1 -> Bursts], m_dwHead : 0 .. QueueSize - 1,
   m_dwTail : 0 .. QueueSize - 1, m_dwRestCount : 0 .. QueueSize, m_Pop : Desc]

(* The types, and what every Push relies on: it never meets a full queue,   *)
(* for which it would return NULL (RoundQueue.h), since READY is given only *)
(* for a free slot.  A write in memory has a beat to come, and RLAST goes   *)
(* with the last beat of a read.                                            *)
TypeOK ==
  /\ queue \in [Dirs -> RoundQueue]
  /\ READY \in [Dirs -> BOOLEAN] /\ pDesc \in [Dirs -> BOOLEAN]
  /\ WREADY \in BOOLEAN /\ BVALID \in BOOLEAN
  /\ RVALID \in BOOLEAN /\ RLAST \in BOOLEAN
  /\ hold \in [Dirs -> Int] /\ nRST \in [Dirs -> BOOLEAN]
  /\ load \subseteq Bursts
  /\ \A d \in Dirs : READY[d] => ~IsFull(queue[d])
  /\ Status("W", "memory") => queue["W"].m_Pop.BEAT > 0
  /\ Status("R", "memory") =>
       (RLAST <=> queue["R"].m_Pop.BEAT = 0) /\ (RLAST => RVALID)

(* Each open burst holds the engine awake, once: the AquireBus() of its     *)
(* acceptance is undone by one ReleaseBus(), at its end or when a slave has *)
(* answered.  Only a reset leaves a hold behind, that of the burst in       *)
(* service.                                                                 *)
LedgerStep(d) ==
  \/ Balance(d)' = Balance(d)
  \/ /\ ~nRST'[d] /\ pDesc[d] /\ queue[d].m_Pop.status # "done"
     /\ Balance(d)' = Balance(d) + 1

LedgerKept == [][\A d \in Dirs : LedgerStep(d)]_vars

(* The bursts are served as AxiPort promises, in both directions.           *)
WritePort == INSTANCE AxiPort WITH
  open <- Open("W"), nRST <- nRST["W"], Bursts <- Writes, Last <- 0
ReadPort == INSTANCE AxiPort WITH
  open <- Open("R"), nRST <- nRST["R"], Bursts <- Reads, Last <- 1

PortSpec == WritePort!PortSpec /\ ReadPort!PortSpec

(* A burst ends that has no access to a slave before it: the queue, the     *)
(* bandwidth and the handshakes never block each other.  (One to a slave    *)
(* stays in MAXI_STATUS_DONE, and all those behind it wait for a reset.)    *)
AheadOf(t, d) ==
  {Open(d)[k].tx : k \in {j \in DOMAIN Open(d) :
                            \E l \in DOMAIN Open(d) : l >= j /\ Open(d)[l].tx = t}}

Served ==
  \A d \in Dirs : \A t \in Of(d) :
    (t \in Issued(d) /\ AheadOf(t, d) \cap ToSlave = {}) ~> (t \notin Issued(d))
===============================================================================
