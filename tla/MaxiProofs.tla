------------------------------ MODULE MaxiProofs ------------------------------
(***************************************************************************)
(* Proofs about MAXI, for any number of bursts, any lengths and any size   *)
(* of the queue: no Push meets a full queue, only a reset leaves a hold    *)
(* behind, and both directions implement AxiPort.  Every step ends with    *)
(* Request, so what that does to the queue, the holds and READY is stated  *)
(* once.                                                                   *)
(***************************************************************************)
EXTENDS Maxi, TLAPS

(* TypeOK is inductive with what holds of a burst that has just been taken  *)
(* from the queue: it has its beats, and nothing is on the read bus.        *)
FreshOK ==
  /\ Status("W", "init") => queue["W"].m_Pop.BEAT > 0
  /\ Status("R", "init") => queue["R"].m_Pop.BEAT > 0 /\ ~RVALID /\ ~RLAST

IInv == TypeOK /\ FreshOK

-------------------------------------------------------------------------------
LEMMA ModSucc ==
  ASSUME NEW n \in Nat \ {0}, NEW x \in 0 .. n - 1
  PROVE  (x + 1) % n \in 0 .. n - 1
OBVIOUS

(* What Push and Pop do to a queue.                                         *)
LEMMA PushType ==
  ASSUME MaxiAssumption, NEW q \in RoundQueue, NEW t \in Bursts, ~IsFull(q)
  PROVE  /\ Push(q, t) \in RoundQueue /\ Push(q, t).m_Pop = q.m_Pop
         /\ Push(q, t).m_dwRestCount = q.m_dwRestCount - 1
<1>1. QueueSize \in Nat \ {0}
  BY DEF MaxiAssumption
<1>2. q.m_dwHead \in 0 .. QueueSize - 1 /\ q.m_dwRestCount \in 0 .. QueueSize
      /\ q.m_pQ \in [0 .. QueueSize - 1 -> Bursts]
  BY DEF RoundQueue
<1>3. (q.m_dwHead + 1) % QueueSize \in 0 .. QueueSize - 1
  BY <1>1, <1>2, ModSucc
<1>4. q.m_dwRestCount - 1 \in 0 .. QueueSize
  BY <1>1, <1>2 DEF IsFull
<1>5. [q.m_pQ EXCEPT ![q.m_dwHead] = t] \in [0 .. QueueSize - 1 -> Bursts]
  BY <1>2
<1> QED  BY <1>3, <1>4, <1>5 DEF Push, RoundQueue

LEMMA PopType ==
  ASSUME MaxiAssumption, NEW q \in RoundQueue, ~IsEmpty(q)
  PROVE  /\ Pop(q) \in RoundQueue
         /\ Pop(q).m_dwRestCount = q.m_dwRestCount + 1
         /\ Pop(q).m_Pop.status = "init" /\ Pop(q).m_Pop.BEAT > 0
<1>1. QueueSize \in Nat \ {0} /\ Beats \in [Bursts -> Nat \ {0}]
  BY DEF MaxiAssumption
<1>2. q.m_dwTail \in 0 .. QueueSize - 1 /\ q.m_dwRestCount \in 0 .. QueueSize
      /\ q.m_pQ \in [0 .. QueueSize - 1 -> Bursts]
  BY DEF RoundQueue
<1>3. (q.m_dwTail + 1) % QueueSize \in 0 .. QueueSize - 1
  BY <1>1, <1>2, ModSucc
<1>4. q.m_dwRestCount + 1 \in 0 .. QueueSize
  BY <1>1, <1>2 DEF IsEmpty
<1>5. q.m_pQ[q.m_dwTail] \in Bursts
  BY <1>2
<1>6. /\ NewDesc(q.m_pQ[q.m_dwTail]) \in Desc
      /\ NewDesc(q.m_pQ[q.m_dwTail]).status = "init"
      /\ NewDesc(q.m_pQ[q.m_dwTail]).BEAT > 0
  <2>1. Beats[q.m_pQ[q.m_dwTail]] \in Nat \ {0}
    BY <1>1, <1>5
  <2> QED  BY <1>5, <2>1 DEF NewDesc, Desc
<1> QED  BY <1>3, <1>4, <1>6 DEF Pop, RoundQueue

LEMMA CountType ==
  ASSUME MaxiAssumption, NEW q \in RoundQueue
  PROVE  Count(q) \in Int
<1>1. QueueSize \in Int /\ q.m_dwRestCount \in Int
  BY DEF RoundQueue, MaxiAssumption
<1> QED  BY <1>1 DEF Count

(* What the address phase does after a data phase that left q and h.        *)
LEMMA RequestStep ==
  ASSUME MaxiAssumption, TypeOK, NEW d \in Dirs, NEW q \in RoundQueue, NEW h \in Int,
         READY[d] => ~IsFull(q), Request(d, q, h)
  PROVE  /\ queue' \in [Dirs -> RoundQueue] /\ queue'[d].m_Pop = q.m_Pop
         /\ \A e \in Dirs \ {d} : queue'[e] = queue[e]
         /\ READY' \in [Dirs -> BOOLEAN]
         /\ \A e \in Dirs : READY'[e] => ~IsFull(queue'[e])
         /\ hold' \in [Dirs -> Int]
         /\ hold'[d] - Count(queue'[d]) = h - Count(q)
         /\ \A e \in Dirs \ {d} : hold'[e] = hold[e]
         /\ nRST' \in [Dirs -> BOOLEAN] /\ nRST'[d]
         /\ load' \subseteq Bursts
<1>1. /\ queue \in [Dirs -> RoundQueue] /\ READY \in [Dirs -> BOOLEAN]
      /\ hold \in [Dirs -> Int] /\ nRST \in [Dirs -> BOOLEAN] /\ load \subseteq Bursts
      /\ \A e \in Dirs : READY[e] => ~IsFull(queue[e])
  BY DEF TypeOK
<1>2. nRST' = [nRST EXCEPT ![d] = TRUE] /\ load' = load
  BY DEF Request
<1>3. q.m_dwRestCount \in 0 .. QueueSize /\ QueueSize \in Nat
  BY DEF RoundQueue, MaxiAssumption
<1>4. CASE /\ READY[d]
           /\ \E t \in (load \cap Of(d)) \ Issued(d) :
                queue' = [queue EXCEPT ![d] = Push(q, t)]
           /\ READY' = [READY EXCEPT ![d] = FALSE]
           /\ hold' = [hold EXCEPT ![d] = h + 1]
  <2>1. PICK t \in load : queue' = [queue EXCEPT ![d] = Push(q, t)]
    BY <1>4
  <2>2. /\ Push(q, t) \in RoundQueue /\ Push(q, t).m_Pop = q.m_Pop
        /\ Push(q, t).m_dwRestCount = q.m_dwRestCount - 1
    BY <1>1, <1>4, <2>1, PushType
  <2>3. hold'[d] - Count(queue'[d]) = h - Count(q)
    BY <1>1, <1>3, <1>4, <2>1, <2>2 DEF Count
  <2> QED  BY <1>1, <1>2, <1>4, <2>1, <2>2, <2>3
<1>5. CASE /\ queue' = [queue EXCEPT ![d] = q]
           /\ READY' = [READY EXCEPT ![d] = @ \/ MayReady(q)]
           /\ hold' = [hold EXCEPT ![d] = h]
  <2>1. (READY[d] \/ MayReady(q)) \in BOOLEAN
    BY <1>1 DEF MayReady, IsFull
  <2>2. \A e \in Dirs : READY'[e] => ~IsFull(queue'[e])
    BY <1>1, <1>5 DEF MayReady
  <2>3. READY' \in [Dirs -> BOOLEAN]
    BY <1>1, <1>5, <2>1
  <2> QED  BY <1>1, <1>2, <1>5, <2>2, <2>3
<1> QED  BY <1>4, <1>5 DEF Request

(* What the data phase does to the burst in service leaves the queue alone. *)
LEMMA StatusType ==
  ASSUME NEW q \in RoundQueue, NEW s \in {"init", "request", "wait", "memory", "done"},
         NEW r, r = [q EXCEPT !.m_Pop.status = s]
  PROVE  /\ r \in RoundQueue /\ r.m_dwRestCount = q.m_dwRestCount
         /\ r.m_Pop.status = s /\ r.m_Pop.BEAT = q.m_Pop.BEAT
BY DEF RoundQueue, Desc

LEMMA BeatType ==
  ASSUME NEW q \in RoundQueue, NEW b \in Nat, NEW r, r = [q EXCEPT !.m_Pop.BEAT = b]
  PROVE  /\ r \in RoundQueue /\ r.m_dwRestCount = q.m_dwRestCount
         /\ r.m_Pop.status = q.m_Pop.status /\ r.m_Pop.BEAT = b
BY DEF RoundQueue, Desc

-------------------------------------------------------------------------------
(* A clock of direction d whose data phase leaves the queue q, the holds h  *)
(* and the descriptor p keeps the invariant and the balance of the holds,   *)
(* if its own burst does.                                                   *)
LEMMA Clocked ==
  ASSUME MaxiAssumption, IInv,
         NEW d \in Dirs, NEW q \in RoundQueue, NEW h \in Int, NEW p \in BOOLEAN,
         READY[d] => ~IsFull(q), Request(d, q, h), pDesc' = [pDesc EXCEPT ![d] = p],
         WREADY' \in BOOLEAN, BVALID' \in BOOLEAN, RVALID' \in BOOLEAN, RLAST' \in BOOLEAN,
         h - Count(q) - N(p /\ q.m_Pop.status # "done") = Balance(d),
         d = "W" => /\ UNCHANGED <<RVALID, RLAST>>
                    /\ p /\ q.m_Pop.status \in {"init", "memory"} => q.m_Pop.BEAT > 0,
         d = "R" => /\ p /\ q.m_Pop.status = "init" =>
                         q.m_Pop.BEAT > 0 /\ ~RVALID' /\ ~RLAST'
                    /\ p /\ q.m_Pop.status = "memory" =>
                         (RLAST' <=> q.m_Pop.BEAT = 0) /\ (RLAST' => RVALID')
  PROVE  IInv' /\ \A e \in Dirs : Balance(e)' = Balance(e)
<1>1. /\ queue' \in [Dirs -> RoundQueue] /\ queue'[d].m_Pop = q.m_Pop
      /\ \A e \in Dirs \ {d} : queue'[e] = queue[e]
      /\ READY' \in [Dirs -> BOOLEAN]
      /\ \A e \in Dirs : READY'[e] => ~IsFull(queue'[e])
      /\ hold' \in [Dirs -> Int]
      /\ hold'[d] - Count(queue'[d]) = h - Count(q)
      /\ \A e \in Dirs \ {d} : hold'[e] = hold[e]
      /\ nRST' \in [Dirs -> BOOLEAN] /\ load' \subseteq Bursts
  BY RequestStep DEF IInv
<1>2. /\ pDesc' \in [Dirs -> BOOLEAN] /\ pDesc'[d] = p
      /\ \A e \in Dirs \ {d} : pDesc'[e] = pDesc[e]
  BY DEF IInv, TypeOK
<1>3. Balance(d)' = Balance(d)
  <2>1. Balance(d)' = hold'[d] - (Count(queue'[d]) + N(p /\ q.m_Pop.status # "done"))
    BY <1>1, <1>2 DEF Balance, Count, N
  <2>2. Count(queue'[d]) \in Int /\ Count(q) \in Int
    BY <1>1, CountType
  <2>3. N(p /\ q.m_Pop.status # "done") \in Int
    BY DEF N
  <2> QED  BY <1>1, <2>1, <2>2, <2>3
<1>4. \A e \in Dirs \ {d} : Balance(e)' = Balance(e)
  BY <1>1, <1>2 DEF Balance
<1>5. /\ Status("W", "memory")' => queue'["W"].m_Pop.BEAT > 0
      /\ Status("W", "init")' => queue'["W"].m_Pop.BEAT > 0
  <2>1. CASE d = "W"
    BY <1>1, <1>2, <2>1 DEF Status
  <2>2. CASE d = "R"
    BY <1>1, <1>2, <2>2 DEF Status, IInv, TypeOK, FreshOK, Dirs
  <2> QED  BY <2>1, <2>2 DEF Dirs
<1>6. /\ Status("R", "memory")' =>
           (RLAST' <=> queue'["R"].m_Pop.BEAT = 0) /\ (RLAST' => RVALID')
      /\ Status("R", "init")' => queue'["R"].m_Pop.BEAT > 0 /\ ~RVALID' /\ ~RLAST'
  <2>1. CASE d = "W"
    BY <1>1, <1>2, <2>1 DEF Status, IInv, TypeOK, FreshOK, Dirs
  <2>2. CASE d = "R"
    BY <1>1, <1>2, <2>2 DEF Status
  <2> QED  BY <2>1, <2>2 DEF Dirs
<1>7. TypeOK'
  BY <1>1, <1>2, <1>5, <1>6 DEF TypeOK
<1>8. FreshOK'
  BY <1>5, <1>6 DEF FreshOK
<1> QED  BY <1>3, <1>4, <1>7, <1>8 DEF IInv

(* A reset drops the burst in service; the hold of that burst stays.        *)
LEMMA ResetStep ==
  ASSUME MaxiAssumption, IInv, NEW d \in Dirs, Reset(d)
  PROVE  IInv' /\ \A e \in Dirs : LedgerStep(e)
<1>1. /\ queue' = queue /\ hold' = hold /\ load' = load
      /\ nRST' = [nRST EXCEPT ![d] = FALSE] /\ pDesc' = [pDesc EXCEPT ![d] = FALSE]
      /\ READY' = [READY EXCEPT ![d] = FALSE]
  BY DEF Reset
<1>2. /\ queue \in [Dirs -> RoundQueue] /\ hold \in [Dirs -> Int]
      /\ READY \in [Dirs -> BOOLEAN] /\ pDesc \in [Dirs -> BOOLEAN]
      /\ nRST \in [Dirs -> BOOLEAN]
  BY DEF IInv, TypeOK
<1>3. /\ WREADY' \in BOOLEAN /\ BVALID' \in BOOLEAN /\ RVALID' \in BOOLEAN
      /\ RLAST' \in BOOLEAN /\ (d = "W" => UNCHANGED <<RVALID, RLAST>>)
  BY DEF Reset, IInv, TypeOK
<1>4. \A s : /\ Status("W", s)' => Status("W", s)
             /\ Status("R", s)' => Status("R", s) /\ UNCHANGED <<RVALID, RLAST>>
  BY <1>1, <1>2, <1>3 DEF Status, Dirs
<1>5. TypeOK'
  BY <1>1, <1>2, <1>3, <1>4 DEF IInv, TypeOK
<1>6. FreshOK'
  BY <1>1, <1>4 DEF IInv, FreshOK
<1>7. \A e \in Dirs \ {d} : Balance(e)' = Balance(e)
  BY <1>1, <1>2 DEF Balance
<1>8. Balance(d)' = hold[d] - (Count(queue[d]) + N(FALSE))
  BY <1>1, <1>2 DEF Balance, Count, N
<1>9. Count(queue[d]) \in Int /\ hold[d] \in Int
  BY <1>2, CountType
<1>10. LedgerStep(d)
  <2>1. CASE pDesc[d] /\ queue[d].m_Pop.status # "done"
    BY <1>1, <1>2, <1>8, <1>9, <2>1 DEF Balance, LedgerStep, N
  <2>2. CASE ~(pDesc[d] /\ queue[d].m_Pop.status # "done")
    BY <1>8, <1>9, <2>2 DEF Balance, LedgerStep, N
  <2> QED  BY <2>1, <2>2
<1> QED  BY <1>5, <1>6, <1>7, <1>10 DEF IInv, LedgerStep

(* What every action starts from.                                           *)
LEMMA Start ==
  ASSUME MaxiAssumption, IInv, NEW d \in Dirs
  PROVE  /\ queue[d] \in RoundQueue /\ hold[d] \in Int /\ pDesc[d] \in BOOLEAN
         /\ Count(queue[d]) \in Int /\ queue[d].m_Pop.BEAT \in Nat
         /\ pDesc = [pDesc EXCEPT ![d] = pDesc[d]]
         /\ (READY[d] => ~IsFull(queue[d]))
         /\ WREADY \in BOOLEAN /\ BVALID \in BOOLEAN /\ RVALID \in BOOLEAN
         /\ RLAST \in BOOLEAN
<1>1. queue[d] \in RoundQueue
  BY DEF IInv, TypeOK
<1>2. Count(queue[d]) \in Int /\ queue[d].m_Pop.BEAT \in Nat
  BY <1>1, CountType DEF RoundQueue, Desc
<1> QED  BY <1>1, <1>2 DEF IInv, TypeOK

(* A clock of d in which the descriptor stays, with a new status and as     *)
(* many holds less as the status says.                                      *)
LEMMA StatusStep ==
  ASSUME MaxiAssumption, IInv, NEW d \in Dirs,
         NEW s \in {"init", "request", "wait", "memory", "done"}, NEW h \in Int,
         pDesc[d], queue[d].m_Pop.status # "done",
         Request(d, SetStatus(d, s), h), pDesc' = pDesc,
         WREADY' \in BOOLEAN, BVALID' \in BOOLEAN, RVALID' \in BOOLEAN, RLAST' \in BOOLEAN,
         h = hold[d] - N(s = "done"),
         s = "memory" => queue[d].m_Pop.status = "init", s # "init",
         UNCHANGED <<RVALID, RLAST>> \/ (d = "R" /\ s = "done")
  PROVE  IInv' /\ \A e \in Dirs : Balance(e)' = Balance(e)
<1> DEFINE q == SetStatus(d, s)
<1>1. /\ queue[d] \in RoundQueue /\ hold[d] \in Int /\ Count(queue[d]) \in Int
      /\ queue[d].m_Pop.BEAT \in Nat /\ pDesc' = [pDesc EXCEPT ![d] = TRUE]
      /\ READY[d] => ~IsFull(queue[d])
  BY Start
<1>2. /\ q \in RoundQueue /\ q.m_dwRestCount = queue[d].m_dwRestCount
      /\ q.m_Pop.status = s /\ q.m_Pop.BEAT = queue[d].m_Pop.BEAT
  BY <1>1, StatusType DEF SetStatus
<1> HIDE DEF q
<1>3. READY[d] => ~IsFull(q)
  BY <1>1, <1>2 DEF IsFull
<1>4. h - Count(q) - N(TRUE /\ q.m_Pop.status # "done") = Balance(d)
  <2>1. Count(q) = Count(queue[d])
    BY <1>2 DEF Count
  <2>2. Balance(d) = hold[d] - (Count(queue[d]) + 1)
    BY DEF Balance, N
  <2>3. CASE s = "done"
    BY <1>1, <1>2, <2>1, <2>2, <2>3 DEF N
  <2>4. CASE s # "done"
    BY <1>1, <1>2, <2>1, <2>2, <2>4 DEF N
  <2> QED  BY <2>3, <2>4
<1>5. d = "W" => /\ UNCHANGED <<RVALID, RLAST>>
                 /\ TRUE /\ q.m_Pop.status \in {"init", "memory"} => q.m_Pop.BEAT > 0
  BY <1>2 DEF IInv, FreshOK, Status
<1>6. d = "R" => /\ TRUE /\ q.m_Pop.status = "init" =>
                      q.m_Pop.BEAT > 0 /\ ~RVALID' /\ ~RLAST'
                 /\ TRUE /\ q.m_Pop.status = "memory" =>
                      (RLAST' <=> q.m_Pop.BEAT = 0) /\ (RLAST' => RVALID')
  BY <1>2 DEF IInv, FreshOK, Status
<1>7. Request(d, q, h)
  BY DEF q
<1> QED  BY <1>1, <1>2, <1>3, <1>4, <1>5, <1>6, <1>7, Clocked

(* One that leaves the queue and the descriptor as they were.               *)
LEMMA IdleStep ==
  ASSUME MaxiAssumption, IInv, NEW d \in Dirs, Request(d, queue[d], hold[d]),
         pDesc' = pDesc,
         WREADY' \in BOOLEAN, BVALID' \in BOOLEAN, RVALID' \in BOOLEAN, RLAST' \in BOOLEAN,
         ~pDesc[d] \/ UNCHANGED <<RVALID, RLAST>>, d = "W" => UNCHANGED <<RVALID, RLAST>>
  PROVE  IInv' /\ \A e \in Dirs : Balance(e)' = Balance(e)
<1>1. /\ queue[d] \in RoundQueue /\ hold[d] \in Int /\ Count(queue[d]) \in Int
      /\ pDesc[d] \in BOOLEAN /\ pDesc' = [pDesc EXCEPT ![d] = pDesc[d]]
      /\ READY[d] => ~IsFull(queue[d])
  BY Start
<1>2. hold[d] - Count(queue[d]) - N(pDesc[d] /\ queue[d].m_Pop.status # "done") = Balance(d)
  <2>1. N(pDesc[d] /\ queue[d].m_Pop.status # "done") \in Int
    BY DEF N
  <2> QED  BY <1>1, <2>1 DEF Balance
<1>3. d = "W" => /\ UNCHANGED <<RVALID, RLAST>>
                 /\ pDesc[d] /\ queue[d].m_Pop.status \in {"init", "memory"} =>
                      queue[d].m_Pop.BEAT > 0
  BY DEF IInv, TypeOK, FreshOK, Status
<1>4. d = "R" => /\ pDesc[d] /\ queue[d].m_Pop.status = "init" =>
                      queue[d].m_Pop.BEAT > 0 /\ ~RVALID' /\ ~RLAST'
                 /\ pDesc[d] /\ queue[d].m_Pop.status = "memory" =>
                      (RLAST' <=> queue[d].m_Pop.BEAT = 0) /\ (RLAST' => RVALID')
  BY DEF IInv, TypeOK, FreshOK, Status
<1> QED  BY <1>1, <1>2, <1>3, <1>4, Clocked

(* A clock of d that takes the next burst from its queue.                   *)
LEMMA PopStep ==
  ASSUME MaxiAssumption, IInv, NEW d \in Dirs, ~pDesc[d], ~IsEmpty(queue[d]),
         Request(d, Pop(queue[d]), hold[d]), pDesc' = [pDesc EXCEPT ![d] = TRUE],
         WREADY' \in BOOLEAN, BVALID' \in BOOLEAN, RVALID' \in BOOLEAN, RLAST' \in BOOLEAN,
         d = "W" => UNCHANGED <<RVALID, RLAST>>, d = "R" => ~RVALID' /\ ~RLAST'
  PROVE  IInv' /\ \A e \in Dirs : Balance(e)' = Balance(e)
<1> DEFINE q == Pop(queue[d])
<1>1. /\ queue[d] \in RoundQueue /\ hold[d] \in Int /\ Count(queue[d]) \in Int
      /\ READY[d] => ~IsFull(queue[d])
  BY Start
<1>2. /\ q \in RoundQueue /\ q.m_dwRestCount = queue[d].m_dwRestCount + 1
      /\ q.m_Pop.status = "init" /\ q.m_Pop.BEAT > 0
  BY <1>1, PopType
<1>3. Request(d, q, hold[d])
  OBVIOUS
<1> HIDE DEF q
<1>4. QueueSize \in Int /\ queue[d].m_dwRestCount \in Nat
  BY <1>1 DEF RoundQueue, MaxiAssumption
<1>5. READY[d] => ~IsFull(q)
  BY <1>2, <1>4 DEF IsFull
<1>6. hold[d] - Count(q) - N(TRUE /\ q.m_Pop.status # "done") = Balance(d)
  <2>1. Count(q) = Count(queue[d]) - 1
    BY <1>2, <1>4 DEF Count
  <2>2. Balance(d) = hold[d] - (Count(queue[d]) + 0)
    BY DEF Balance, N
  <2> QED  BY <1>1, <1>2, <2>1, <2>2 DEF N
<1> QED  BY <1>1, <1>2, <1>3, <1>5, <1>6, Clocked

(* A clock of d that moves its burst in memory by one beat or none, and     *)
(* ends it, with its hold, or not.                                          *)
LEMMA BeatStep ==
  ASSUME MaxiAssumption, IInv, NEW d \in Dirs, NEW b \in Nat, NEW end \in BOOLEAN,
         Status(d, "memory"),
         Request(d, [queue[d] EXCEPT !.m_Pop.BEAT = b], hold[d] - N(end)),
         pDesc' = [pDesc EXCEPT ![d] = ~end],
         WREADY' \in BOOLEAN, BVALID' \in BOOLEAN, RVALID' \in BOOLEAN, RLAST' \in BOOLEAN,
         d = "W" => UNCHANGED <<RVALID, RLAST>> /\ (end \/ b > 0),
         d = "R" => end \/ ((RLAST' <=> b = 0) /\ (RLAST' => RVALID'))
  PROVE  IInv' /\ \A e \in Dirs : Balance(e)' = Balance(e)
<1> DEFINE q == [queue[d] EXCEPT !.m_Pop.BEAT = b]
           h == hold[d] - N(end)
<1>1. /\ queue[d] \in RoundQueue /\ hold[d] \in Int /\ Count(queue[d]) \in Int
      /\ READY[d] => ~IsFull(queue[d])
  BY Start
<1>2. /\ q \in RoundQueue /\ q.m_dwRestCount = queue[d].m_dwRestCount
      /\ q.m_Pop.status = "memory" /\ q.m_Pop.BEAT = b
  BY <1>1, BeatType DEF Status
<1>3. Request(d, q, h)
  OBVIOUS
<1> HIDE DEF q
<1>4. READY[d] => ~IsFull(q)
  BY <1>1, <1>2 DEF IsFull
<1>5. h - Count(q) - N(~end /\ q.m_Pop.status # "done") = Balance(d)
  <2>1. Count(q) = Count(queue[d])
    BY <1>2 DEF Count
  <2>2. Balance(d) = hold[d] - (Count(queue[d]) + 1)
    BY DEF Balance, N, Status
  <2>3. CASE end
    BY <1>1, <1>2, <2>1, <2>2, <2>3 DEF N
  <2>4. CASE ~end
    BY <1>1, <1>2, <2>1, <2>2, <2>4 DEF N
  <2> QED  BY <2>3, <2>4
<1>6. h \in Int /\ (~end) \in BOOLEAN
  <2>1. N(end) \in Int
    BY DEF N
  <2> QED  BY <1>1, <2>1
<1> HIDE DEF h
<1>7. d = "W" => (~end /\ q.m_Pop.status \in {"init", "memory"} => q.m_Pop.BEAT > 0)
  BY <1>2
<1>8. d = "R" => /\ ~end /\ q.m_Pop.status = "init" =>
                      q.m_Pop.BEAT > 0 /\ ~RVALID' /\ ~RLAST'
                 /\ ~end /\ q.m_Pop.status = "memory" =>
                      (RLAST' <=> q.m_Pop.BEAT = 0) /\ (RLAST' => RVALID')
  BY <1>2
<1> QED  BY <1>1, <1>2, <1>3, <1>4, <1>5, <1>6, <1>7, <1>8, Clocked

-------------------------------------------------------------------------------
(* The clocks of the write direction.                                       *)
LEMMA WriteStep ==
  ASSUME MaxiAssumption, IInv,
         \/ WritePop \/ WriteIdle \/ WriteSlave
         \/ \E b \in BOOLEAN : WriteRespond(b)
         \/ \E v, b \in BOOLEAN : WriteMemory(v, b)
  PROVE  IInv' /\ \A e \in Dirs : Balance(e)' = Balance(e)
<1> "W" \in Dirs
  BY DEF Dirs
<1>0. /\ queue["W"] \in RoundQueue /\ hold["W"] \in Int /\ queue["W"].m_Pop.BEAT \in Nat
      /\ WREADY \in BOOLEAN /\ BVALID \in BOOLEAN /\ RVALID \in BOOLEAN /\ RLAST \in BOOLEAN
  BY Start
<1>1. CASE WritePop
  BY <1>0, <1>1, PopStep DEF WritePop
<1>2. CASE WriteIdle
  BY <1>0, <1>2, IdleStep DEF WriteIdle
<1>3. CASE \E b \in BOOLEAN : WriteRespond(b)
  BY <1>0, <1>3, IdleStep DEF WriteRespond
<1>4. CASE WriteSlave
  <2>1. CASE /\ Status("W", "request") /\ Request("W", SetStatus("W", "wait"), hold["W"])
             /\ WREADY' = TRUE /\ UNCHANGED <<pDesc, BVALID, RVALID, RLAST>>
    <3>1. hold["W"] = hold["W"] - N("wait" = "done")
      BY <1>0 DEF N
    <3> QED  BY <1>0, <2>1, <3>1, StatusStep DEF Status
  <2>2. CASE /\ Status("W", "wait") /\ Request("W", SetStatus("W", "done"), hold["W"] - 1)
             /\ WREADY' = FALSE /\ UNCHANGED <<pDesc, BVALID, RVALID, RLAST>>
    <3>1. hold["W"] - 1 = hold["W"] - N("done" = "done") /\ hold["W"] - 1 \in Int
      BY <1>0 DEF N
    <3>2. /\ pDesc["W"] /\ queue["W"].m_Pop.status # "done" /\ "W" \in Dirs
          /\ Request("W", SetStatus("W", "done"), hold["W"] - 1)
      BY <2>2 DEF Status, Dirs
    <3>3. /\ pDesc' = pDesc /\ UNCHANGED <<RVALID, RLAST>>
          /\ WREADY' \in BOOLEAN /\ BVALID' \in BOOLEAN
          /\ RVALID' \in BOOLEAN /\ RLAST' \in BOOLEAN
      BY <1>0, <2>2
    <3> QED  BY <3>1, <3>2, <3>3, StatusStep
  <2>3. CASE /\ Request("W", queue["W"], hold["W"]) /\ WREADY' \in BOOLEAN
             /\ UNCHANGED <<pDesc, BVALID, RVALID, RLAST>>
    BY <1>0, <2>3, IdleStep
  <2> QED  BY <1>0, <1>4, <2>1, <2>2, <2>3 DEF WriteSlave
<1>5. CASE \E v, b \in BOOLEAN : WriteMemory(v, b)
  <2>1. PICK v \in BOOLEAN, valid \in BOOLEAN : WriteMemory(v, valid)
    BY <1>5
  <2> DEFINE b == queue["W"].m_Pop.BEAT - N(Takes(v))
             q == [queue["W"] EXCEPT !.m_Pop.BEAT = @ - N(Takes(v))]
             end == q.m_Pop.BEAT = 0
  <2>2. /\ Status("W", "memory") /\ WREADY' = (valid /\ ~end) /\ BVALID' = (BVALID \/ end)
        /\ pDesc' = [pDesc EXCEPT !["W"] = ~end]
        /\ Request("W", q, hold["W"] - N(end)) /\ UNCHANGED <<RVALID, RLAST>>
    BY <2>1 DEF WriteMemory
  <2>3. b \in Nat /\ q = [queue["W"] EXCEPT !.m_Pop.BEAT = b]
    BY <1>0, <2>2 DEF N, IInv, TypeOK
  <2>4. end <=> b = 0
    <3> HIDE DEF b, q
    <3>1. q.m_Pop.BEAT = b
      BY <1>0, <2>3, BeatType
    <3> QED  BY <3>1
  <2>5. end \in BOOLEAN /\ (end \/ b > 0)
    BY <2>3, <2>4
  <2> HIDE DEF b, end
  <2>6. Request("W", [queue["W"] EXCEPT !.m_Pop.BEAT = b], hold["W"] - N(end))
    BY <2>2, <2>3
  <2> QED  BY <1>0, <2>2, <2>3, <2>5, <2>6, BeatStep
<1> QED  BY <1>1, <1>2, <1>3, <1>4, <1>5

(* The clocks of the read direction.                                        *)
LEMMA ReadStep ==
  ASSUME MaxiAssumption, IInv,
         \/ ReadPop \/ ReadIdle \/ ReadEnd \/ ReadSlave
         \/ \E v, b \in BOOLEAN : ReadMemory(v, b)
  PROVE  IInv' /\ \A e \in Dirs : Balance(e)' = Balance(e)
<1> "R" \in Dirs /\ "R" # "W"
  BY DEF Dirs
<1>0. /\ queue["R"] \in RoundQueue /\ hold["R"] \in Int /\ queue["R"].m_Pop.BEAT \in Nat
      /\ WREADY \in BOOLEAN /\ BVALID \in BOOLEAN /\ RVALID \in BOOLEAN /\ RLAST \in BOOLEAN
  BY Start
<1>1. CASE ReadPop
  BY <1>0, <1>1, PopStep DEF ReadPop
<1>2. CASE ReadIdle
  BY <1>0, <1>2, IdleStep DEF ReadIdle
<1>3. CASE ReadEnd
  <2> DEFINE b == queue["R"].m_Pop.BEAT
  <2>1. queue["R"] = [queue["R"] EXCEPT !.m_Pop.BEAT = b]
    BY <1>0 DEF RoundQueue, Desc
  <2>2. hold["R"] - 1 = hold["R"] - N(TRUE)
    BY DEF N
  <2>3. /\ Status("R", "memory") /\ Request("R", queue["R"], hold["R"] - 1)
        /\ pDesc' = [pDesc EXCEPT !["R"] = FALSE]
        /\ RLAST' \in BOOLEAN /\ RVALID' \in BOOLEAN /\ UNCHANGED <<WREADY, BVALID>>
    BY <1>3 DEF ReadEnd
  <2>4. b \in Nat
    BY <1>0
  <2> HIDE DEF b
  <2>5. Request("R", [queue["R"] EXCEPT !.m_Pop.BEAT = b], hold["R"] - N(TRUE))
    BY <2>1, <2>2, <2>3
  <2>6. pDesc' = [pDesc EXCEPT !["R"] = ~TRUE]
    BY <2>3
  <2> QED  BY <1>0, <2>3, <2>4, <2>5, <2>6, BeatStep
<1>4. CASE ReadSlave
  <2>1. CASE /\ Status("R", "request") /\ Request("R", SetStatus("R", "wait"), hold["R"])
             /\ UNCHANGED <<pDesc, WREADY, BVALID, RVALID, RLAST>>
    <3>1. hold["R"] = hold["R"] - N("wait" = "done")
      BY <1>0 DEF N
    <3> QED  BY <1>0, <2>1, <3>1, StatusStep DEF Status
  <2>2. CASE /\ Status("R", "wait") /\ Request("R", SetStatus("R", "done"), hold["R"] - 1)
             /\ RVALID' = TRUE /\ RLAST' = TRUE /\ UNCHANGED <<pDesc, WREADY, BVALID>>
    <3>1. hold["R"] - 1 = hold["R"] - N("done" = "done") /\ hold["R"] - 1 \in Int
      BY <1>0 DEF N
    <3> QED  BY <1>0, <2>2, <3>1, StatusStep DEF Status
  <2>3. CASE /\ Request("R", queue["R"], hold["R"])
             /\ UNCHANGED <<pDesc, WREADY, BVALID, RVALID, RLAST>>
    BY <1>0, <2>3, IdleStep
  <2> QED  BY <1>4, <2>1, <2>2, <2>3 DEF ReadSlave
<1>5. CASE \E v, b \in BOOLEAN : ReadMemory(v, b)
  <2>1. PICK rready \in BOOLEAN, valid \in BOOLEAN : ReadMemory(rready, valid)
    BY <1>5
  <2> DEFINE b == queue["R"].m_Pop.BEAT - N(valid)
  <2>2. /\ Status("R", "memory") /\ ~(RLAST /\ rready)
        /\ UNCHANGED <<pDesc, WREADY, BVALID>>
    BY <2>1 DEF ReadMemory
  <2>3. CASE ~RVALID \/ rready
    <3>1. /\ RVALID' = valid /\ RLAST' = IF valid THEN LastBeat(b) ELSE RLAST
          /\ Request("R", [queue["R"] EXCEPT !.m_Pop.BEAT = b], hold["R"])
      BY <2>1, <2>3 DEF ReadMemory
    <3>2. ~RLAST /\ queue["R"].m_Pop.BEAT > 0
      BY <1>0, <2>2, <2>3 DEF IInv, TypeOK
    <3>3. b \in Nat /\ (~valid => b > 0)
      BY <1>0, <3>2 DEF N
    <3>4. (RLAST' <=> b = 0) /\ (RLAST' => RVALID') /\ RVALID' \in BOOLEAN /\ RLAST' \in BOOLEAN
      <4> HIDE DEF b
      <4>1. CASE valid
        BY <3>1, <4>1 DEF LastBeat
      <4>2. CASE ~valid
        BY <1>0, <3>1, <3>2, <3>3, <4>2
      <4> QED  BY <4>1, <4>2
    <3>5. hold["R"] = hold["R"] - N(FALSE) /\ pDesc' = [pDesc EXCEPT !["R"] = ~FALSE]
      BY <1>0, <2>2, Start DEF N, Status
    <3> HIDE DEF b
    <3>6. Request("R", [queue["R"] EXCEPT !.m_Pop.BEAT = b], hold["R"] - N(FALSE))
      BY <3>1, <3>5
    <3> QED  BY <1>0, <2>2, <3>3, <3>4, <3>5, <3>6, BeatStep
  <2>4. CASE ~(~RVALID \/ rready)
    <3>1. Request("R", queue["R"], hold["R"]) /\ UNCHANGED <<RVALID, RLAST>>
      BY <2>1, <2>4 DEF ReadMemory
    <3> QED  BY <1>0, <2>2, <3>1, IdleStep
  <2> QED  BY <2>3, <2>4
<1> QED  BY <1>1, <1>2, <1>3, <1>4, <1>5

-------------------------------------------------------------------------------
LEMMA InitInv ==
  ASSUME MaxiAssumption, Init
  PROVE  IInv
<1>1. \A d \in Dirs : AnyOf(d) \in Bursts
  BY DEF AnyOf, Of, Bursts, MaxiAssumption
<1>2. \A d \in Dirs : NewDesc(AnyOf(d)) \in Desc
  BY <1>1 DEF NewDesc, Desc, MaxiAssumption
<1>3. queue \in [Dirs -> RoundQueue]
  BY <1>1, <1>2 DEF Init, RoundQueue, MaxiAssumption
<1>4. \A d \in Dirs, s \in {"init", "memory"} : ~Status(d, s)
  BY DEF Init, Status
<1>5. FreshOK
  BY <1>4 DEF FreshOK, Dirs
<1>6. \A d \in Dirs : READY[d] => ~IsFull(queue[d])
  BY DEF Init
<1>7. /\ READY \in [Dirs -> BOOLEAN] /\ pDesc \in [Dirs -> BOOLEAN]
      /\ hold \in [Dirs -> Int] /\ nRST \in [Dirs -> BOOLEAN]
  <2>1. READY = [d \in Dirs |-> FALSE] /\ pDesc = [d \in Dirs |-> FALSE]
        /\ hold = [d \in Dirs |-> 0] /\ nRST = [d \in Dirs |-> TRUE]
    BY DEF Init
  <2> QED  BY <2>1
<1>8. /\ WREADY \in BOOLEAN /\ BVALID \in BOOLEAN /\ RVALID \in BOOLEAN
      /\ RLAST \in BOOLEAN
  BY DEF Init
<1>9. load \subseteq Bursts
  BY DEF Init, MaxiAssumption
<1>10. ~Status("W", "memory") /\ ~Status("R", "memory")
  BY <1>4 DEF Dirs
<1> QED  BY <1>3, <1>5, <1>6, <1>7, <1>8, <1>9, <1>10 DEF IInv, TypeOK

LEMMA StepInv ==
  ASSUME MaxiAssumption, IInv, [Next]_vars
  PROVE  IInv' /\ \A e \in Dirs : LedgerStep(e)
<1>1. CASE \E d \in Dirs : Reset(d)
  BY <1>1, ResetStep
<1>2. ASSUME NEW d \in Dirs, Target(d)
      PROVE  IInv' /\ \A e \in Dirs : Balance(e)' = Balance(e)
  <2>1. PICK s \in {"request", "memory"} : Request(d, SetStatus(d, s), hold[d])
    BY <1>2 DEF Target
  <2>2. hold[d] = hold[d] - N(s = "done") /\ hold[d] \in Int
    BY Start DEF N
  <2> QED  BY <1>2, <2>1, <2>2, Start, StatusStep DEF Target, Status
<1>3. ASSUME NEW d \in Dirs, Done(d)
      PROVE  IInv' /\ \A e \in Dirs : Balance(e)' = Balance(e)
  BY <1>3, Start, IdleStep DEF Done
<1>4. CASE UNCHANGED vars
  <2>1. IInv'
    BY <1>4 DEF vars, IInv, TypeOK, FreshOK, Status, IsFull
  <2>2. \A e \in Dirs : Balance(e)' = Balance(e)
    BY <1>4 DEF vars, Balance, Count
  <2> QED  BY <2>1, <2>2 DEF LedgerStep
<1> QED  BY <1>1, <1>2, <1>3, <1>4, WriteStep, ReadStep DEF Next, LedgerStep

(* The types, and no Push to a full queue (RoundQueue.h, AXI_Master.cpp):   *)
(* for any bursts and any size of the queue.                                *)
THEOREM TypeCorrect == Spec => []TypeOK
<1>1. Init => IInv
  BY MaxiAssumption, InitInv
<1>2. IInv /\ [Next]_vars => IInv'
  BY MaxiAssumption, StepInv
<1>3. IInv => TypeOK
  BY DEF IInv
<1> QED  BY <1>1, <1>2, <1>3, PTL DEF Spec

(* Each AquireBus() has one ReleaseBus(), but for the burst in service at a *)
(* reset (AXI_Master.cpp), for any bursts and any size of the queue.        *)
THEOREM HoldsKept == Spec => LedgerKept
<1>1. Init => IInv
  BY MaxiAssumption, InitInv
<1>2. IInv /\ [Next]_vars => IInv'
  BY MaxiAssumption, StepInv
<1>3. IInv /\ [Next]_vars => [\A d \in Dirs : LedgerStep(d)]_vars
  BY MaxiAssumption, StepInv
<1> QED  BY <1>1, <1>2, <1>3, PTL DEF Spec, LedgerKept

-------------------------------------------------------------------------------
(* The queue as a sequence.                                                 *)
Entry == [tx : Bursts, left : Nat]
Rec(t) == [tx |-> t, left |-> Beats[t]]
Slot(q, k) == (q.m_dwTail + k - 1) % QueueSize
Wait(q) == [k \in 1 .. Count(q) |-> Rec(q.m_pQ[Slot(q, k)])]

(* What Push relies on: the head is behind the last burst that waits.       *)
Ring(q) == q.m_dwHead = (q.m_dwTail + Count(q)) % QueueSize
RingOK == \A d \in Dirs : Ring(queue[d])

LEMMA ModCases ==
  ASSUME NEW n \in Nat \ {0}, NEW y \in 0 .. 2 * n - 1
  PROVE  y % n = IF y < n THEN y ELSE y - n
<1>1. /\ y % n \in 0 .. n - 1 /\ y \div n \in Int
      /\ y = n * (y \div n) + (y % n)
  OBVIOUS
<1>2. ASSUME NEW k \in Int, NEW r \in 0 .. n - 1, y = n * k + r
      PROVE  k = 0 \/ k = 1
  <2>1. k >= 0
    <3> SUFFICES ASSUME k <= -1  PROVE FALSE
      OBVIOUS
    <3>1. n * (-k) >= n /\ n * k = -(n * (-k))
      OBVIOUS
    <3> QED  BY <1>2, <3>1
  <2>2. k <= 1
    <3> SUFFICES ASSUME k >= 2  PROVE FALSE
      OBVIOUS
    <3>1. n * k = 2 * n + n * (k - 2) /\ n * (k - 2) >= 0
      OBVIOUS
    <3> QED  BY <1>2, <3>1
  <2> QED  BY <2>1, <2>2
<1>3. y \div n = 0 \/ y \div n = 1
  BY <1>1, <1>2
<1>4. CASE y \div n = 0
  BY <1>1, <1>4
<1>5. CASE y \div n = 1
  BY <1>1, <1>5
<1> QED  BY <1>3, <1>4, <1>5

(* An index that has wrapped at most once, without the remainder.           *)
Wrap(n, y) == IF y < n THEN y ELSE y - n

LEMMA Wraps ==
  ASSUME NEW n \in Nat \ {0}, NEW tail \in 0 .. n - 1, NEW k \in 0 .. n
  PROVE  /\ tail + k \in 0 .. 2 * n - 1 /\ tail + k \in Nat
         /\ (tail + k) % n = Wrap(n, tail + k)
         /\ Wrap(n, tail + k) \in 0 .. n - 1
<1>1. tail + k \in 0 .. 2 * n - 1 /\ tail + k \in Nat
  OBVIOUS
<1>2. (tail + k) % n = Wrap(n, tail + k)
  BY <1>1, ModCases DEF Wrap
<1>3. Wrap(n, tail + k) \in 0 .. n - 1
  BY <1>1 DEF Wrap
<1> QED  BY <1>1, <1>2, <1>3

LEMMA WrapPush ==
  ASSUME NEW n \in Nat \ {0}, NEW tail \in 0 .. n - 1, NEW c \in 0 .. n - 1
  PROVE  /\ Wrap(n, Wrap(n, tail + c) + 1) = Wrap(n, tail + (c + 1))
         /\ \A k \in 0 .. c - 1 : Wrap(n, tail + k) # Wrap(n, tail + c)
BY DEF Wrap

LEMMA WrapPop ==
  ASSUME NEW n \in Nat \ {0}, NEW tail \in 0 .. n - 1, NEW k \in 0 .. n - 1
  PROVE  Wrap(n, Wrap(n, tail + 1) + k) = Wrap(n, tail + (k + 1))
BY DEF Wrap

(* The remainders of Push and of Pop.                                       *)
LEMMA ModPush ==
  ASSUME NEW n \in Nat \ {0}, NEW tail \in 0 .. n - 1, NEW c \in 0 .. n - 1
  PROVE  /\ (((tail + c) % n) + 1) % n = (tail + (c + 1)) % n
         /\ \A k \in 0 .. c - 1 : (tail + k) % n # (tail + c) % n
<1>1. c \in 0 .. n /\ c + 1 \in 0 .. n /\ 1 \in 0 .. n /\ \A k \in 0 .. c - 1 : k \in 0 .. n
  OBVIOUS
<1>2. /\ (tail + c) % n = Wrap(n, tail + c) /\ Wrap(n, tail + c) \in 0 .. n - 1
      /\ (tail + (c + 1)) % n = Wrap(n, tail + (c + 1))
      /\ \A k \in 0 .. c - 1 : (tail + k) % n = Wrap(n, tail + k)
  BY <1>1, Wraps, Zenon
<1>3. (Wrap(n, tail + c) + 1) % n = Wrap(n, Wrap(n, tail + c) + 1)
  BY <1>1, <1>2, Wraps, Zenon
<1>4. (((tail + c) % n) + 1) % n = (tail + (c + 1)) % n
  BY <1>2, <1>3, WrapPush, Zenon
<1>5. ASSUME NEW k \in 0 .. c - 1  PROVE (tail + k) % n # (tail + c) % n
  <2>1. Wrap(n, tail + k) # Wrap(n, tail + c)
    BY WrapPush, Zenon
  <2> QED  BY <1>2, <2>1, Zenon
<1> QED  BY <1>4, <1>5, Zenon

LEMMA ModPop ==
  ASSUME NEW n \in Nat \ {0}, NEW tail \in 0 .. n - 1, NEW k \in 0 .. n - 1
  PROVE  (((tail + 1) % n) + k) % n = (tail + (k + 1)) % n
<1>1. k \in 0 .. n /\ k + 1 \in 0 .. n /\ 1 \in 0 .. n
  OBVIOUS
<1>2. /\ (tail + 1) % n = Wrap(n, tail + 1) /\ Wrap(n, tail + 1) \in 0 .. n - 1
      /\ (tail + (k + 1)) % n = Wrap(n, tail + (k + 1))
  BY <1>1, Wraps, Zenon
<1>3. (Wrap(n, tail + 1) + k) % n = Wrap(n, Wrap(n, tail + 1) + k)
  BY <1>1, <1>2, Wraps, Zenon
<1> QED  BY <1>2, <1>3, WrapPop, Zenon

(* Sequences in general: an entry behind, an entry in front.                *)
LEMMA AppendIs ==
  ASSUME NEW S, NEW w \in Seq(S), NEW r \in S, NEW v \in Seq(S),
         Len(v) = Len(w) + 1, \A k \in 1 .. Len(w) : v[k] = w[k], v[Len(w) + 1] = r
  PROVE  v = Append(w, r)
<1>1. Append(w, r) \in Seq(S) /\ Len(Append(w, r)) = Len(v) /\ Len(w) \in Nat
  OBVIOUS
<1>2. ASSUME NEW k \in 1 .. Len(v)  PROVE v[k] = Append(w, r)[k]
  <2>1. k \in 1 .. Len(w) \/ k = Len(w) + 1
    BY <1>1
  <2> QED  BY <2>1
<1> QED  BY <1>1, <1>2

LEMMA FrontIs ==
  ASSUME NEW S, NEW w \in Seq(S), NEW r \in S, NEW v \in Seq(S),
         Len(w) = Len(v) + 1, w[1] = r, \A k \in 1 .. Len(v) : w[k + 1] = v[k]
  PROVE  w = <<r>> \o v
<1>1. <<r>> \o v \in Seq(S) /\ Len(<<r>> \o v) = Len(w) /\ Len(v) \in Nat
  OBVIOUS
<1>2. ASSUME NEW k \in 1 .. Len(w)  PROVE w[k] = (<<r>> \o v)[k]
  <2>1. CASE k = 1
    BY <2>1
  <2>2. CASE k # 1
    <3>1. k - 1 \in 1 .. Len(v) /\ (k - 1) + 1 = k
      BY <1>1, <2>2
    <3>2. w[k] = v[k - 1]
      BY <3>1
    <3>3. (<<r>> \o v)[k] = v[k - 1]
      BY <1>1, <2>2
    <3> QED  BY <3>2, <3>3
  <2> QED  BY <2>1, <2>2
<1> QED  BY <1>1, <1>2

LEMMA QueueFacts ==
  ASSUME MaxiAssumption, NEW q \in RoundQueue
  PROVE  /\ QueueSize \in Nat \ {0} /\ Beats \in [Bursts -> Nat \ {0}]
         /\ q.m_dwHead \in 0 .. QueueSize - 1 /\ q.m_dwTail \in 0 .. QueueSize - 1
         /\ q.m_dwRestCount \in 0 .. QueueSize
         /\ Count(q) = QueueSize - q.m_dwRestCount /\ Count(q) \in 0 .. QueueSize
         /\ q.m_pQ \in [0 .. QueueSize - 1 -> Bursts]
         /\ q.m_Pop \in Desc
         /\ \A k \in 1 .. Count(q) : Slot(q, k) \in 0 .. QueueSize - 1
         /\ Wait(q) \in Seq(Entry) /\ Len(Wait(q)) = Count(q)
<1>1. QueueSize \in Nat \ {0} /\ Beats \in [Bursts -> Nat \ {0}]
  BY DEF MaxiAssumption
<1>2. /\ q.m_dwHead \in 0 .. QueueSize - 1 /\ q.m_dwTail \in 0 .. QueueSize - 1
      /\ q.m_dwRestCount \in 0 .. QueueSize
      /\ q.m_pQ \in [0 .. QueueSize - 1 -> Bursts] /\ q.m_Pop \in Desc
  BY DEF RoundQueue
<1>3. Count(q) = QueueSize - q.m_dwRestCount /\ Count(q) \in 0 .. QueueSize
  BY <1>1, <1>2 DEF Count
<1>4. ASSUME NEW k \in 1 .. Count(q)  PROVE Slot(q, k) \in 0 .. QueueSize - 1
  <2>1. q.m_dwTail + k - 1 \in 0 .. 2 * QueueSize - 1
    <3>1. \A t \in 0 .. QueueSize - 1 : \A i \in 1 .. QueueSize :
            t + i - 1 \in 0 .. 2 * QueueSize - 1
      BY <1>1
    <3>2. k \in 1 .. QueueSize
      BY <1>1, <1>3
    <3> QED  BY <1>2, <3>1, <3>2, Zenon
  <2>2. \A y \in 0 .. 2 * QueueSize - 1 : y % QueueSize \in 0 .. QueueSize - 1
    BY <1>1
  <2> QED  BY <2>1, <2>2 DEF Slot
<1>5. \A k \in 1 .. Count(q) : Rec(q.m_pQ[Slot(q, k)]) \in Entry
  BY <1>1, <1>2, <1>4 DEF Rec, Entry
<1>6. Wait(q) \in Seq(Entry) /\ Len(Wait(q)) = Count(q)
  <2>1. Count(q) \in Nat
    BY <1>3
  <2> QED  BY <1>5, <2>1 DEF Wait
<1> QED  BY <1>1, <1>2, <1>3, <1>4, <1>6

LEMMA CountBy ==
  ASSUME NEW n \in Nat \ {0}, NEW r \in 0 .. n, NEW c, c = n - r
  PROVE  /\ r # 0 => c \in 0 .. n - 1 /\ n - (r - 1) = c + 1
         /\ r # n => c > 0 /\ c - 1 \in 0 .. n - 1 /\ n - (r + 1) = c - 1
OBVIOUS

(* Push and Pop of a ring are an entry more and an entry less.              *)
LEMMA WaitPush ==
  ASSUME MaxiAssumption, NEW q \in RoundQueue, Ring(q), NEW t \in Bursts, ~IsFull(q)
  PROVE  Ring(Push(q, t)) /\ Wait(Push(q, t)) = Append(Wait(q), Rec(t))
<1> DEFINE p == Push(q, t)
           c == Count(q)
<1>1. /\ QueueSize \in Nat \ {0} /\ q.m_dwHead \in 0 .. QueueSize - 1
      /\ q.m_dwTail \in 0 .. QueueSize - 1 /\ q.m_dwRestCount \in 0 .. QueueSize
      /\ c = QueueSize - q.m_dwRestCount /\ c \in 0 .. QueueSize
      /\ q.m_pQ \in [0 .. QueueSize - 1 -> Bursts]
      /\ \A k \in 1 .. c : Slot(q, k) \in 0 .. QueueSize - 1
      /\ Wait(q) \in Seq(Entry) /\ Len(Wait(q)) = c
      /\ Beats \in [Bursts -> Nat \ {0}]
  BY QueueFacts
<1>2. /\ p.m_pQ = [q.m_pQ EXCEPT ![q.m_dwHead] = t]
      /\ p.m_dwRestCount = q.m_dwRestCount - 1
      /\ p.m_dwHead = (q.m_dwHead + 1) % QueueSize /\ p.m_dwTail = q.m_dwTail
  BY DEF Push, RoundQueue
<1>3. p \in RoundQueue
  BY PushType
<1>4. c \in 0 .. QueueSize - 1 /\ Count(p) = c + 1
  <2>1. q.m_dwRestCount # 0
    BY DEF IsFull
  <2>2. Count(p) = QueueSize - (q.m_dwRestCount - 1)
    BY <1>2 DEF Count
  <2>3. QueueSize \in Nat \ {0} /\ q.m_dwRestCount \in 0 .. QueueSize
        /\ c = QueueSize - q.m_dwRestCount
    BY <1>1, Zenon
  <2> HIDE DEF p, c
  <2>4. c \in 0 .. QueueSize - 1 /\ QueueSize - (q.m_dwRestCount - 1) = c + 1
    BY <2>1, <2>3, CountBy
  <2> QED  BY <2>2, <2>4, Zenon
<1>5. q.m_dwHead = (q.m_dwTail + c) % QueueSize
  BY DEF Ring
<1>6. Wait(p) \in Seq(Entry) /\ Len(Wait(p)) = c + 1
  BY <1>3, <1>4, QueueFacts
<1>7. Rec(t) \in Entry
  BY <1>1 DEF Rec, Entry
<1> HIDE DEF p, c
<1>8. /\ (q.m_dwHead + 1) % QueueSize = (q.m_dwTail + (c + 1)) % QueueSize
      /\ \A k \in 0 .. c - 1 : (q.m_dwTail + k) % QueueSize # q.m_dwHead
  <2>1. QueueSize \in Nat \ {0} /\ q.m_dwTail \in 0 .. QueueSize - 1
    BY <1>1, Zenon
  <2>2. /\ (((q.m_dwTail + c) % QueueSize) + 1) % QueueSize = (q.m_dwTail + (c + 1)) % QueueSize
        /\ \A k \in 0 .. c - 1 :
             (q.m_dwTail + k) % QueueSize # (q.m_dwTail + c) % QueueSize
    BY <1>4, <2>1, ModPush, Zenon
  <2> QED  BY <1>5, <2>2, Zenon
<1>9. Ring(p)
  BY <1>2, <1>4, <1>8, Zenon DEF Ring
<1>10. c \in Int /\ c \in Nat
  BY <1>1
<1>11. \A k \in 1 .. c + 1 : Wait(p)[k] = Rec(p.m_pQ[Slot(p, k)])
  BY <1>4 DEF Wait
<1>12. \A k \in 1 .. c : Wait(q)[k] = Rec(q.m_pQ[Slot(q, k)])
  BY DEF Wait, c
<1>13. ASSUME NEW k \in 1 .. c  PROVE Wait(p)[k] = Wait(q)[k]
  <2>1. k \in 1 .. c + 1
    BY <1>10
  <2>2. Slot(p, k) = Slot(q, k)
    BY <1>2 DEF Slot
  <2>3. k - 1 \in 0 .. c - 1 /\ q.m_dwTail + k - 1 = q.m_dwTail + (k - 1)
    BY <1>1, <1>10
  <2>4. Slot(q, k) # q.m_dwHead
    BY <1>8, <2>3 DEF Slot
  <2>5. p.m_pQ[Slot(q, k)] = q.m_pQ[Slot(q, k)]
    BY <1>1, <1>2, <2>4
  <2> QED  BY <1>11, <1>12, <2>1, <2>2, <2>5
<1>14. Wait(p)[c + 1] = Rec(t)
  <2>1. c + 1 \in 1 .. c + 1 /\ q.m_dwTail + (c + 1) - 1 = q.m_dwTail + c
    <3>1. \A x, y \in Int : x + (y + 1) - 1 = x + y
      OBVIOUS
    <3>2. c + 1 \in 1 .. c + 1 /\ c \in Int /\ q.m_dwTail \in Int
      BY <1>1, <1>10
    <3> QED  BY <3>1, <3>2, Zenon
  <2>2. Slot(p, c + 1) = q.m_dwHead
    BY <1>2, <1>5, <2>1 DEF Slot
  <2> QED  BY <1>1, <1>2, <1>11, <2>1, <2>2
<1>15. Wait(p) = Append(Wait(q), Rec(t))
  BY <1>1, <1>6, <1>7, <1>13, <1>14, AppendIs, Zenon
<1> QED  BY <1>9, <1>15 DEF p

LEMMA WaitPop ==
  ASSUME MaxiAssumption, NEW q \in RoundQueue, Ring(q), ~IsEmpty(q)
  PROVE  /\ Ring(Pop(q))
         /\ Wait(q) = <<Rec(Pop(q).m_Pop.tx)>> \o Wait(Pop(q))
         /\ Pop(q).m_Pop.BEAT = Beats[Pop(q).m_Pop.tx]
<1> DEFINE p == Pop(q)
           c == Count(q)
           t == q.m_pQ[q.m_dwTail]
<1>1. /\ QueueSize \in Nat \ {0} /\ q.m_dwHead \in 0 .. QueueSize - 1
      /\ q.m_dwTail \in 0 .. QueueSize - 1 /\ q.m_dwRestCount \in 0 .. QueueSize
      /\ c = QueueSize - q.m_dwRestCount /\ c \in 0 .. QueueSize
      /\ q.m_pQ \in [0 .. QueueSize - 1 -> Bursts]
      /\ Wait(q) \in Seq(Entry) /\ Len(Wait(q)) = c
      /\ Beats \in [Bursts -> Nat \ {0}]
  BY QueueFacts
<1>2. /\ p.m_pQ = q.m_pQ /\ p.m_dwRestCount = q.m_dwRestCount + 1
      /\ p.m_dwHead = q.m_dwHead /\ p.m_dwTail = (q.m_dwTail + 1) % QueueSize
      /\ p.m_Pop = NewDesc(t)
  BY DEF Pop, RoundQueue
<1>3. p \in RoundQueue /\ p.m_Pop.tx = t /\ p.m_Pop.BEAT = Beats[t]
  BY <1>2, PopType DEF NewDesc
<1>4. c > 0 /\ c - 1 \in 0 .. QueueSize - 1 /\ Count(p) = c - 1
  <2>1. q.m_dwRestCount # QueueSize
    BY DEF IsEmpty
  <2>2. Count(p) = QueueSize - (q.m_dwRestCount + 1)
    BY <1>2 DEF Count
  <2>3. QueueSize \in Nat \ {0} /\ q.m_dwRestCount \in 0 .. QueueSize
        /\ c = QueueSize - q.m_dwRestCount
    BY <1>1, Zenon
  <2> HIDE DEF p, c
  <2>4. c > 0 /\ c - 1 \in 0 .. QueueSize - 1 /\ QueueSize - (q.m_dwRestCount + 1) = c - 1
    BY <2>1, <2>3, CountBy
  <2> QED  BY <2>2, <2>4, Zenon
<1>5. q.m_dwHead = (q.m_dwTail + c) % QueueSize
  BY DEF Ring
<1>6. Wait(p) \in Seq(Entry) /\ Len(Wait(p)) = c - 1
  BY <1>3, <1>4, QueueFacts
<1>7. Rec(t) \in Entry
  BY <1>1 DEF Rec, Entry
<1> HIDE DEF p, c, t
<1>8. \A k \in 0 .. QueueSize - 1 :
        (p.m_dwTail + k) % QueueSize = (q.m_dwTail + (k + 1)) % QueueSize
  BY <1>1, <1>2, ModPop, Zenon
<1>9. Ring(p)
  <2>1. (c - 1) + 1 = c
    BY <1>1
  <2>2. (p.m_dwTail + (c - 1)) % QueueSize = (q.m_dwTail + c) % QueueSize
    BY <1>4, <1>8, <2>1, Zenon
  <2> QED  BY <1>2, <1>4, <1>5, <2>2, Zenon DEF Ring
<1>10. c \in Nat \ {0} /\ c - 1 < QueueSize /\ QueueSize \in Nat
  <2>1. QueueSize \in Nat \ {0} /\ c \in 0 .. QueueSize
    BY <1>1, Zenon
  <2> QED  BY <1>4, <2>1
<1>11. ASSUME NEW k \in 1 .. c - 1  PROVE Wait(q)[k + 1] = Wait(p)[k]
  <2>1. /\ k - 1 \in 0 .. QueueSize - 1 /\ k + 1 \in 1 .. c /\ k \in Int
    BY <1>10
  <2>2. p.m_dwTail \in Int /\ q.m_dwTail \in Int
    BY <1>1, <1>3 DEF RoundQueue
  <2>3. /\ p.m_dwTail + k - 1 = p.m_dwTail + (k - 1)
        /\ q.m_dwTail + (k + 1) - 1 = q.m_dwTail + ((k - 1) + 1)
    BY <2>1, <2>2
  <2>4. Slot(p, k) = Slot(q, k + 1)
    BY <1>8, <2>1, <2>3, Zenon DEF Slot
  <2>5. Wait(q)[k + 1] = Rec(q.m_pQ[Slot(q, k + 1)])
    BY <2>1 DEF Wait, c
  <2>6. Wait(p)[k] = Rec(p.m_pQ[Slot(p, k)])
    BY <1>4 DEF Wait
  <2> QED  BY <1>2, <2>4, <2>5, <2>6
<1>12. Wait(q)[1] = Rec(t)
  <2>1. q.m_dwTail + 1 - 1 = q.m_dwTail + 0 /\ q.m_dwTail + 0 = q.m_dwTail
    BY <1>1
  <2>2. /\ 0 \in 0 .. QueueSize /\ q.m_dwTail < QueueSize /\ 1 \in 1 .. c
    BY <1>1, <1>10
  <2>3. (q.m_dwTail + 0) % QueueSize = Wrap(QueueSize, q.m_dwTail + 0)
    BY <1>1, <2>2, Wraps, Zenon
  <2>4. Slot(q, 1) = q.m_dwTail
    BY <2>1, <2>2, <2>3, Zenon DEF Slot, Wrap
  <2> QED  BY <2>2, <2>4 DEF Wait, c, t
<1>13. Len(Wait(q)) = Len(Wait(p)) + 1 /\ Len(Wait(p)) = c - 1
  BY <1>1, <1>6, <1>10
<1>14. Wait(q) = <<Rec(t)>> \o Wait(p)
  <2>1. \A k \in 1 .. Len(Wait(p)) : Wait(q)[k + 1] = Wait(p)[k]
    BY <1>11, <1>13, Zenon
  <2>2. Wait(q) \in Seq(Entry) /\ Len(Wait(q)) = Len(Wait(p)) + 1
    BY <1>1, <1>13, Zenon
  <2> DEFINE w == Wait(q)
             v == Wait(p)
             r == Rec(t)
  <2>3. /\ w \in Seq(Entry) /\ v \in Seq(Entry) /\ r \in Entry
        /\ Len(w) = Len(v) + 1 /\ w[1] = r
        /\ \A k \in 1 .. Len(v) : w[k + 1] = v[k]
    BY <1>6, <1>7, <1>12, <2>1, <2>2, Zenon
  <2> HIDE DEF w, v, r
  <2>4. w = <<r>> \o v
    BY <2>3, FrontIs
  <2> QED  BY <2>4 DEF w, v, r
<1> QED  BY <1>3, <1>9, <1>14 DEF p

-------------------------------------------------------------------------------
(* The port in the terms of Maxi: the burst in service, in front of those   *)
(* that wait, and what a clock may do to them.                              *)
Serv(d, p, desc, bvalid, rvalid) ==
  IF p THEN <<[tx |-> desc.tx,
               left |-> desc.BEAT + N(d = "R" /\ rvalid /\ desc.status = "memory")]>>
  ELSE IF d = "W" /\ bvalid THEN <<[tx |-> desc.tx, left |-> 0]>>
  ELSE <<>>

LastOf(d) == IF d = "W" THEN 0 ELSE 1

ProgressOf(l, o) ==
  IF o = <<>> THEN {<<>>}
  ELSE {o} \cup {[o EXCEPT ![1].left = @ - 1] : k \in {l} \ {o[1].left}}
           \cup {Tail(o) : k \in {l} \cap {o[1].left}}

PortStep(d) ==
  \/ /\ nRST'[d]
     /\ \E o \in ProgressOf(LastOf(d), Open(d)) :
          \/ Open(d)' = o
          \/ \E t \in Of(d) : Open(d)' = Append(o, Rec(t))
  \/ /\ ~nRST'[d]
     /\ Open(d)' = Open(d) \/ (Open(d) # <<>> /\ Open(d)' = Tail(Open(d)))
  \/ Open(d)' = Open(d) /\ nRST'[d] = nRST[d]

LEMMA OpenIs ==
  ASSUME NEW d \in Dirs
  PROVE  /\ Open(d) = Serv(d, pDesc[d], queue[d].m_Pop, BVALID, RVALID) \o Wait(queue[d])
         /\ Open(d)' = Serv(d, pDesc'[d], queue'[d].m_Pop, BVALID', RVALID')
                         \o Wait(queue'[d])
BY DEF Open, InService, Waiting, Serv, Wait, Slot, Rec, Count

LEMMA ServType ==
  ASSUME NEW d, NEW p, NEW desc \in Desc, NEW bvalid, NEW rvalid
  PROVE  Serv(d, p, desc, bvalid, rvalid) \in Seq(Entry)
<1>1. N(d = "R" /\ rvalid /\ desc.status = "memory") \in Nat
  BY DEF N
<1>2. desc.tx \in Bursts /\ desc.BEAT \in Nat
  BY DEF Desc
<1>3. /\ [tx |-> desc.tx, left |-> 0] \in Entry
      /\ [tx |-> desc.tx,
          left |-> desc.BEAT + N(d = "R" /\ rvalid /\ desc.status = "memory")] \in Entry
  BY <1>1, <1>2 DEF Entry
<1> QED  BY <1>3 DEF Serv

LEMMA AppendCat ==
  ASSUME NEW S, NEW v \in Seq(S), NEW w \in Seq(S), NEW r \in S
  PROVE  v \o Append(w, r) = Append(v \o w, r)
OBVIOUS

LEMMA EmptyCat ==
  ASSUME NEW S, NEW w \in Seq(S)
  PROVE  <<>> \o w = w
OBVIOUS

LEMMA TailFront ==
  ASSUME NEW S, NEW w \in Seq(S), NEW r \in S
  PROVE  Tail(<<r>> \o w) = w /\ <<r>> \o w # <<>> /\ (<<r>> \o w)[1] = r
OBVIOUS

LEMMA ExceptFront ==
  ASSUME NEW S, NEW w \in Seq(S), NEW r \in S, NEW e \in S
  PROVE  [<<r>> \o w EXCEPT ![1] = e] = <<e>> \o w
<1> DEFINE o == <<r>> \o w
           u == <<e>> \o w
           x == [o EXCEPT ![1] = e]
<1>1. o \in Seq(S) /\ u \in Seq(S) /\ Len(o) = Len(w) + 1 /\ Len(u) = Len(w) + 1
      /\ Len(w) \in Nat
  OBVIOUS
<1>2. u[1] = e /\ \A k \in 1 .. Len(w) + 1 : k # 1 => o[k] = u[k]
  OBVIOUS
<1> HIDE DEF o, u
<1>3. x \in Seq(S) /\ Len(x) = Len(w) + 1
  BY <1>1
<1>4. ASSUME NEW k \in 1 .. Len(w) + 1  PROVE x[k] = u[k]
  <2>1. CASE k = 1
    BY <1>1, <1>2, <2>1
  <2>2. CASE k # 1
    BY <1>1, <1>2, <2>2
  <2> QED  BY <2>1, <2>2
<1> HIDE DEF x
<1>5. x = u
  BY <1>1, <1>3, <1>4
<1> QED  BY <1>5 DEF x, o, u

(* A clock may leave the bursts, take a beat from the first or end it.      *)
LEMMA ProgressSame ==
  ASSUME NEW l, NEW o
  PROVE  o \in ProgressOf(l, o)
BY DEF ProgressOf

LEMMA ProgressBeat ==
  ASSUME NEW l, NEW w \in Seq(Entry), NEW t \in Bursts, NEW b \in Nat \ {0}, b # l
  PROVE  <<[tx |-> t, left |-> b - 1]>> \o w
           \in ProgressOf(l, <<[tx |-> t, left |-> b]>> \o w)
<1> DEFINE r == [tx |-> t, left |-> b]
           e == [tx |-> t, left |-> b - 1]
           o == <<r>> \o w
<1>1. r \in Entry /\ e \in Entry /\ r.left = b /\ [r EXCEPT !.left = @ - 1] = e
  BY DEF Entry
<1> HIDE DEF r, e
<1>2. o # <<>> /\ o[1] = r
  BY <1>1, TailFront
<1>3. [o EXCEPT ![1] = e] = <<e>> \o w
  BY <1>1, ExceptFront
<1> HIDE DEF o
<1>4. [o EXCEPT ![1].left = @ - 1] = [o EXCEPT ![1] = [o[1] EXCEPT !.left = @ - 1]]
  OBVIOUS
<1>5. [o EXCEPT ![1].left = @ - 1] = <<e>> \o w
  BY <1>1, <1>2, <1>3, <1>4
<1>6. l \in {l} \ {o[1].left}
  BY <1>1, <1>2
<1>7. [o EXCEPT ![1].left = @ - 1] \in ProgressOf(l, o)
  BY <1>2, <1>6 DEF ProgressOf
<1> QED  BY <1>5, <1>7 DEF o, e, r

LEMMA ProgressEnd ==
  ASSUME NEW l \in Nat, NEW w \in Seq(Entry), NEW t \in Bursts
  PROVE  w \in ProgressOf(l, <<[tx |-> t, left |-> l]>> \o w)
<1> DEFINE r == [tx |-> t, left |-> l]
           o == <<r>> \o w
<1>1. r \in Entry /\ r.left = l
  BY DEF Entry
<1> HIDE DEF r
<1>2. o # <<>> /\ o[1] = r /\ Tail(o) = w
  BY <1>1, TailFront
<1> HIDE DEF o
<1>3. l \in {l} \cap {o[1].left}
  BY <1>1, <1>2
<1>4. Tail(o) \in ProgressOf(l, o)
  BY <1>2, <1>3 DEF ProgressOf
<1> QED  BY <1>2, <1>4 DEF o, r

(* What the address phase adds to the bursts.                               *)
LEMMA RequestOpen ==
  ASSUME MaxiAssumption, TypeOK, NEW d \in Dirs, NEW q \in RoundQueue, NEW h,
         Ring(q), READY[d] => ~IsFull(q), Request(d, q, h)
  PROVE  /\ Ring(queue'[d]) /\ nRST'[d] /\ queue'[d].m_Pop = q.m_Pop
         /\ \/ Wait(queue'[d]) = Wait(q)
            \/ \E t \in Of(d) : Wait(queue'[d]) = Append(Wait(q), Rec(t))
         /\ \A e \in Dirs \ {d} : queue'[e] = queue[e] /\ nRST'[e] = nRST[e]
<1>1. queue \in [Dirs -> RoundQueue] /\ nRST \in [Dirs -> BOOLEAN]
  BY DEF TypeOK
<1>2. nRST' = [nRST EXCEPT ![d] = TRUE]
  BY DEF Request
<1>3. CASE READY[d] /\ \E t \in (load \cap Of(d)) \ Issued(d) :
                         queue' = [queue EXCEPT ![d] = Push(q, t)]
  <2>1. PICK t \in Of(d) : queue' = [queue EXCEPT ![d] = Push(q, t)]
    BY <1>3
  <2>2. t \in Bursts
    BY DEF Of, Bursts
  <2>3. /\ Ring(Push(q, t)) /\ Wait(Push(q, t)) = Append(Wait(q), Rec(t))
        /\ Push(q, t).m_Pop = q.m_Pop
    BY <1>3, <2>2, WaitPush, PushType
  <2> QED  BY <1>1, <1>2, <2>1, <2>3
<1>4. CASE queue' = [queue EXCEPT ![d] = q]
  BY <1>1, <1>2, <1>4
<1> QED  BY <1>3, <1>4 DEF Request

(* A clock of direction d whose data phase leaves the queue q and makes     *)
(* progress on the bursts is one of the port, in both directions.           *)
LEMMA PortClock ==
  ASSUME MaxiAssumption, IInv, RingOK, NEW d \in Dirs, NEW q \in RoundQueue, NEW h,
         NEW p \in BOOLEAN, Ring(q), READY[d] => ~IsFull(q), Request(d, q, h),
         pDesc' = [pDesc EXCEPT ![d] = p],
         d = "W" => RVALID' = RVALID, d = "R" => BVALID' = BVALID,
         Serv(d, p, q.m_Pop, BVALID', RVALID') \o Wait(q) \in ProgressOf(LastOf(d), Open(d))
  PROVE  RingOK' /\ \A e \in Dirs : PortStep(e)
<1>1. TypeOK /\ pDesc \in [Dirs -> BOOLEAN]
  BY DEF IInv, TypeOK
<1>2. /\ Ring(queue'[d]) /\ nRST'[d] /\ queue'[d].m_Pop = q.m_Pop
      /\ \/ Wait(queue'[d]) = Wait(q)
         \/ \E t \in Of(d) : Wait(queue'[d]) = Append(Wait(q), Rec(t))
      /\ \A e \in Dirs \ {d} : queue'[e] = queue[e] /\ nRST'[e] = nRST[e]
  BY <1>1, RequestOpen
<1>3. pDesc'[d] = p /\ \A e \in Dirs \ {d} : pDesc'[e] = pDesc[e]
  BY <1>1
<1>4. RingOK'
  <2>1. \A e \in Dirs : Ring(queue'[e])
    BY <1>2 DEF RingOK
  <2> QED  BY <2>1 DEF RingOK, Ring, Count
<1> DEFINE s == Serv(d, p, q.m_Pop, BVALID', RVALID')
<1>5. Open(d)' = s \o Wait(queue'[d])
  BY <1>2, <1>3, OpenIs
<1>6. s \in Seq(Entry) /\ Wait(q) \in Seq(Entry)
  <2>1. q.m_Pop \in Desc
    BY DEF RoundQueue
  <2> QED  BY <2>1, ServType, QueueFacts
<1> HIDE DEF s
<1>7. PortStep(d)
  <2>1. s \o Wait(q) \in ProgressOf(LastOf(d), Open(d))
    BY DEF s
  <2>2. CASE Wait(queue'[d]) = Wait(q)
    BY <1>2, <1>5, <2>1, <2>2 DEF PortStep
  <2>3. CASE \E t \in Of(d) : Wait(queue'[d]) = Append(Wait(q), Rec(t))
    <3>1. PICK t \in Of(d) : Wait(queue'[d]) = Append(Wait(q), Rec(t))
      BY <2>3
    <3>2. Rec(t) \in Entry
      BY DEF Rec, Entry, Of, Bursts, MaxiAssumption
    <3>3. Open(d)' = Append(s \o Wait(q), Rec(t))
      BY <1>5, <1>6, <3>1, <3>2, AppendCat
    <3> QED  BY <1>2, <2>1, <3>3 DEF PortStep
  <2> QED  BY <1>2, <2>2, <2>3
<1>8. ASSUME NEW e \in Dirs \ {d}  PROVE PortStep(e)
  <2>1. Open(e)' = Open(e)
    <3>1. /\ queue'[e] = queue[e] /\ pDesc'[e] = pDesc[e]
          /\ (e = "W" => BVALID' = BVALID) /\ (e = "R" => RVALID' = RVALID)
      BY <1>2, <1>3 DEF Dirs
    <3>2. Serv(e, pDesc'[e], queue'[e].m_Pop, BVALID', RVALID')
            = Serv(e, pDesc[e], queue[e].m_Pop, BVALID, RVALID)
      <4>1. CASE e = "W"
        BY <3>1, <4>1 DEF Serv, N
      <4>2. CASE e = "R"
        BY <3>1, <4>2 DEF Serv, N
      <4> QED  BY <4>1, <4>2 DEF Dirs
    <3> QED  BY <3>1, <3>2, OpenIs
  <2> QED  BY <1>2, <2>1 DEF PortStep
<1> QED  BY <1>4, <1>7, <1>8

(* The data phases, by what they do to the burst in service.  It stays:     *)
LEMMA PortStays ==
  ASSUME MaxiAssumption, IInv, RingOK, NEW d \in Dirs, NEW q \in RoundQueue, NEW h,
         q = queue[d] \/ \E s \in {"init", "request", "wait", "memory", "done"} :
                            q = SetStatus(d, s),
         Request(d, q, h), pDesc' = pDesc,
         d = "W" => RVALID' = RVALID /\ BVALID' = BVALID,
         d = "R" => /\ BVALID' = BVALID
                    /\ pDesc[d] => \/ RVALID' = RVALID /\ q.m_Pop.status = queue[d].m_Pop.status
                                   \/ /\ ~RVALID \/ queue[d].m_Pop.status # "memory"
                                      /\ ~RVALID' \/ q.m_Pop.status # "memory"
  PROVE  RingOK' /\ \A e \in Dirs : PortStep(e)
<1>1. /\ queue[d] \in RoundQueue /\ pDesc[d] \in BOOLEAN
      /\ pDesc' = [pDesc EXCEPT ![d] = pDesc[d]] /\ (READY[d] => ~IsFull(queue[d]))
  BY Start
<1>2. /\ q.m_pQ = queue[d].m_pQ /\ q.m_dwHead = queue[d].m_dwHead
      /\ q.m_dwTail = queue[d].m_dwTail /\ q.m_dwRestCount = queue[d].m_dwRestCount
      /\ q.m_Pop.tx = queue[d].m_Pop.tx /\ q.m_Pop.BEAT = queue[d].m_Pop.BEAT
  <2>1. CASE q = queue[d]
    BY <2>1
  <2>2. CASE \E s \in {"init", "request", "wait", "memory", "done"} : q = SetStatus(d, s)
    <3>1. PICK s \in {"init", "request", "wait", "memory", "done"} : q = SetStatus(d, s)
      BY <2>2
    <3>2. q = [queue[d] EXCEPT !.m_Pop = [queue[d].m_Pop EXCEPT !.status = s]]
      BY <3>1 DEF SetStatus
    <3>3. queue[d].m_Pop \in Desc
      BY <1>1 DEF RoundQueue
    <3> QED  BY <1>1, <3>2, <3>3 DEF RoundQueue, Desc
  <2> QED  BY <2>1, <2>2
<1>3. Ring(q) /\ (READY[d] => ~IsFull(q)) /\ Wait(q) = Wait(queue[d])
  BY <1>1, <1>2 DEF RingOK, Ring, IsFull, Wait, Count, Slot
<1>4. Serv(d, pDesc[d], q.m_Pop, BVALID', RVALID')
        = Serv(d, pDesc[d], queue[d].m_Pop, BVALID, RVALID)
  <2>1. CASE d = "W"
    BY <1>2, <2>1 DEF Serv, N
  <2>2. CASE d = "R" /\ pDesc[d]
    <3>1. (RVALID' /\ q.m_Pop.status = "memory") <=> (RVALID /\ queue[d].m_Pop.status = "memory")
      BY <2>2
    <3>2. N(d = "R" /\ RVALID' /\ q.m_Pop.status = "memory")
            = N(d = "R" /\ RVALID /\ queue[d].m_Pop.status = "memory")
      BY <3>1 DEF N
    <3> QED  BY <1>2, <2>2, <3>2 DEF Serv
  <2>3. CASE d = "R" /\ ~pDesc[d]
    BY <2>3 DEF Serv
  <2> QED  BY <2>1, <2>2, <2>3 DEF Dirs
<1>5. Serv(d, pDesc[d], q.m_Pop, BVALID', RVALID') \o Wait(q) = Open(d)
  BY <1>3, <1>4, OpenIs
<1>6. Serv(d, pDesc[d], q.m_Pop, BVALID', RVALID') \o Wait(q)
        \in ProgressOf(LastOf(d), Open(d))
  BY <1>5, ProgressSame
<1> QED  BY <1>1, <1>3, <1>6, PortClock

(* It comes from the queue:                                                 *)
LEMMA PortPop ==
  ASSUME MaxiAssumption, IInv, RingOK, NEW d \in Dirs, NEW h,
         ~pDesc[d], d = "W" => ~BVALID, ~IsEmpty(queue[d]),
         Request(d, Pop(queue[d]), h), pDesc' = [pDesc EXCEPT ![d] = TRUE],
         d = "W" => RVALID' = RVALID, d = "R" => BVALID' = BVALID /\ ~RVALID'
  PROVE  RingOK' /\ \A e \in Dirs : PortStep(e)
<1> DEFINE q == Pop(queue[d])
<1>1. queue[d] \in RoundQueue /\ Ring(queue[d])
  BY Start DEF RingOK
<1>2. /\ q \in RoundQueue /\ q.m_dwRestCount = queue[d].m_dwRestCount + 1
      /\ q.m_Pop.BEAT > 0
  BY <1>1, PopType
<1>3. Ring(q) /\ Wait(queue[d]) = <<Rec(q.m_Pop.tx)>> \o Wait(q)
      /\ q.m_Pop.BEAT = Beats[q.m_Pop.tx]
  BY <1>1, WaitPop
<1> HIDE DEF q
<1>4. READY[d] => ~IsFull(q)
  <2>1. queue[d].m_dwRestCount \in Nat
    BY <1>1 DEF RoundQueue
  <2> QED  BY <1>2, <2>1 DEF IsFull
<1>5. Serv(d, TRUE, q.m_Pop, BVALID', RVALID') = <<Rec(q.m_Pop.tx)>>
  <2>1. q.m_Pop.BEAT \in Nat
    BY <1>2 DEF RoundQueue, Desc
  <2>2. N(d = "R" /\ RVALID' /\ q.m_Pop.status = "memory") = 0
    BY DEF N
  <2>3. q.m_Pop.BEAT + N(d = "R" /\ RVALID' /\ q.m_Pop.status = "memory") = q.m_Pop.BEAT
    BY <2>1, <2>2
  <2> QED  BY <1>3, <2>3 DEF Serv, Rec
<1>6. Open(d) = Wait(queue[d])
  <2>1. Serv(d, pDesc[d], queue[d].m_Pop, BVALID, RVALID) = <<>>
    BY DEF Serv
  <2> QED  BY <1>1, <2>1, OpenIs, QueueFacts, EmptyCat
<1>7. Serv(d, TRUE, q.m_Pop, BVALID', RVALID') \o Wait(q) \in ProgressOf(LastOf(d), Open(d))
  BY <1>3, <1>5, <1>6, ProgressSame
<1>8. Request(d, q, h)
  BY DEF q
<1> QED  BY <1>2, <1>3, <1>4, <1>7, <1>8, PortClock

(* It has n to go, where it had l: as many, one less, or none at its end.   *)
LEMMA PortLeft ==
  ASSUME MaxiAssumption, IInv, RingOK, NEW d \in Dirs, NEW q \in RoundQueue, NEW h,
         NEW p \in BOOLEAN, NEW b \in Nat, NEW l \in Nat,
         q = [queue[d] EXCEPT !.m_Pop.BEAT = b],
         Request(d, q, h), pDesc' = [pDesc EXCEPT ![d] = p],
         d = "W" => RVALID' = RVALID, d = "R" => BVALID' = BVALID,
         Serv(d, pDesc[d], queue[d].m_Pop, BVALID, RVALID)
           = <<[tx |-> queue[d].m_Pop.tx, left |-> l]>>,
         \/ \E n \in Nat :
              /\ Serv(d, p, q.m_Pop, BVALID', RVALID')
                   = <<[tx |-> queue[d].m_Pop.tx, left |-> n]>>
              /\ n = l \/ (n = l - 1 /\ l # LastOf(d))
         \/ Serv(d, p, q.m_Pop, BVALID', RVALID') = <<>> /\ l = LastOf(d)
  PROVE  RingOK' /\ \A e \in Dirs : PortStep(e)
<1> DEFINE t == queue[d].m_Pop.tx
           w == Wait(queue[d])
           s == Serv(d, p, q.m_Pop, BVALID', RVALID')
<1>1. /\ queue[d] \in RoundQueue /\ (READY[d] => ~IsFull(queue[d]))
  BY Start
<1>2. /\ q.m_pQ = queue[d].m_pQ /\ q.m_dwHead = queue[d].m_dwHead
      /\ q.m_dwTail = queue[d].m_dwTail /\ q.m_dwRestCount = queue[d].m_dwRestCount
  BY <1>1 DEF RoundQueue
<1>3. Ring(q) /\ (READY[d] => ~IsFull(q)) /\ Wait(q) = w
  BY <1>1, <1>2 DEF RingOK, Ring, IsFull, Wait, Count, Slot
<1>4. t \in Bursts /\ w \in Seq(Entry)
  BY <1>1, QueueFacts DEF RoundQueue, Desc
<1>5. Open(d) = <<[tx |-> t, left |-> l]>> \o w
  BY OpenIs
<1>6. s \o w \in ProgressOf(LastOf(d), Open(d))
  <2> HIDE DEF w, s, t
  <2>1. CASE \E n \in Nat : /\ s = <<[tx |-> t, left |-> n]>>
                            /\ n = l \/ (n = l - 1 /\ l # LastOf(d))
    <3>1. PICK n \in Nat : /\ s = <<[tx |-> t, left |-> n]>>
                           /\ n = l \/ (n = l - 1 /\ l # LastOf(d))
      BY <2>1
    <3>2. CASE n = l
      BY <1>5, <3>1, <3>2, ProgressSame
    <3>3. CASE n = l - 1 /\ l # LastOf(d)
      <4>1. l \in Nat \ {0}
        BY <3>3
      <4>2. <<[tx |-> t, left |-> l - 1]>> \o w
              \in ProgressOf(LastOf(d), <<[tx |-> t, left |-> l]>> \o w)
        BY <1>4, <3>3, <4>1, ProgressBeat
      <4> QED  BY <1>5, <3>1, <3>3, <4>2
    <3> QED  BY <3>1, <3>2, <3>3
  <2>2. CASE s = <<>> /\ l = LastOf(d)
    <3>1. s \o w = w
      BY <1>4, <2>2, EmptyCat
    <3>2. w \in ProgressOf(l, <<[tx |-> t, left |-> l]>> \o w)
      BY <1>4, ProgressEnd
    <3> QED  BY <1>5, <2>2, <3>1, <3>2
  <2>3. \/ \E n \in Nat : /\ s = <<[tx |-> t, left |-> n]>>
                          /\ n = l \/ (n = l - 1 /\ l # LastOf(d))
        \/ s = <<>> /\ l = LastOf(d)
    BY DEF s, t
  <2> QED  BY <2>1, <2>2, <2>3
<1>7. s \o Wait(q) \in ProgressOf(LastOf(d), Open(d))
  BY <1>3, <1>6
<1> QED  BY <1>3, <1>7, PortClock

LEMMA PortWrite ==
  ASSUME MaxiAssumption, IInv, RingOK,
         \/ WritePop \/ WriteIdle \/ WriteSlave
         \/ \E b \in BOOLEAN : WriteRespond(b)
         \/ \E v, b \in BOOLEAN : WriteMemory(v, b)
  PROVE  RingOK' /\ \A e \in Dirs : PortStep(e)
<1> "W" \in Dirs /\ "W" # "R"
  BY DEF Dirs
<1>0. /\ queue["W"] \in RoundQueue /\ queue["W"].m_Pop.BEAT \in Nat
      /\ queue["W"].m_Pop \in Desc /\ pDesc = [pDesc EXCEPT !["W"] = pDesc["W"]]
  BY Start DEF RoundQueue
<1>1. CASE WritePop
  BY <1>1, PortPop DEF WritePop
<1>2. CASE WriteIdle
  BY <1>0, <1>2, PortStays DEF WriteIdle
<1>3. CASE \E b \in BOOLEAN : WriteRespond(b)
  <2>1. PICK b \in BOOLEAN : WriteRespond(b)
    BY <1>3
  <2>2. /\ ~pDesc["W"] /\ BVALID /\ BVALID' = ~b /\ Request("W", queue["W"], hold["W"])
        /\ UNCHANGED <<pDesc, RVALID>>
    BY <2>1 DEF WriteRespond
  <2>3. CASE b
    <3>1. queue["W"] = [queue["W"] EXCEPT !.m_Pop.BEAT = queue["W"].m_Pop.BEAT]
      BY <1>0 DEF RoundQueue, Desc
    <3>2. Serv("W", pDesc["W"], queue["W"].m_Pop, BVALID, RVALID)
            = <<[tx |-> queue["W"].m_Pop.tx, left |-> 0]>>
      BY <2>2 DEF Serv
    <3>3. Serv("W", FALSE, queue["W"].m_Pop, BVALID', RVALID') = <<>> /\ 0 = LastOf("W")
      BY <2>2, <2>3 DEF Serv, LastOf
    <3>4. pDesc' = [pDesc EXCEPT !["W"] = FALSE]
      BY <1>0, <2>2, Start
    <3>5. /\ queue["W"] \in RoundQueue /\ queue["W"].m_Pop.BEAT \in Nat
          /\ Request("W", queue["W"], hold["W"]) /\ RVALID' = RVALID
      BY <1>0, <2>2
    <3>6. 0 \in Nat /\ FALSE \in BOOLEAN /\ ("W" = "R" => BVALID' = BVALID)
      OBVIOUS
    <3> QED  BY <3>1, <3>2, <3>3, <3>4, <3>5, <3>6, PortLeft, Zenon
  <2>4. CASE ~b
    BY <1>0, <2>2, <2>4, PortStays
  <2> QED  BY <2>3, <2>4
<1>4. CASE WriteSlave
  <2>1. PICK h : /\ \/ Request("W", SetStatus("W", "wait"), h)
                    \/ Request("W", SetStatus("W", "done"), h)
                    \/ Request("W", queue["W"], h)
                 /\ UNCHANGED <<pDesc, BVALID, RVALID>>
    BY <1>4 DEF WriteSlave
  <2>2. CASE Request("W", queue["W"], h)
    BY <1>0, <2>1, <2>2, PortStays
  <2>3. CASE \E s \in {"wait", "done"} : Request("W", SetStatus("W", s), h)
    <3>1. PICK s \in {"init", "request", "wait", "memory", "done"} :
            Request("W", SetStatus("W", s), h)
      BY <2>3
    <3> QED  BY <1>0, <2>1, <3>1, StatusType, PortStays DEF SetStatus
  <2> QED  BY <2>1, <2>2, <2>3
<1>5. CASE \E v, b \in BOOLEAN : WriteMemory(v, b)
  <2>1. PICK v \in BOOLEAN, valid \in BOOLEAN : WriteMemory(v, valid)
    BY <1>5
  <2> DEFINE b == queue["W"].m_Pop.BEAT - N(Takes(v))
             q == [queue["W"] EXCEPT !.m_Pop.BEAT = @ - N(Takes(v))]
             end == q.m_Pop.BEAT = 0
             h == hold["W"] - N(end)
  <2>2. /\ Status("W", "memory") /\ BVALID' = (BVALID \/ end)
        /\ pDesc' = [pDesc EXCEPT !["W"] = ~end] /\ Request("W", q, h)
        /\ UNCHANGED RVALID
    BY <2>1 DEF WriteMemory
  <2> HIDE DEF h
  <2>3. /\ b \in Nat /\ q = [queue["W"] EXCEPT !.m_Pop.BEAT = b]
        /\ queue["W"].m_Pop.BEAT \in Nat \ {0}
        /\ b = queue["W"].m_Pop.BEAT \/ b = queue["W"].m_Pop.BEAT - 1
    BY <1>0, <2>2 DEF N, IInv, TypeOK
  <2> HIDE DEF b, q
  <2>4. /\ q \in RoundQueue /\ q.m_Pop.BEAT = b /\ q.m_Pop.tx = queue["W"].m_Pop.tx
    BY <1>0, <2>3 DEF RoundQueue, Desc
  <2>5. Serv("W", pDesc["W"], queue["W"].m_Pop, BVALID, RVALID)
          = <<[tx |-> queue["W"].m_Pop.tx, left |-> queue["W"].m_Pop.BEAT]>>
    BY <1>0, <2>2 DEF Serv, Status, N
  <2>6. Serv("W", ~end, q.m_Pop, BVALID', RVALID')
          = <<[tx |-> queue["W"].m_Pop.tx, left |-> b]>>
    <3>1. CASE end
      BY <2>2, <2>4, <3>1 DEF Serv
    <3>2. CASE ~end
      BY <2>3, <2>4, <3>2 DEF Serv, N
    <3> QED  BY <3>1, <3>2
  <2>7. end \in BOOLEAN /\ LastOf("W") = 0
    BY DEF LastOf
  <2> HIDE DEF end
  <2> QED  BY <1>0, <2>2, <2>3, <2>4, <2>5, <2>6, <2>7, PortLeft
<1> QED  BY <1>1, <1>2, <1>3, <1>4, <1>5

LEMMA PortRead ==
  ASSUME MaxiAssumption, IInv, RingOK,
         \/ ReadPop \/ ReadIdle \/ ReadEnd \/ ReadSlave
         \/ \E v, b \in BOOLEAN : ReadMemory(v, b)
  PROVE  RingOK' /\ \A e \in Dirs : PortStep(e)
<1> "R" \in Dirs /\ "W" # "R"
  BY DEF Dirs
<1>0. /\ queue["R"] \in RoundQueue /\ queue["R"].m_Pop.BEAT \in Nat
      /\ queue["R"].m_Pop \in Desc /\ pDesc = [pDesc EXCEPT !["R"] = pDesc["R"]]
      /\ RVALID \in BOOLEAN /\ RLAST \in BOOLEAN
  BY Start DEF RoundQueue
<1>1. CASE ReadPop
  BY <1>1, PortPop DEF ReadPop
<1>2. CASE ReadIdle
  BY <1>0, <1>2, PortStays DEF ReadIdle
<1>3. CASE ReadEnd
  <2>1. /\ Status("R", "memory") /\ RLAST /\ Request("R", queue["R"], hold["R"] - 1)
        /\ pDesc' = [pDesc EXCEPT !["R"] = FALSE] /\ UNCHANGED BVALID
    BY <1>3 DEF ReadEnd
  <2>2. RVALID /\ queue["R"].m_Pop.BEAT = 0
    BY <2>1 DEF IInv, TypeOK
  <2>3. queue["R"] = [queue["R"] EXCEPT !.m_Pop.BEAT = queue["R"].m_Pop.BEAT]
    BY <1>0 DEF RoundQueue, Desc
  <2>4. Serv("R", pDesc["R"], queue["R"].m_Pop, BVALID, RVALID)
          = <<[tx |-> queue["R"].m_Pop.tx, left |-> 1]>>
    BY <2>1, <2>2 DEF Serv, Status, N
  <2>5. Serv("R", FALSE, queue["R"].m_Pop, BVALID', RVALID') = <<>> /\ 1 = LastOf("R")
    BY DEF Serv, LastOf
  <2> QED  BY <1>0, <2>1, <2>3, <2>4, <2>5, PortLeft
<1>4. CASE ReadSlave
  <2>1. PICK h : /\ \/ Request("R", SetStatus("R", "wait"), h)
                    \/ Request("R", SetStatus("R", "done"), h)
                    \/ Request("R", queue["R"], h) /\ RVALID' = RVALID
                 /\ UNCHANGED <<pDesc, BVALID>>
                 /\ queue["R"].m_Pop.status # "memory"
    BY <1>4 DEF ReadSlave, Status
  <2>2. /\ SetStatus("R", "wait").m_Pop.status = "wait"
        /\ SetStatus("R", "done").m_Pop.status = "done"
    BY <1>0 DEF SetStatus, RoundQueue, Desc
  <2>3. CASE Request("R", queue["R"], h) /\ RVALID' = RVALID
    BY <1>0, <2>1, <2>3, PortStays
  <2>4. CASE \E s \in {"wait", "done"} : Request("R", SetStatus("R", s), h)
    <3>1. PICK s \in {"wait", "done"} : Request("R", SetStatus("R", s), h)
      BY <2>4
    <3>2. SetStatus("R", s) \in RoundQueue /\ SetStatus("R", s).m_Pop.status # "memory"
      BY <1>0, <2>2, StatusType DEF SetStatus
    <3> QED  BY <1>0, <2>1, <3>1, <3>2, PortStays
  <2> QED  BY <2>1, <2>3, <2>4
<1>5. CASE \E v, b \in BOOLEAN : ReadMemory(v, b)
  <2>1. PICK rready \in BOOLEAN, valid \in BOOLEAN : ReadMemory(rready, valid)
    BY <1>5
  <2> DEFINE B == queue["R"].m_Pop.BEAT
             b == B - N(valid)
             q == [queue["R"] EXCEPT !.m_Pop.BEAT = b]
  <2>2. Status("R", "memory") /\ ~(RLAST /\ rready) /\ UNCHANGED <<pDesc, BVALID>>
    BY <2>1 DEF ReadMemory
  <2>3. CASE ~RVALID \/ rready
    <3>1. RVALID' = valid /\ Request("R", q, hold["R"])
      BY <2>1, <2>3 DEF ReadMemory
    <3>2. B \in Nat \ {0}
      BY <1>0, <2>2, <2>3 DEF IInv, TypeOK
    <3>3. b \in Nat /\ b + N(valid) = B /\ N(valid) \in Nat
      BY <3>2 DEF N
    <3> HIDE DEF b
    <3>4. /\ q \in RoundQueue /\ q.m_Pop.BEAT = b /\ q.m_Pop.tx = queue["R"].m_Pop.tx
          /\ q.m_Pop.status = "memory"
      BY <1>0, <2>2, <3>3 DEF RoundQueue, Desc, Status
    <3> HIDE DEF q
    <3>5. Serv("R", pDesc["R"], queue["R"].m_Pop, BVALID, RVALID)
            = <<[tx |-> queue["R"].m_Pop.tx, left |-> B + N(RVALID)]>>
      BY <2>2 DEF Serv, Status, N
    <3>6. Serv("R", TRUE, q.m_Pop, BVALID', RVALID')
            = <<[tx |-> queue["R"].m_Pop.tx, left |-> B]>>
      <4>1. N("R" = "R" /\ RVALID' /\ q.m_Pop.status = "memory") = N(valid)
        BY <3>1, <3>4 DEF N
      <4> QED  BY <3>3, <3>4, <4>1 DEF Serv
    <3>7. /\ LastOf("R") = 1 /\ B + N(RVALID) \in Nat
          /\ B = B + N(RVALID) \/ (B = (B + N(RVALID)) - 1 /\ B + N(RVALID) # 1)
      BY <1>0, <3>2 DEF LastOf, N
    <3>8. pDesc' = [pDesc EXCEPT !["R"] = TRUE]
      BY <1>0, <2>2 DEF Status
    <3> DEFINE l == B + N(RVALID)
    <3>9. B \in Nat /\ l \in Nat
      BY <3>2, <3>7
    <3>10. q = [queue["R"] EXCEPT !.m_Pop.BEAT = b]
      BY DEF q
    <3> HIDE DEF l, B
    <3>11. /\ Serv("R", pDesc["R"], queue["R"].m_Pop, BVALID, RVALID)
                = <<[tx |-> queue["R"].m_Pop.tx, left |-> l]>>
           /\ B = l \/ (B = l - 1 /\ l # LastOf("R"))
      BY <3>5, <3>7 DEF l
    <3>12. \E n \in Nat :
             /\ Serv("R", TRUE, q.m_Pop, BVALID', RVALID')
                  = <<[tx |-> queue["R"].m_Pop.tx, left |-> n]>>
             /\ n = l \/ (n = l - 1 /\ l # LastOf("R"))
      BY <3>6, <3>9, <3>11
    <3>13. BVALID' = BVALID
      BY <2>2
    <3> QED
      BY <3>1, <3>3, <3>4, <3>8, <3>9, <3>10, <3>11, <3>12, <3>13, PortLeft
  <2>4. CASE ~(~RVALID \/ rready)
    <3>1. Request("R", queue["R"], hold["R"]) /\ UNCHANGED RVALID
      BY <2>1, <2>4 DEF ReadMemory
    <3> QED  BY <1>0, <2>2, <3>1, PortStays
  <2> QED  BY <2>3, <2>4
<1> QED  BY <1>1, <1>2, <1>3, <1>4, <1>5

(* A reset takes the burst in service away, and those that wait stay.       *)
LEMMA PortReset ==
  ASSUME MaxiAssumption, IInv, RingOK, NEW d \in Dirs, Reset(d)
  PROVE  RingOK' /\ \A e \in Dirs : PortStep(e)
<1>1. /\ queue' = queue /\ nRST' = [nRST EXCEPT ![d] = FALSE]
      /\ pDesc' = [pDesc EXCEPT ![d] = FALSE]
      /\ IF d = "W" THEN BVALID' = FALSE /\ RVALID' = RVALID
                    ELSE RVALID' = FALSE /\ BVALID' = BVALID
  BY DEF Reset
<1>2. /\ nRST \in [Dirs -> BOOLEAN] /\ pDesc \in [Dirs -> BOOLEAN]
      /\ queue \in [Dirs -> RoundQueue]
  BY DEF IInv, TypeOK
<1>3. RingOK'
  BY <1>1 DEF RingOK, Ring, Count
<1>4. PortStep(d)
  <2> DEFINE w == Wait(queue[d])
             s == Serv(d, pDesc[d], queue[d].m_Pop, BVALID, RVALID)
  <2>1. Serv(d, pDesc'[d], queue'[d].m_Pop, BVALID', RVALID') = <<>>
    <3>1. pDesc'[d] = FALSE /\ ~(d = "W" /\ BVALID')
      BY <1>1, <1>2
    <3> QED  BY <3>1 DEF Serv
  <2>2. /\ w \in Seq(Entry) /\ queue[d].m_Pop \in Desc
    BY <1>2, QueueFacts
  <2>3. Open(d) = s \o w /\ Open(d)' = <<>> \o w
    BY <1>1, <2>1, OpenIs
  <2>4. s = <<>> \/ \E e \in Entry : s = <<e>>
    <3>1. /\ queue[d].m_Pop.tx \in Bursts /\ queue[d].m_Pop.BEAT \in Nat
          /\ N(d = "R" /\ RVALID /\ queue[d].m_Pop.status = "memory") \in Nat
      BY <2>2 DEF Desc, N
    <3>2. /\ [tx |-> queue[d].m_Pop.tx, left |-> 0] \in Entry
          /\ [tx |-> queue[d].m_Pop.tx,
              left |-> queue[d].m_Pop.BEAT
                        + N(d = "R" /\ RVALID /\ queue[d].m_Pop.status = "memory")] \in Entry
      BY <3>1 DEF Entry
    <3> QED  BY <3>2 DEF Serv
  <2>5. ~nRST'[d]
    BY <1>1, <1>2
  <2> HIDE DEF w, s
  <2>6. CASE s = <<>>
    BY <2>3, <2>5, <2>6 DEF PortStep
  <2>7. CASE \E e \in Entry : s = <<e>>
    <3>1. PICK e \in Entry : s = <<e>>
      BY <2>7
    <3>2. Tail(Open(d)) = w /\ Open(d) # <<>>
      BY <2>2, <2>3, <3>1, TailFront
    <3>3. <<>> \o w = w
      BY <2>2, EmptyCat
    <3> QED  BY <2>3, <2>5, <3>2, <3>3 DEF PortStep
  <2> QED  BY <2>4, <2>6, <2>7
<1>5. ASSUME NEW e \in Dirs \ {d}  PROVE PortStep(e)
  <2>1. /\ pDesc'[e] = pDesc[e] /\ nRST'[e] = nRST[e] /\ queue'[e] = queue[e]
        /\ (e = "W" => BVALID' = BVALID) /\ (e = "R" => RVALID' = RVALID)
    BY <1>1, <1>2 DEF Dirs
  <2>2. Serv(e, pDesc'[e], queue'[e].m_Pop, BVALID', RVALID')
          = Serv(e, pDesc[e], queue[e].m_Pop, BVALID, RVALID)
    <3>1. CASE e = "W"
      BY <2>1, <3>1 DEF Serv, N
    <3>2. CASE e = "R"
      BY <2>1, <3>2 DEF Serv, N
    <3> QED  BY <3>1, <3>2 DEF Dirs
  <2>3. Open(e)' = Open(e)
    BY <2>1, <2>2, OpenIs
  <2> QED  BY <2>1, <2>3 DEF PortStep
<1> QED  BY <1>3, <1>4, <1>5

LEMMA PortNextStep ==
  ASSUME MaxiAssumption, IInv, RingOK, [Next]_vars
  PROVE  RingOK' /\ \A e \in Dirs : PortStep(e)
<1>1. CASE \E d \in Dirs : Reset(d)
  BY <1>1, PortReset
<1>2. ASSUME NEW d \in Dirs, Target(d)
      PROVE  RingOK' /\ \A e \in Dirs : PortStep(e)
  <2>1. PICK s \in {"request", "memory"} : Request(d, SetStatus(d, s), hold[d])
    BY <1>2 DEF Target
  <2>2. queue[d] \in RoundQueue /\ SetStatus(d, s) \in RoundQueue
    BY Start, StatusType DEF SetStatus
  <2>3. /\ pDesc' = pDesc /\ RVALID' = RVALID /\ BVALID' = BVALID
        /\ queue[d].m_Pop.status # "memory" /\ (d = "R" => ~RVALID)
    BY <1>2 DEF Target, Status, IInv, FreshOK
  <2> QED  BY <2>1, <2>2, <2>3, PortStays
<1>3. ASSUME NEW d \in Dirs, Done(d)
      PROVE  RingOK' /\ \A e \in Dirs : PortStep(e)
  BY <1>3, Start, PortStays DEF Done
<1>4. CASE UNCHANGED vars
  <2>1. RingOK'
    BY <1>4 DEF vars, RingOK, Ring, Count
  <2>2. \A e \in Dirs : Open(e)' = Open(e) /\ nRST'[e] = nRST[e]
    BY <1>4 DEF vars, Open, InService, Waiting, Count
  <2> QED  BY <2>1, <2>2 DEF PortStep
<1> QED  BY <1>1, <1>2, <1>3, <1>4, PortWrite, PortRead DEF Next

(* PortStep is a step of AxiPort, in either direction.                      *)
LEMMA PortOfWrites ==
  ASSUME PortStep("W")
  PROVE  [WritePort!PortNext]_<<Open("W"), nRST["W"]>>
<1>1. WritePort!Progress = ProgressOf(0, Open("W"))
  BY DEF WritePort!Progress, ProgressOf
<1>2. LastOf("W") = 0 /\ Of("W") = Writes
  BY DEF LastOf, Of
<1>3. CASE /\ nRST'["W"]
           /\ \E o \in ProgressOf(LastOf("W"), Open("W")) :
                \/ Open("W")' = o
                \/ \E t \in Of("W") : Open("W")' = Append(o, Rec(t))
  <2>1. WritePort!Clock
    BY <1>1, <1>2, <1>3 DEF WritePort!Clock, Rec
  <2> QED  BY <1>3, <2>1 DEF WritePort!PortNext
<1>4. CASE /\ ~nRST'["W"]
           /\ \/ Open("W")' = Open("W")
              \/ Open("W") # <<>> /\ Open("W")' = Tail(Open("W"))
  <2>1. WritePort!Reset
    BY <1>4 DEF WritePort!Reset
  <2> QED  BY <1>4, <2>1 DEF WritePort!PortNext
<1>5. CASE Open("W")' = Open("W") /\ nRST'["W"] = nRST["W"]
  BY <1>5
<1> QED  BY <1>3, <1>4, <1>5 DEF PortStep

LEMMA PortOfReads ==
  ASSUME PortStep("R")
  PROVE  [ReadPort!PortNext]_<<Open("R"), nRST["R"]>>
<1>1. ReadPort!Progress = ProgressOf(1, Open("R"))
  BY DEF ReadPort!Progress, ProgressOf
<1>2. LastOf("R") = 1 /\ Of("R") = Reads
  BY DEF LastOf, Of
<1>3. CASE /\ nRST'["R"]
           /\ \E o \in ProgressOf(LastOf("R"), Open("R")) :
                \/ Open("R")' = o
                \/ \E t \in Of("R") : Open("R")' = Append(o, Rec(t))
  <2>1. ReadPort!Clock
    BY <1>1, <1>2, <1>3 DEF ReadPort!Clock, Rec
  <2> QED  BY <1>3, <2>1 DEF ReadPort!PortNext
<1>4. CASE /\ ~nRST'["R"]
           /\ \/ Open("R")' = Open("R")
              \/ Open("R") # <<>> /\ Open("R")' = Tail(Open("R"))
  <2>1. ReadPort!Reset
    BY <1>4 DEF ReadPort!Reset
  <2> QED  BY <1>4, <2>1 DEF ReadPort!PortNext
<1>5. CASE Open("R")' = Open("R") /\ nRST'["R"] = nRST["R"]
  BY <1>5
<1> QED  BY <1>3, <1>4, <1>5 DEF PortStep

LEMMA PortInitOK ==
  ASSUME MaxiAssumption, Init
  PROVE  /\ RingOK
         /\ \A d \in Dirs : Open(d) = <<>> /\ nRST[d] = TRUE
<1>1. QueueSize \in Nat \ {0} /\ 0 % QueueSize = 0
  BY DEF MaxiAssumption
<1>2. ASSUME NEW d \in Dirs
      PROVE  /\ queue[d].m_dwHead = 0 /\ queue[d].m_dwTail = 0
             /\ queue[d].m_dwRestCount = QueueSize /\ ~pDesc[d] /\ ~BVALID /\ nRST[d] = TRUE
  BY DEF Init
<1>3. ASSUME NEW d \in Dirs  PROVE Count(queue[d]) = 0
  <2>1. QueueSize - QueueSize = 0
    BY DEF MaxiAssumption
  <2> QED  BY <1>2, <2>1, Zenon DEF Count
<1>4. ASSUME NEW d \in Dirs  PROVE Ring(queue[d])
  <2>1. 0 + 0 = 0
    OBVIOUS
  <2> QED  BY <1>1, <1>2, <1>3, <2>1, Zenon DEF Ring
<1>5. ASSUME NEW d \in Dirs  PROVE Open(d) = <<>>
  <2>1. Serv(d, pDesc[d], queue[d].m_Pop, BVALID, RVALID) = <<>>
    BY <1>2 DEF Serv
  <2>2. Wait(queue[d]) = <<>>
    BY <1>3 DEF Wait
  <2> QED  BY <2>1, <2>2, OpenIs
<1> QED  BY <1>2, <1>4, <1>5 DEF RingOK

(* The bursts are served in order, each beat once, in both directions       *)
(* (AxiPort), for any bursts, any lengths and any size of the queue.        *)
THEOREM ImplementsPort == Spec => PortSpec
<1>1. Init => IInv /\ RingOK
  BY MaxiAssumption, InitInv, PortInitOK
<1>2. IInv /\ RingOK /\ [Next]_vars => (IInv /\ RingOK)'
  BY MaxiAssumption, StepInv, PortNextStep
<1>3. Init => WritePort!PortInit /\ ReadPort!PortInit
  BY MaxiAssumption, PortInitOK DEF WritePort!PortInit, ReadPort!PortInit, Dirs
<1>4. IInv /\ RingOK /\ [Next]_vars =>
        /\ [WritePort!PortNext]_<<Open("W"), nRST["W"]>>
        /\ [ReadPort!PortNext]_<<Open("R"), nRST["R"]>>
  <2> SUFFICES ASSUME IInv, RingOK, [Next]_vars
               PROVE  /\ [WritePort!PortNext]_<<Open("W"), nRST["W"]>>
                      /\ [ReadPort!PortNext]_<<Open("R"), nRST["R"]>>
    OBVIOUS
  <2>1. PortStep("W") /\ PortStep("R")
    BY MaxiAssumption, PortNextStep DEF Dirs
  <2> QED  BY <2>1, PortOfWrites, PortOfReads
<1> QED  BY <1>1, <1>2, <1>3, <1>4, PTL DEF Spec, PortSpec, WritePort!PortSpec, ReadPort!PortSpec
===============================================================================
