------------------------------- MODULE FiFoAsync -------------------------------
(***************************************************************************)
(* FiFo_Async of the HDL library: the FIFO that carries bus requests from  *)
(* one clock domain to another.  Each side counts its own items in binary, *)
(* publishes the count in Gray code, and compares its count with the other *)
(* side's as it was two edges ago.  A step is an edge of one clock, an     *)
(* edge of both at the same instant, or a change of the reset.             *)
(***************************************************************************)
EXTENDS Naturals

CONSTANTS FIFO_DEPTH,   \* the FIFO has 2^FIFO_DEPTH slots
          DATA,         \* what W_DATA may be
          NoData        \* nothing has been read yet

ASSUME DepthAssumption == FIFO_DEPTH \in Nat /\ FIFO_DEPTH >= 2
ASSUME DataAssumption == DATA # {} /\ NoData \notin DATA

VARIABLES full_status,  \* the writer's FiFo_Async_Status: bin, PTR and STATUS
          empty_status, \* the reader's
          sync_r2w,     \* the reader's pointer on its way to the writer
          sync_w2r,     \* the writer's pointer on its way to the reader
          mem,          \* the slots
          W_nRST,       \* the writer is out of reset
          R_nRST,       \* the reader is out of reset
          taken         \* R_DATA when an item was last read

writeSide == <<full_status, sync_r2w, W_nRST>>
readSide == <<empty_status, sync_w2r, R_nRST, taken>>
vars == <<writeSide, readSide, mem>>

-------------------------------------------------------------------------------
(* A counter has one bit more than an address: two counters with the same  *)
(* address and different top bits are a whole FIFO apart.                  *)

Depth == 2^FIFO_DEPTH
Turn == 2^(FIFO_DEPTH + 1)
Counts == 0..(Turn - 1)
Slots == 0..(Depth - 1)
Wires == 0..FIFO_DEPTH
Codes == [Wires -> {0, 1}]

Bit(n, i) == (n \div 2^i) % 2

(* Mutant: the wires carry the binary count. *)
BinaryWires == [bin \in Counts |-> [i \in Wires |-> Bit(bin, i)]]

Gray ==
  [bin \in Counts |->
    [i \in Wires |-> IF i = FIFO_DEPTH THEN Bit(bin, i)
                                       ELSE (Bit(bin, i) + Bit(bin, i + 1)) % 2]]

(* Mutant: only the top wire is inverted. *)
OppositeTop(ptr) == [i \in Wires |-> IF i < FIFO_DEPTH THEN ptr[i] ELSE 1 - ptr[i]]

(* Mutant: the writer compares as the reader does. *)
OppositeNone(ptr) == ptr

(* The PTR_CMP of the writer: the top two wires are inverted.              *)
Opposite(ptr) == [i \in Wires |-> IF i + 1 < FIFO_DEPTH THEN ptr[i] ELSE 1 - ptr[i]]

-------------------------------------------------------------------------------
(* FiFo_Async_Status: STATUS is computed from the pointer that this edge   *)
(* brings, so that it is right at once about the own side.                 *)

Status(default) == [bin |-> 0, PTR |-> Gray[0], STATUS |-> default]

Advanced(s, en) == en /\ ~s.STATUS

BinNext(s, en) == (s.bin + (IF Advanced(s, en) THEN 1 ELSE 0)) % Turn

(* Mutant: STATUS is computed from the pointer before this edge. *)
StatusOfOld(s, en, ptr_cmp) ==
  [bin |-> BinNext(s, en),
   PTR |-> Gray[BinNext(s, en)],
   STATUS |-> Gray[s.bin] = ptr_cmp]

StatusNext(s, en, ptr_cmp) ==
  [bin |-> BinNext(s, en),
   PTR |-> Gray[BinNext(s, en)],
   STATUS |-> Gray[BinNext(s, en)] = ptr_cmp]

(* Mutant: the second stage keeps what it has. *)
PipedOnce(pipe, din) == <<din, pipe[2]>>

(* SyncPipe: two stages, the second is DOUT.                               *)
Piped(pipe, din) == <<din, pipe[1]>>
DOUT(pipe) == pipe[2]

Addr(s) == s.bin % Depth
W_FULL == full_status.STATUS
R_EMPTY == empty_status.STATUS
R_DATA == mem[Addr(empty_status)]

(* A bus caught while it changes: each wire is still old or already new.   *)
Caught(old, new) == {p \in Codes : \A i \in Wires : p[i] \in {old[i], new[i]}}

-------------------------------------------------------------------------------

Init ==
  /\ full_status = Status(FALSE) /\ empty_status = Status(TRUE)
  /\ sync_r2w = <<Gray[0], Gray[0]>> /\ sync_w2r = <<Gray[0], Gray[0]>>
  /\ mem \in [Slots -> DATA]
  /\ W_nRST = FALSE /\ R_nRST = FALSE
  /\ taken = NoData

(* Mutant: a full FIFO still writes its slot. *)
StoreAlways(en, d) ==
  mem' = IF en THEN [mem EXCEPT ![Addr(full_status)] = d] ELSE mem

(* The memory has no reset: it is written whenever W_FULL is low.          *)
Store(en, d) ==
  mem' = IF en /\ ~W_FULL THEN [mem EXCEPT ![Addr(full_status)] = d] ELSE mem

(* What an edge of W_CLK does, with the pointer that it samples.           *)
WClock(en, d, r_ptr) ==
  /\ W_nRST
  /\ full_status' = StatusNext(full_status, en, Opposite(DOUT(sync_r2w)))
  /\ sync_r2w' = Piped(sync_r2w, r_ptr)
  /\ Store(en, d)
  /\ UNCHANGED W_nRST

(* What an edge of R_CLK does.                                             *)
RClock(en, w_ptr) ==
  /\ R_nRST
  /\ empty_status' = StatusNext(empty_status, en, DOUT(sync_w2r))
  /\ sync_w2r' = Piped(sync_w2r, w_ptr)
  /\ taken' = IF Advanced(empty_status, en) THEN R_DATA ELSE taken
  /\ UNCHANGED R_nRST

WriteEdge ==
  /\ \E en \in BOOLEAN, d \in DATA : WClock(en, d, empty_status.PTR)
  /\ UNCHANGED readSide

ReadEdge ==
  /\ \E en \in BOOLEAN : RClock(en, full_status.PTR)
  /\ UNCHANGED <<writeSide, mem>>

(* Both clocks rise at once: each side samples a pointer that is changing. *)
BothEdges ==
  \E w_en, r_en \in BOOLEAN, d \in DATA :
    \E r_ptr \in Caught(empty_status.PTR, Gray[BinNext(empty_status, r_en)]),
       w_ptr \in Caught(full_status.PTR, Gray[BinNext(full_status, w_en)]) :
      WClock(w_en, d, r_ptr) /\ RClock(r_en, w_ptr)

(* An edge of W_CLK under reset: the counters are held, the memory is not. *)
HeldEdge ==
  /\ ~W_nRST
  /\ \E en \in BOOLEAN, d \in DATA : Store(en, d)
  /\ UNCHANGED <<writeSide, readSide>>

(* Whoever instantiates the FIFO resets both sides at the same time, at any *)
(* moment; each side leaves its reset when its own does.                    *)
Reset ==
  /\ full_status' = Status(FALSE) /\ empty_status' = Status(TRUE)
  /\ sync_r2w' = <<Gray[0], Gray[0]>> /\ sync_w2r' = <<Gray[0], Gray[0]>>
  /\ W_nRST' = FALSE /\ R_nRST' = FALSE
  /\ UNCHANGED <<mem, taken>>

ReleaseW ==
  /\ ~W_nRST /\ W_nRST' = TRUE
  /\ UNCHANGED <<full_status, sync_r2w, readSide, mem>>

ReleaseR ==
  /\ ~R_nRST /\ R_nRST' = TRUE
  /\ UNCHANGED <<empty_status, sync_w2r, taken, writeSide, mem>>

Next == \/ WriteEdge \/ ReadEdge \/ BothEdges
        \/ HeldEdge \/ Reset \/ ReleaseW \/ ReleaseR

Spec == Init /\ [][Next]_vars

(* The clocks run, and a reset ends.                                       *)
Fairness ==
  /\ WF_vars(WriteEdge \/ BothEdges) /\ WF_vars(ReadEdge \/ BothEdges)
  /\ WF_vars(ReleaseW) /\ WF_vars(ReleaseR)
FairSpec == Spec /\ Fairness

-------------------------------------------------------------------------------
(* How far the count y is ahead of x. *)
Ahead(x, y) == IF x <= y THEN y - x ELSE (y - x) + Turn

Stored == Ahead(empty_status.bin, full_status.bin)

TypeOK ==
  /\ full_status \in [bin : Counts, PTR : Codes, STATUS : BOOLEAN]
  /\ empty_status \in [bin : Counts, PTR : Codes, STATUS : BOOLEAN]
  /\ sync_r2w \in Codes \X Codes /\ sync_w2r \in Codes \X Codes
  /\ mem \in [Slots -> DATA]
  /\ W_nRST \in BOOLEAN /\ R_nRST \in BOOLEAN
  /\ taken \in DATA \cup {NoData}

(* A side under reset shows nothing of its past.                           *)
ResetOK ==
  /\ full_status.PTR = Gray[full_status.bin]
  /\ empty_status.PTR = Gray[empty_status.bin]
  /\ ~W_nRST => full_status = Status(FALSE) /\ sync_r2w = <<Gray[0], Gray[0]>>
  /\ ~R_nRST => empty_status = Status(TRUE) /\ sync_w2r = <<Gray[0], Gray[0]>>

(* The pointers around the ring: each side's picture of the other is old,  *)
(* so the writer sees too few free slots and the reader too few items.     *)
Ring(a, b, c, d) ==
  Ahead(b, a) + Ahead(a, empty_status.bin) + Ahead(empty_status.bin, d)
    + Ahead(d, c) + Ahead(c, full_status.bin)

PointersOK ==
  \E a, b \in Counts :
    /\ sync_r2w = <<Gray[a], Gray[b]>>
    /\ \E c, d \in Counts :
         /\ sync_w2r = <<Gray[c], Gray[d]>>
         /\ Ring(a, b, c, d) <= Depth
         /\ W_FULL \/ Ring(a, b, c, d) < Depth
         /\ R_EMPTY \/ d # empty_status.bin

(* The pointers of FiFo_Async and the copies in its SyncPipes, registers    *)
(* in two clock domains, are always in order around the ring.              *)
IInv == TypeOK /\ ResetOK /\ PointersOK

(* A write that is accepted never goes to the slot that is being read, for *)
(* the memory is read without a clock.                                     *)
SlotsApart == ~W_FULL /\ ~R_EMPTY => Addr(full_status) # Addr(empty_status)

(* What a side samples is a pointer that the other side has or is about to *)
(* have, although its wires may be caught one by one: in Gray code only    *)
(* one of them changes.                                                    *)
Whole ==
  /\ UNCHANGED sync_r2w \/ sync_r2w'[1] \in {empty_status.PTR, empty_status'.PTR}
  /\ UNCHANGED sync_w2r \/ sync_w2r'[1] \in {full_status.PTR, full_status'.PTR}
SamplesWhole == [][Whole]_vars

(* The items inside, the oldest first.                                     *)
Items == [k \in 1..Stored |-> mem[(empty_status.bin + k - 1) % Depth]]

Queue == INSTANCE BoundedQueue WITH queue <- Items, Capacity <- Depth
(* FiFo_Async is a queue of 2^FIFO_DEPTH items, whatever the two clocks do. *)
ImplementsQueue == Queue!QueueSpec

(* While there is an item inside, the reader of FiFo_Async gets to see that *)
(* there is; while there is room, the writer does.                          *)
SidesNotice ==
  /\ (Stored > 0) ~> (~R_EMPTY \/ Stored = 0)
  /\ (Stored < Depth) ~> (~W_FULL \/ Stored = Depth)
===============================================================================
