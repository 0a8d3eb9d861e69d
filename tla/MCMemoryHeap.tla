---------------------------- MODULE MCMemoryHeap ------------------------------
(* MemoryHeap on nine bytes: requests that leave gaps, one larger than the *)
(* memory, and fixed addresses at the start and inside of free blocks.     *)
EXTENDS MemoryHeap

MinusOne == -1
Req(s, a, p) == [size |-> s, align |-> a, at |-> p]

SmallRequests ==
  {Req(2, 1, NoAddress), Req(3, 4, NoAddress), Req(14, 4, NoAddress),
   Req(2, 1, 4), Req(3, 2, 6), Req(4, 4, 8)}
SmallAreas == {Req(2, 1, 4), Req(3, 1, 9)}
AllRequests == SmallRequests \cup SmallAreas
===============================================================================
