------------------------------ MODULE MemoryMap ------------------------------
(***************************************************************************)
(* What the physical heap of SystemHAL promises: the memory in use is a    *)
(* set of disjoint areas, each call adds one area or takes one away, and   *)
(* no call moves, grows or shrinks an area of somebody else.  MemoryHeap   *)
(* implements it.                                                          *)
(***************************************************************************)
EXTENDS Integers

CONSTANTS Base, Size,   \* the memory: Size bytes from Base
          Requests,     \* [size, align, at]
          NoAddress     \* the value of at that leaves the address to the heap

VARIABLE taken          \* the areas in use, as [phys, size, refs, inac]

Inside(a) == a.phys >= Base /\ a.phys + a.size <= Base + Size
Apart(a, b) == a.phys + a.size <= b.phys \/ b.phys + b.size <= a.phys

(* An area for request q: where q asks for it, or aligned, and not smaller  *)
(* than q asks, by less than the alignment larger.                          *)
Serves(a, q) ==
  /\ IF q.at = NoAddress THEN a.phys % q.align = 0 ELSE a.phys = q.at
  /\ q.size <= a.size /\ a.size < q.size + q.align
  /\ a.refs = 1

MapInit == taken = {}

Grow(a) ==
  /\ Inside(a)
  /\ \A b \in taken : Apart(a, b)
  /\ taken' = taken \cup {a}

(* The memory is initialised anew, with the areas of nobody.                *)
Clear == taken' = {}

Count(a, refs) ==
  taken' = (taken \ {a}) \cup (IF refs = 0 THEN {} ELSE {[a EXCEPT !.refs = refs]})

MapNext ==
  \/ \E a \in taken' : Grow(a) /\ \E q \in Requests : Serves(a, q)
  \/ Clear
  \/ \E a \in taken : ~a.inac /\ (Count(a, a.refs + 1) \/ Count(a, a.refs - 1))

MapSpec == MapInit /\ [][MapNext]_taken
===============================================================================
