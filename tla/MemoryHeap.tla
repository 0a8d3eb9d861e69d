------------------------------ MODULE MemoryHeap ------------------------------
(***************************************************************************)
(* The physical memory of SystemHAL, cut into blocks:                      *)
(*   SystemHAL/src/MemoryHeap.cpp   CreateMemory, AddRef, Release,         *)
(*                                  Initialize, SetInaccessible            *)
(*   SystemHAL/src/CircularLink.h   the list of blocks, by address         *)
(* Every call runs under one semaphore, so each is one step.  A second     *)
(* list holds the free blocks, in the order they were linked; which free   *)
(* block a request is tried on first is left open here.  The assertions    *)
(* are compiled out, as in every build without USE_DEBUG (config.mk).      *)
(*                                                                         *)
(* Nobody uses a block after its last Release, and one thread at a time    *)
(* counts the references of a block: AddRef takes no semaphore.            *)
(***************************************************************************)
EXTENDS Integers, Sequences

CONSTANTS Base, Size,   \* physical memory
          Requests,     \* the arguments of CreateMemory: [size, align, at]
          Areas,        \* the arguments of SetInaccessible, as requests of align 1
          NoAddress,    \* (uint64_t)-1: no address is asked for
          MaxRefs,      \* bound on m_iRefCount, and on how far below 1 it falls
          Word          \* 2^64

(* Alignments are powers of two, and what no code ensures: that the request *)
(* and its padding, from the address asked for, do not wrap.                *)
ASSUME HeapAssumption ==
  /\ Base \in Nat /\ Size \in Nat \ {0}
  /\ Word \in Nat /\ Base + Size <= Word
  /\ MaxRefs \in Nat \ {0}
  /\ NoAddress \notin Nat
  /\ Areas \subseteq Requests
  /\ \A q \in Requests :
       /\ q.size \in Nat \ {0} /\ q.align \in Nat \ {0}
       /\ q.at \in Nat \cup {NoAddress}
       /\ q.size + q.align <= Word /\ Word % q.align = 0
       /\ q.at # NoAddress => q.at + q.size + q.align <= Word

VARIABLES heap,               \* HeapLink: the blocks, m_Link.Next() being the next one
          m_InaccessibleList  \* the areas that SetInaccessible said it took

vars == <<heap, m_InaccessibleList>>

-------------------------------------------------------------------------------
Block == [phys : Nat, size : Nat, free : BOOLEAN, refs : Int, inac : BOOLEAN]
FreeBlock(phys, size) ==
  [phys |-> phys, size |-> size, free |-> TRUE, refs |-> 1, inac |-> FALSE]

(* Mutant: a free block without bytes is not merged with.                   *)
PrevFreeBytes(h, i) == i > 1 /\ h[i - 1].free /\ h[i - 1].size > 0

PrevFree(h, i) == i > 1 /\ h[i - 1].free
Before(h, i) == SubSeq(h, 1, i - 1)
Behind(h, i) == SubSeq(h, i + 1, Len(h))
NextFree(h, i) == i < Len(h) /\ h[i + 1].free

Init == heap = <<>> /\ m_InaccessibleList = {}

(* ReleaseNoneThreadSafe of block i: its last reference makes it free, and  *)
(* one with the free block before and after it; a block of no bytes goes.   *)
ReleaseNoneThreadSafe(h, i) ==
  IF h[i].refs # 1
    THEN [h EXCEPT ![i].refs = @ - 1]
    ELSE LET size == h[i].size + IF NextFree(h, i) THEN h[i + 1].size ELSE 0
             merged == IF PrevFree(h, i) THEN <<[h[i - 1] EXCEPT !.size = @ + size]>>
                       ELSE IF size = 0 THEN <<>>
                       ELSE <<[phys |-> h[i].phys, size |-> size, free |-> TRUE,
                               refs |-> 0, inac |-> h[i].inac]>>
         IN  (IF PrevFree(h, i) THEN Before(h, i - 1) ELSE Before(h, i)) \o merged
               \o (IF NextFree(h, i) THEN Behind(h, i + 1) ELSE Behind(h, i))

(* Mutants: no padding; the padding of the worst case.                      *)
AllocSizeBare(b, q) == q.size
AllocSizeWorst(b, q) == q.size + q.align - 1

(* The size of the request with its padding, which aligns the start of a    *)
(* block cut from the end of b.  The subtraction wraps.                     *)
AllocSize(b, q) == q.size + (((b.phys + b.size - q.size) % Word) % q.align)

(* Where in b the new block is to begin.                                    *)
Place(b, q) == IF q.at = NoAddress THEN b.phys + b.size - AllocSize(b, q) ELSE q.at

Fits(b, q) ==
  /\ b.free /\ AllocSize(b, q) <= b.size
  /\ Place(b, q) >= b.phys
  /\ Place(b, q) + AllocSize(b, q) <= b.phys + b.size

(* Alloc on the free block i: what is left before the new block stays in    *)
(* it; what is left behind an address that was asked for goes to the next   *)
(* free block or becomes one.                                               *)
Alloc(h, i, q, inac) ==
  LET b == h[i]
      new == [phys |-> Place(b, q), size |-> AllocSize(b, q), free |-> FALSE,
              refs |-> 1, inac |-> inac]
      end == new.phys + new.size
      extra == b.phys + b.size - end
      tail == IF extra = 0 THEN Behind(h, i)
              ELSE IF NextFree(h, i)
                THEN <<[h[i + 1] EXCEPT !.phys = @ - extra, !.size = @ + extra]>>
                       \o Behind(h, i + 1)
                ELSE <<FreeBlock(end, extra)>> \o Behind(h, i)
      cut == Before(h, i)
               \o (<<[b EXCEPT !.size = new.phys - b.phys], new>> \o tail)
  IN  IF extra # 0 /\ new.phys = b.phys THEN ReleaseNoneThreadSafe(cut, i) ELSE cut

-------------------------------------------------------------------------------
(* Only for TLC: a free block whose count would fall below the bound is not *)
(* emptied again.                                                           *)
Bounded(b, q) == q.at # b.phys \/ b.refs > -MaxRefs

(* A request that fits nowhere, or for which the system has no memory to    *)
(* show, returns NULL and changes nothing: no step.                         *)
CreateMemory(q) ==
  \E i \in DOMAIN heap :
    /\ Fits(heap[i], q) /\ Bounded(heap[i], q)
    /\ heap' = Alloc(heap, i, q, FALSE)
    /\ UNCHANGED m_InaccessibleList

(* The system's memory object has no memory: the new block is released.     *)
CreateFails(q) ==
  \E i \in DOMAIN heap :
    /\ Fits(heap[i], q) /\ Bounded(heap[i], q)
    /\ LET h == Alloc(heap, i, q, FALSE)
       IN  \E j \in DOMAIN h :
             /\ ~h[j].free /\ h[j].phys = Place(heap[i], q)
             /\ heap' = ReleaseNoneThreadSafe(h, j)
    /\ UNCHANGED m_InaccessibleList

Used(b) == ~b.free /\ ~b.inac

AddRef(i) ==
  /\ Used(heap[i]) /\ heap[i].refs < MaxRefs
  /\ heap' = [heap EXCEPT ![i].refs = @ + 1]
  /\ UNCHANGED m_InaccessibleList

Release(i) ==
  /\ Used(heap[i])
  /\ heap' = ReleaseNoneThreadSafe(heap, i)
  /\ UNCHANGED m_InaccessibleList

(* Called as the driver starts, before anybody has memory.  An area that    *)
(* fits nowhere is put on the list as well: CreateMemory returns an object  *)
(* of no bytes, not NULL, while __bInaccessibleMemory is set.               *)
SetInaccessible(q) ==
  /\ heap # <<>> /\ \A i \in DOMAIN heap : ~Used(heap[i])
  /\ m_InaccessibleList' = m_InaccessibleList \cup {q}
  /\ \/ \E i \in DOMAIN heap :
          /\ Fits(heap[i], q) /\ Bounded(heap[i], q)
          /\ heap' = Alloc(heap, i, q, TRUE)
     \/ /\ \A i \in DOMAIN heap : ~Fits(heap[i], q)
        /\ UNCHANGED heap

(* MemoryImplementation::Release deletes every block, in use or not, and    *)
(* Initialize begins with it.                                               *)
ReleaseAll ==
  heap' = <<>> /\ m_InaccessibleList' = {}

Initialize ==
  heap' = <<FreeBlock(Base, Size)>> /\ m_InaccessibleList' = {}

Next ==
  \/ \E q \in Requests : CreateMemory(q) \/ CreateFails(q)
  \/ \E q \in Areas : SetInaccessible(q)
  \/ \E i \in DOMAIN heap : AddRef(i) \/ Release(i)
  \/ ReleaseAll
  \/ Initialize

Spec == Init /\ [][Next]_vars

-------------------------------------------------------------------------------
(* The blocks of h follow one another from lo to hi without gap or overlap. *)
Covers(h, lo, hi) ==
  /\ lo <= hi
  /\ Len(h) = 0 => lo = hi
  /\ Len(h) > 0 => h[1].phys = lo /\ h[Len(h)].phys + h[Len(h)].size = hi
  /\ \A i \in 1 .. Len(h) - 1 : h[i + 1].phys = h[i].phys + h[i].size
  /\ \A i, j \in 1 .. Len(h) : i < j => h[i].phys + h[i].size <= h[j].phys

(* The heap is a partition of the memory: its blocks cover it in order, no  *)
(* two neighbours are free (else a request that fits both together would be *)
(* refused), and a block in use has bytes and references.  Checks the       *)
(* splits of Alloc against the merges of ReleaseNoneThreadSafe.             *)
Sound(h) ==
  \A i \in 1 .. Len(h) :
    /\ NextFree(h, i) => ~h[i].free
    /\ ~h[i].free => h[i].size > 0 /\ h[i].refs > 0

Partition ==
  /\ heap \in Seq(Block)
  /\ heap # <<>> => Covers(heap, Base, Base + Size)
  /\ Sound(heap)

(* Whenever some aligned place of the memory is free for a request, some    *)
(* block fits it: padding from the end of a block, splitting and merging    *)
(* never hide free memory (Alloc's two guards).                             *)
FreeAt(p, n) ==
  /\ p >= Base /\ p + n <= Base + Size
  /\ \A i \in DOMAIN heap :
       ~heap[i].free => p + n <= heap[i].phys \/ heap[i].phys + heap[i].size <= p

GrantsWhatFits ==
  heap # <<>> =>
    \A q \in Requests :
      (\E p \in Base .. Base + Size :
         /\ p % q.align = 0 /\ (q.at # NoAddress => p = q.at)
         /\ FreeAt(p, q.size))
      => \E i \in DOMAIN heap : Fits(heap[i], q)

(* Every call does to the areas in use what MemoryMap says, and no more.    *)
Map == INSTANCE MemoryMap WITH
  taken <- {[phys |-> b.phys, size |-> b.size, refs |-> b.refs, inac |-> b.inac] :
              b \in {heap[i] : i \in {j \in DOMAIN heap : ~heap[j].free}}}
MapSpec == Map!MapSpec
===============================================================================
