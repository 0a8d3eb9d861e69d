--------------------------- MODULE MemoryHeapProofs ---------------------------
(***************************************************************************)
(* Proof that the heap is always a partition of the memory, for every size *)
(* of the memory and every set of requests.  A list of blocks that covers  *)
(* an interval can be cut at any block, and two lists that cover adjacent  *)
(* intervals can be joined; Alloc and ReleaseNoneThreadSafe only do both.  *)
(***************************************************************************)
EXTENDS MemoryHeap, WellFoundedInduction, TLAPS

Good(h, lo, hi) == h \in Seq(Block) /\ Covers(h, lo, hi) /\ Sound(h)

-------------------------------------------------------------------------------
(* Each block of a list that covers an interval lies within it.             *)
LEMMA CoversBounds ==
  ASSUME NEW h \in Seq(Block), NEW lo \in Nat, NEW hi \in Nat, Covers(h, lo, hi),
         NEW i \in 1 .. Len(h)
  PROVE  /\ h[i].phys \in Nat /\ h[i].size \in Nat
         /\ lo <= h[i].phys /\ h[i].phys + h[i].size <= hi
<1>1. \A k \in 1 .. Len(h) : h[k].phys \in Nat /\ h[k].size \in Nat
  <2>1. \A k \in 1 .. Len(h) : h[k] \in Block
    OBVIOUS
  <2> QED  BY <2>1 DEF Block
<1>2. 1 \in 1 .. Len(h) /\ Len(h) \in 1 .. Len(h)
  OBVIOUS
<1>3. lo <= h[i].phys
  <2>1. CASE i = 1
    BY <2>1, <1>1 DEF Covers
  <2>2. CASE i > 1
    <3>1. h[1].phys = lo /\ h[1].phys + h[1].size <= h[i].phys
      BY <1>2, <2>2 DEF Covers
    <3> QED  BY <1>1, <1>2, <3>1
  <2> QED  BY <2>1, <2>2
<1>4. h[i].phys + h[i].size <= hi
  <2>1. CASE i = Len(h)
    BY <2>1, <1>1 DEF Covers
  <2>2. CASE i < Len(h)
    <3>1. /\ h[Len(h)].phys + h[Len(h)].size = hi
          /\ h[i].phys + h[i].size <= h[Len(h)].phys
      BY <1>2, <2>2 DEF Covers
    <3>2. /\ h[i].phys \in Nat /\ h[i].size \in Nat
          /\ h[Len(h)].phys \in Nat /\ h[Len(h)].size \in Nat
      BY <1>1, <1>2
    <3>3. \A p, s, t, u \in Nat : p + s <= t /\ t + u = hi => p + s <= hi
      OBVIOUS
    <3> QED  BY <3>1, <3>2, <3>3, Zenon
  <2> QED  BY <2>1, <2>2
<1> QED  BY <1>1, <1>3, <1>4

(* Two lists that cover adjacent intervals cover both, joined.              *)
LEMMA CoversJoin ==
  ASSUME NEW a \in Seq(Block), NEW b \in Seq(Block),
         NEW lo \in Nat, NEW x \in Nat, NEW hi \in Nat,
         Covers(a, lo, x), Covers(b, x, hi)
  PROVE  a \o b \in Seq(Block) /\ Covers(a \o b, lo, hi)
<1> DEFINE c == a \o b
<1>1. c \in Seq(Block) /\ Len(c) = Len(a) + Len(b)
  OBVIOUS
<1>2. \A i \in 1 .. Len(c) : c[i] = IF i <= Len(a) THEN a[i] ELSE b[i - Len(a)]
  OBVIOUS
<1>3. \A i \in 1 .. Len(a) : a[i].phys + a[i].size <= x
  BY CoversBounds
<1>4. \A i \in 1 .. Len(b) : x <= b[i].phys
  BY CoversBounds
<1>5. \A i, j \in 1 .. Len(c) : i < j => c[i].phys + c[i].size <= c[j].phys
  <2> SUFFICES ASSUME NEW i \in 1 .. Len(c), NEW j \in 1 .. Len(c), i < j
               PROVE  c[i].phys + c[i].size <= c[j].phys
    OBVIOUS
  <2>0. /\ \A k \in 1 .. Len(a) : a[k].phys \in Nat /\ a[k].size \in Nat
        /\ \A k \in 1 .. Len(b) : b[k].phys \in Nat /\ b[k].size \in Nat
    BY CoversBounds
  <2>1. CASE j <= Len(a)
    BY <1>1, <1>2, <2>1 DEF Covers
  <2>2. CASE i > Len(a)
    <3>1. i - Len(a) \in 1 .. Len(b) /\ j - Len(a) \in 1 .. Len(b)
      BY <1>1, <2>2
    <3>2. c[i] = b[i - Len(a)] /\ c[j] = b[j - Len(a)]
      BY <1>2, <2>2
    <3>3. i - Len(a) < j - Len(a)
      BY <1>1
    <3> QED  BY <3>1, <3>2, <3>3 DEF Covers
  <2>3. CASE i <= Len(a) /\ j > Len(a)
    <3>1. i \in 1 .. Len(a) /\ j - Len(a) \in 1 .. Len(b)
      BY <1>1, <2>3
    <3>2. c[i] = a[i] /\ c[j] = b[j - Len(a)]
      BY <1>2, <2>3
    <3>3. a[i].phys + a[i].size <= x /\ x <= b[j - Len(a)].phys
      BY <1>3, <1>4, <3>1
    <3>4. /\ a[i].phys \in Nat /\ a[i].size \in Nat
          /\ b[j - Len(a)].phys \in Nat
      BY <2>0, <3>1
    <3>5. \A p, s, t \in Nat : p + s <= x /\ x <= t => p + s <= t
      OBVIOUS
    <3>6. a[i].phys + a[i].size <= b[j - Len(a)].phys
      BY <3>3, <3>4, <3>5, Zenon
    <3> QED
      <4> HIDE DEF c
      <4> QED  BY <3>2, <3>6, Zenon
  <2> QED  BY <1>1, <2>1, <2>2, <2>3
<1>6. \A i \in 1 .. Len(c) - 1 : c[i + 1].phys = c[i].phys + c[i].size
  <2> SUFFICES ASSUME NEW i \in 1 .. Len(c) - 1
               PROVE  c[i + 1].phys = c[i].phys + c[i].size
    OBVIOUS
  <2>1. CASE i < Len(a)
    BY <1>1, <1>2, <2>1 DEF Covers
  <2>2. CASE i = Len(a)
    BY <1>1, <1>2, <2>2 DEF Covers
  <2>3. CASE i > Len(a)
    <3>1. i - Len(a) \in 1 .. Len(b) - 1 /\ (i + 1) - Len(a) = (i - Len(a)) + 1
      BY <1>1, <2>3
    <3> QED  BY <1>1, <1>2, <2>3, <3>1 DEF Covers
  <2> QED  BY <1>1, <2>1, <2>2, <2>3
<1>7. /\ Len(c) = 0 => lo = hi
      /\ Len(c) > 0 => c[1].phys = lo /\ c[Len(c)].phys + c[Len(c)].size = hi
  <2>1. CASE Len(a) = 0
    BY <1>1, <1>2, <2>1 DEF Covers
  <2>2. CASE Len(b) = 0
    BY <1>1, <1>2, <2>2 DEF Covers
  <2>3. CASE Len(a) > 0 /\ Len(b) > 0
    BY <1>1, <1>2, <2>3 DEF Covers
  <2> QED  BY <2>1, <2>2, <2>3
<1>8. lo <= hi
  BY DEF Covers
<1>9. c \in Seq(Block) /\ Covers(c, lo, hi)
  BY <1>1, <1>5, <1>6, <1>7, <1>8 DEF Covers
<1> QED  BY <1>9 DEF c

(* The blocks before block i, and those behind it.                          *)
LEMMA CoversCut ==
  ASSUME NEW h \in Seq(Block), NEW lo \in Nat, NEW hi \in Nat, Covers(h, lo, hi),
         NEW i \in 1 .. Len(h)
  PROVE  /\ SubSeq(h, 1, i - 1) \in Seq(Block)
         /\ SubSeq(h, i + 1, Len(h)) \in Seq(Block)
         /\ h[i].phys \in Nat /\ h[i].size \in Nat
         /\ Covers(SubSeq(h, 1, i - 1), lo, h[i].phys)
         /\ Covers(SubSeq(h, i + 1, Len(h)), h[i].phys + h[i].size, hi)
<1> DEFINE a == SubSeq(h, 1, i - 1)
           b == SubSeq(h, i + 1, Len(h))
<1>0. \A k \in 1 .. Len(h) : h[k].phys \in Nat /\ h[k].size \in Nat
  BY CoversBounds
<1>1. a \in Seq(Block) /\ Len(a) = i - 1 /\ \A k \in 1 .. i - 1 : a[k] = h[k]
  OBVIOUS
<1>2. b \in Seq(Block) /\ Len(b) = Len(h) - i /\ \A k \in 1 .. Len(h) - i : b[k] = h[k + i]
  OBVIOUS
<1>3. Covers(a, lo, h[i].phys)
  <2> HIDE DEF a
  <2>1. lo <= h[i].phys
    BY CoversBounds
  <2>2. i > 1 => h[(i - 1) + 1].phys = h[i - 1].phys + h[i - 1].size
    BY DEF Covers
  <2>3. Len(a) > 0 => a[1].phys = lo /\ a[Len(a)].phys + a[Len(a)].size = h[i].phys
    BY <1>1, <2>2 DEF Covers
  <2>4. i = 1 => lo = h[i].phys
    BY DEF Covers
  <2>5. \A k \in 1 .. Len(a) - 1 : a[k + 1].phys = a[k].phys + a[k].size
    BY <1>1 DEF Covers
  <2>6. \A k, m \in 1 .. Len(a) : k < m => a[k].phys + a[k].size <= a[m].phys
    <3> SUFFICES ASSUME NEW k \in 1 .. Len(a), NEW m \in 1 .. Len(a), k < m
                 PROVE  a[k].phys + a[k].size <= a[m].phys
      OBVIOUS
    <3>1. k \in 1 .. Len(h) /\ m \in 1 .. Len(h) /\ a[k] = h[k] /\ a[m] = h[m]
      BY <1>1
    <3> QED  BY <3>1 DEF Covers
  <2>7. Len(a) = 0 => lo = h[i].phys
    BY <1>1, <2>4
  <2> QED  BY <2>1, <2>3, <2>5, <2>6, <2>7, Zenon DEF Covers
<1>4. Covers(b, h[i].phys + h[i].size, hi)
  <2> HIDE DEF b
  <2>1. h[i].phys + h[i].size <= hi
    BY CoversBounds
  <2>2. Len(b) > 0 => /\ b[1].phys = h[i].phys + h[i].size
                      /\ b[Len(b)].phys + b[Len(b)].size = hi
    <3> SUFFICES ASSUME Len(b) > 0
                 PROVE  /\ b[1].phys = h[i].phys + h[i].size
                        /\ b[Len(b)].phys + b[Len(b)].size = hi
      OBVIOUS
    <3>1. b[1] = h[1 + i] /\ b[Len(b)] = h[Len(b) + i]
      BY <1>2
    <3>2. Len(b) + i = Len(h) /\ 1 + i = i + 1 /\ i \in 1 .. Len(h) - 1 /\ Len(h) > 0
      BY <1>2
    <3> QED  BY <3>1, <3>2 DEF Covers
  <2>3. Len(b) = 0 => h[i].phys + h[i].size = hi
    BY <1>2 DEF Covers
  <2>4. \A k \in 1 .. Len(b) - 1 : b[k + 1].phys = b[k].phys + b[k].size
    <3> SUFFICES ASSUME NEW k \in 1 .. Len(b) - 1
                 PROVE  b[k + 1].phys = b[k].phys + b[k].size
      OBVIOUS
    <3>1. k + i \in 1 .. Len(h) - 1 /\ (k + 1) + i = (k + i) + 1
      BY <1>2
    <3>2. b[k] = h[k + i] /\ b[k + 1] = h[(k + 1) + i]
      BY <1>2
    <3> QED  BY <3>1, <3>2 DEF Covers
  <2>5. \A k, m \in 1 .. Len(b) : k < m => b[k].phys + b[k].size <= b[m].phys
    <3> SUFFICES ASSUME NEW k \in 1 .. Len(b), NEW m \in 1 .. Len(b), k < m
                 PROVE  b[k].phys + b[k].size <= b[m].phys
      OBVIOUS
    <3>1. k + i \in 1 .. Len(h) /\ m + i \in 1 .. Len(h) /\ k + i < m + i
      BY <1>2
    <3>2. b[k] = h[k + i] /\ b[m] = h[m + i]
      BY <1>2
    <3> QED  BY <3>1, <3>2 DEF Covers
  <2> QED  BY <2>1, <2>2, <2>3, <2>4, <2>5 DEF Covers
<1> QED  BY <1>0, <1>1, <1>2, <1>3, <1>4

-------------------------------------------------------------------------------
(* Two lists may be joined unless that makes two free blocks neighbours.    *)
Meets(a, b) == Len(a) > 0 /\ Len(b) > 0 => ~(a[Len(a)].free /\ b[1].free)

LEMMA Join ==
  ASSUME NEW a, NEW b, NEW lo \in Nat, NEW x \in Nat, NEW hi \in Nat,
         Good(a, lo, x), Good(b, x, hi), Meets(a, b)
  PROVE  Good(a \o b, lo, hi)
<1> DEFINE c == a \o b
<1>0. a \in Seq(Block) /\ b \in Seq(Block) /\ Sound(a) /\ Sound(b)
  BY DEF Good
<1>1. c \in Seq(Block) /\ Len(c) = Len(a) + Len(b)
  BY <1>0
<1>2. \A i \in 1 .. Len(c) : c[i] = IF i <= Len(a) THEN a[i] ELSE b[i - Len(a)]
  BY <1>0
<1>3. c \in Seq(Block) /\ Covers(c, lo, hi)
  BY CoversJoin DEF Good
<1>4. Sound(c)
  <2> SUFFICES ASSUME NEW i \in 1 .. Len(c)
               PROVE  /\ NextFree(c, i) => ~c[i].free
                      /\ ~c[i].free => c[i].size > 0 /\ c[i].refs > 0
    BY DEF Sound
  <2>1. CASE i < Len(a)
    <3>1. i \in 1 .. Len(a) /\ c[i] = a[i] /\ c[i + 1] = a[i + 1]
      BY <1>0, <1>1, <1>2, <2>1
    <3> QED  BY <1>0, <2>1, <3>1 DEF Sound, NextFree
  <2>2. CASE i = Len(a)
    <3>1. i \in 1 .. Len(a) /\ c[i] = a[i]
      BY <1>0, <1>1, <1>2, <2>2
    <3>2. i < Len(c) => Len(b) > 0 /\ c[i + 1] = b[1]
      BY <1>0, <1>1, <1>2, <2>2
    <3> QED  BY <1>0, <2>2, <3>1, <3>2 DEF Sound, NextFree, Meets
  <2>3. CASE i > Len(a)
    <3> DEFINE k == i - Len(a)
    <3>1. k \in 1 .. Len(b) /\ c[i] = b[k]
      BY <1>0, <1>1, <1>2, <2>3
    <3>2. i < Len(c) => k < Len(b) /\ c[i + 1] = b[k + 1]
      BY <1>0, <1>1, <1>2, <2>3
    <3> QED  BY <1>0, <3>1, <3>2 DEF Sound, NextFree
  <2> QED  BY <1>0, <2>1, <2>2, <2>3
<1> QED  BY <1>3, <1>4 DEF Good

(* What is before and behind block i of a good list is good.                *)
LEMMA Cut ==
  ASSUME NEW h, NEW lo \in Nat, NEW hi \in Nat, Good(h, lo, hi),
         NEW i \in 1 .. Len(h)
  PROVE  /\ h[i] \in Block
         /\ Good(Before(h, i), lo, h[i].phys)
         /\ Len(Before(h, i)) = i - 1
         /\ Len(Before(h, i)) > 0 => Before(h, i)[Len(Before(h, i))] = h[i - 1]
         /\ Good(Behind(h, i), h[i].phys + h[i].size, hi)
         /\ Len(Behind(h, i)) = Len(h) - i
         /\ Len(Behind(h, i)) > 0 => Behind(h, i)[1] = h[i + 1]
<1> DEFINE a == Before(h, i)
           b == Behind(h, i)
<1>0. h \in Seq(Block) /\ Covers(h, lo, hi) /\ Sound(h) /\ h[i] \in Block
  BY DEF Good
<1>1. a \in Seq(Block) /\ Len(a) = i - 1 /\ \A k \in 1 .. i - 1 : a[k] = h[k]
  BY <1>0 DEF Before
<1>2. b \in Seq(Block) /\ Len(b) = Len(h) - i /\ \A k \in 1 .. Len(h) - i : b[k] = h[k + i]
  BY <1>0 DEF Behind
<1>3. Covers(a, lo, h[i].phys) /\ Covers(b, h[i].phys + h[i].size, hi)
  BY <1>0, CoversCut DEF Before, Behind
<1>4. Sound(a)
  <2> SUFFICES ASSUME NEW k \in 1 .. Len(a)
               PROVE  /\ NextFree(a, k) => ~a[k].free
                      /\ ~a[k].free => a[k].size > 0 /\ a[k].refs > 0
    BY DEF Sound
  <2>1. k \in 1 .. Len(h) /\ k < Len(h) /\ a[k] = h[k]
    BY <1>0, <1>1
  <2>2. k < Len(a) => a[k + 1] = h[k + 1]
    BY <1>0, <1>1
  <2> QED  BY <1>0, <2>1, <2>2 DEF Sound, NextFree
<1>5. Sound(b)
  <2> SUFFICES ASSUME NEW k \in 1 .. Len(b)
               PROVE  /\ NextFree(b, k) => ~b[k].free
                      /\ ~b[k].free => b[k].size > 0 /\ b[k].refs > 0
    BY DEF Sound
  <2>1. k + i \in 1 .. Len(h) /\ b[k] = h[k + i]
    BY <1>0, <1>2
  <2>2. k < Len(b) => k + i < Len(h) /\ b[k + 1] = h[(k + i) + 1]
    <3> SUFFICES ASSUME k < Len(b)  PROVE  k + i < Len(h) /\ b[k + 1] = h[(k + i) + 1]
      OBVIOUS
    <3>1. k + 1 \in 1 .. Len(h) - i /\ (k + 1) + i = (k + i) + 1 /\ k + i < Len(h)
      BY <1>0, <1>2
    <3>2. b[k + 1] = h[(k + 1) + i]
      BY <1>2, <3>1
    <3> QED  BY <3>1, <3>2
  <2> QED  BY <1>0, <2>1, <2>2 DEF Sound, NextFree
<1>6. (Len(a) > 0 => a[Len(a)] = h[i - 1]) /\ (Len(b) > 0 => b[1] = h[i + 1])
  BY <1>1, <1>2
<1> QED  BY <1>0, <1>1, <1>2, <1>3, <1>4, <1>5, <1>6 DEF Good

(* The records that AddRef, the merges and the splits write.                *)
LEMMA Recounted ==
  \A b \in Block : \A n \in Int :
    /\ [b EXCEPT !.refs = n] \in Block /\ [b EXCEPT !.refs = n].refs = n
    /\ [b EXCEPT !.refs = n].phys = b.phys /\ [b EXCEPT !.refs = n].size = b.size
    /\ [b EXCEPT !.refs = n].free = b.free
BY DEF Block

LEMMA Resized ==
  \A b \in Block : \A n \in Nat :
    /\ [b EXCEPT !.size = n] \in Block /\ [b EXCEPT !.size = n].size = n
    /\ [b EXCEPT !.size = n].phys = b.phys /\ [b EXCEPT !.size = n].free = b.free
BY DEF Block

(* One block is a good list.                                                *)
LEMMA One ==
  ASSUME NEW b \in Block, b.free \/ (b.size > 0 /\ b.refs > 0)
  PROVE  Good(<<b>>, b.phys, b.phys + b.size)
BY DEF Good, Covers, Sound, NextFree, Block

(* A free block and the block in use that follows it are a good list.       *)
LEMMA Two ==
  ASSUME NEW a \in Block, NEW b \in Block, a.free, ~b.free, b.size > 0, b.refs > 0,
         a.phys + a.size = b.phys
  PROVE  Good(<<a, b>>, a.phys, b.phys + b.size)
<1> DEFINE h == <<a, b>>
<1>1. h \in Seq(Block) /\ Len(h) = 2 /\ h[1] = a /\ h[2] = b
  OBVIOUS
<1>2. a.phys \in Nat /\ a.size \in Nat /\ b.phys \in Nat /\ b.size \in Nat
  BY DEF Block
<1> HIDE DEF h
<1>3. Covers(h, a.phys, b.phys + b.size)
  <2>1. \A i \in 1 .. Len(h) : i = 1 \/ i = 2
    BY <1>1
  <2> QED  BY <1>1, <1>2, <2>1 DEF Covers
<1>4. Sound(h)
  <2>1. \A i \in 1 .. Len(h) : i = 1 \/ i = 2
    BY <1>1
  <2> QED  BY <1>1, <2>1 DEF Sound, NextFree
<1>5. Good(h, a.phys, b.phys + b.size)
  BY <1>1, <1>3, <1>4 DEF Good
<1> QED  BY <1>5 DEF h

(* The areas in use of a list of blocks, as MemoryMap has them.             *)
Area(b) == [phys |-> b.phys, size |-> b.size, refs |-> b.refs, inac |-> b.inac]
TakenOf(h, S) == {Area(h[k]) : k \in {j \in S : ~h[j].free}}
Taken(h) == TakenOf(h, 1 .. Len(h))

LEMMA TakenJoin ==
  ASSUME NEW a \in Seq(Block), NEW b \in Seq(Block)
  PROVE  Taken(a \o b) = Taken(a) \cup Taken(b)
<1> DEFINE c == a \o b
<1>1. /\ Len(c) = Len(a) + Len(b) /\ Len(a) \in Nat /\ Len(b) \in Nat
      /\ \A i \in 1 .. Len(c) : c[i] = IF i <= Len(a) THEN a[i] ELSE b[i - Len(a)]
  OBVIOUS
<1> HIDE DEF c
<1>2. \A t \in Taken(c) : t \in Taken(a) \cup Taken(b)
  <2> SUFFICES ASSUME NEW k \in 1 .. Len(c), ~c[k].free
               PROVE  Area(c[k]) \in Taken(a) \cup Taken(b)
    BY DEF Taken, TakenOf
  <2>1. CASE k <= Len(a)
    BY <1>1, <2>1 DEF Taken, TakenOf
  <2>2. CASE k > Len(a)
    <3>1. k - Len(a) \in 1 .. Len(b) /\ c[k] = b[k - Len(a)]
      BY <1>1, <2>2
    <3> QED  BY <3>1 DEF Taken, TakenOf
  <2> QED  BY <1>1, <2>1, <2>2
<1>3. \A t \in Taken(a) : t \in Taken(c)
  <2> SUFFICES ASSUME NEW k \in 1 .. Len(a), ~a[k].free  PROVE  Area(a[k]) \in Taken(c)
    BY DEF Taken, TakenOf
  <2>1. k \in 1 .. Len(c)
    BY <1>1
  <2>2. c[k] = a[k]
    BY <1>1, <2>1
  <2> QED  BY <2>1, <2>2 DEF Taken, TakenOf
<1>4. \A t \in Taken(b) : t \in Taken(c)
  <2> SUFFICES ASSUME NEW k \in 1 .. Len(b), ~b[k].free  PROVE  Area(b[k]) \in Taken(c)
    BY DEF Taken, TakenOf
  <2>1. k + Len(a) \in 1 .. Len(c) /\ ~(k + Len(a) <= Len(a)) /\ (k + Len(a)) - Len(a) = k
    BY <1>1
  <2>2. c[k + Len(a)] = b[k]
    BY <1>1, <2>1
  <2> QED  BY <2>1, <2>2 DEF Taken, TakenOf
<1>5. Taken(c) = Taken(a) \cup Taken(b)
  BY <1>2, <1>3, <1>4
<1> QED  BY <1>5 DEF c

LEMMA TakenOne ==
  ASSUME NEW b
  PROVE  Taken(<<b>>) = IF b.free THEN {} ELSE {Area(b)}
<1>1. Len(<<b>>) = 1 /\ <<b>>[1] = b
  OBVIOUS
<1> QED  BY <1>1 DEF Taken, TakenOf

(* Each area lies in the interval that the list covers.                     *)
LEMMA TakenWithin ==
  ASSUME NEW h, NEW lo \in Nat, NEW hi \in Nat, Good(h, lo, hi), NEW t \in Taken(h)
  PROVE  /\ t.phys \in Nat /\ t.size \in Nat /\ t.size > 0 /\ t.refs > 0
         /\ lo <= t.phys /\ t.phys + t.size <= hi
<1>1. PICK k \in 1 .. Len(h) : ~h[k].free /\ t = Area(h[k])
  BY DEF Taken, TakenOf
<1>2. /\ t.phys = h[k].phys /\ t.size = h[k].size /\ t.refs = h[k].refs
      /\ h[k].size > 0 /\ h[k].refs > 0
  BY <1>1 DEF Area, Good, Sound
<1>3. /\ h[k].phys \in Nat /\ h[k].size \in Nat
      /\ lo <= h[k].phys /\ h[k].phys + h[k].size <= hi
  BY CoversBounds DEF Good
<1> QED  BY <1>2, <1>3

(* The areas of a list are those before block i, its own, those behind it.  *)
LEMMA TakenCut ==
  ASSUME NEW h \in Seq(Block), NEW i \in 1 .. Len(h)
  PROVE  /\ Taken(h) = (Taken(Before(h, i)) \cup Taken(Behind(h, i)))
                         \cup (IF h[i].free THEN {} ELSE {Area(h[i])})
         /\ Taken(Before(h, i)) = TakenOf(h, 1 .. i - 1)
         /\ Taken(Behind(h, i)) = TakenOf(h, i + 1 .. Len(h))
<1> DEFINE a == Before(h, i)
           b == Behind(h, i)
<1>1. Len(a) = i - 1 /\ \A k \in 1 .. i - 1 : a[k] = h[k]
  BY DEF Before
<1>2. Len(b) = Len(h) - i /\ \A k \in 1 .. Len(h) - i : b[k] = h[k + i]
  BY DEF Behind
<1> HIDE DEF a, b
<1>3. Taken(a) = TakenOf(h, 1 .. i - 1)
  BY <1>1 DEF Taken, TakenOf
<1>4. Taken(b) = TakenOf(h, i + 1 .. Len(h))
  <2>1. ASSUME NEW k \in 1 .. Len(b), ~b[k].free
        PROVE  Area(b[k]) \in TakenOf(h, i + 1 .. Len(h))
    <3>1. k + i \in i + 1 .. Len(h) /\ b[k] = h[k + i]
      BY <1>2
    <3> QED  BY <2>1, <3>1 DEF TakenOf
  <2>2. ASSUME NEW k \in i + 1 .. Len(h), ~h[k].free  PROVE  Area(h[k]) \in Taken(b)
    <3>1. k - i \in 1 .. Len(h) - i /\ (k - i) + i = k
      OBVIOUS
    <3>2. k - i \in 1 .. Len(b) /\ b[k - i] = h[k]
      BY <1>2, <3>1
    <3> QED  BY <2>2, <3>2 DEF Taken, TakenOf
  <2>3. \A t \in Taken(b) : t \in TakenOf(h, i + 1 .. Len(h))
    BY <2>1 DEF Taken, TakenOf
  <2>4. \A t \in TakenOf(h, i + 1 .. Len(h)) : t \in Taken(b)
    BY <2>2 DEF TakenOf
  <2> QED  BY <2>3, <2>4
<1>5. \A k : k \in 1 .. Len(h) <=> k \in 1 .. i - 1 \/ k = i \/ k \in i + 1 .. Len(h)
  OBVIOUS
<1>6. Taken(h) = (TakenOf(h, 1 .. i - 1) \cup TakenOf(h, i + 1 .. Len(h)))
                   \cup (IF h[i].free THEN {} ELSE {Area(h[i])})
  BY <1>5 DEF Taken, TakenOf
<1> QED  BY <1>3, <1>4, <1>6 DEF a, b

(* Block i of a good list, if it is in use, is no area of the others.       *)
LEMMA TakenOnce ==
  ASSUME NEW h, NEW lo \in Nat, NEW hi \in Nat, Good(h, lo, hi),
         NEW i \in 1 .. Len(h), ~h[i].free
  PROVE  /\ Area(h[i]) \in Taken(h)
         /\ Taken(Before(h, i)) \cup Taken(Behind(h, i)) = Taken(h) \ {Area(h[i])}
<1>1. /\ h \in Seq(Block) /\ h[i] \in Block /\ h[i].size > 0
      /\ Good(Before(h, i), lo, h[i].phys)
      /\ Good(Behind(h, i), h[i].phys + h[i].size, hi)
  BY Cut DEF Good, Sound
<1>2. h[i].phys \in Nat /\ h[i].size \in Nat
  BY <1>1 DEF Block
<1>3. Area(h[i]).phys = h[i].phys
  BY DEF Area
<1>4. \A t \in Taken(Before(h, i)) : t.phys + t.size <= h[i].phys
                                     /\ t.size > 0 /\ t.phys \in Nat /\ t.size \in Nat
  BY <1>1, <1>2, TakenWithin
<1>5. \A t \in Taken(Behind(h, i)) : h[i].phys + h[i].size <= t.phys /\ t.phys \in Nat
  <2>1. h[i].phys + h[i].size \in Nat
    BY <1>2
  <2> QED  BY <1>1, <2>1, TakenWithin
<1>6. Area(h[i]) \notin Taken(Before(h, i)) /\ Area(h[i]) \notin Taken(Behind(h, i))
  BY <1>1, <1>2, <1>3, <1>4, <1>5
<1> QED  BY <1>1, <1>6, TakenCut

(* Counting the references of a block keeps a good list good.               *)
LEMMA RecountKeeps ==
  ASSUME NEW h, NEW lo \in Nat, NEW hi \in Nat, Good(h, lo, hi),
         NEW i \in 1 .. Len(h), NEW n \in Int, h[i].free \/ n > 0
  PROVE  Good([h EXCEPT ![i].refs = n], lo, hi)
<1>h. /\ h \in Seq(Block) /\ Covers(h, lo, hi) /\ Sound(h)
      /\ \A k \in 1 .. Len(h) : h[k] \in Block
  BY DEF Good
<1> DEFINE r == [h EXCEPT ![i].refs = n]
<1>0. \A k \in 1 .. Len(h) : /\ h[k].phys \in Nat /\ h[k].size \in Nat
                             /\ h[k].free \in BOOLEAN /\ h[k].refs \in Int
  BY <1>h DEF Block
<1>a. [h[i] EXCEPT !.refs = n] \in Block
  BY <1>h, Recounted
<1>1. r \in Seq(Block) /\ Len(r) = Len(h)
  BY <1>h, <1>a
<1>b. \A k \in 1 .. Len(h) : r[k] = IF k = i THEN [h[i] EXCEPT !.refs = n] ELSE h[k]
  BY <1>h
<1>2. \A k \in 1 .. Len(h) : /\ r[k].phys = h[k].phys /\ r[k].size = h[k].size
                             /\ r[k].free = h[k].free
                             /\ r[k].refs = IF k = i THEN n ELSE h[k].refs
  <2> SUFFICES ASSUME NEW k \in 1 .. Len(h)
               PROVE  /\ r[k].phys = h[k].phys /\ r[k].size = h[k].size
                      /\ r[k].free = h[k].free
                      /\ r[k].refs = IF k = i THEN n ELSE h[k].refs
    OBVIOUS
  <2>1. CASE k # i
    BY <1>b, <2>1
  <2>2. CASE k = i
    <3>1. r[k] = [h[i] EXCEPT !.refs = n]
      BY <1>b, <2>2
    <3> HIDE DEF r
    <3> QED  BY <1>h, <2>2, <3>1 DEF Block
  <2> QED  BY <2>1, <2>2
<1>3. Covers(r, lo, hi)
  <2> HIDE DEF r
  <2>1. \A k \in 1 .. Len(r) - 1 : r[k + 1].phys = r[k].phys + r[k].size
    <3> SUFFICES ASSUME NEW k \in 1 .. Len(r) - 1
                 PROVE  r[k + 1].phys = r[k].phys + r[k].size
      OBVIOUS
    <3>1. k \in 1 .. Len(h) /\ k + 1 \in 1 .. Len(h) /\ k \in 1 .. Len(h) - 1
      BY <1>h, <1>1
    <3> QED  BY <1>h, <1>2, <3>1 DEF Covers
  <2>2. \A k, l \in 1 .. Len(r) : k < l => r[k].phys + r[k].size <= r[l].phys
    BY <1>h, <1>1, <1>2 DEF Covers
  <2>3. r[1].phys = lo /\ r[Len(r)].phys + r[Len(r)].size = hi
    <3>1. 1 \in 1 .. Len(h) /\ Len(h) \in 1 .. Len(h) /\ Len(h) > 0
      BY <1>h
    <3> QED  BY <1>h, <1>1, <1>2, <3>1 DEF Covers
  <2>4. Len(r) # 0 /\ lo <= hi
    BY <1>h, <1>1 DEF Covers
  <2> QED  BY <2>1, <2>2, <2>3, <2>4 DEF Covers
<1>4. Sound(r)
  <2> SUFFICES ASSUME NEW k \in 1 .. Len(r)
               PROVE  /\ NextFree(r, k) => ~r[k].free
                      /\ ~r[k].free => r[k].size > 0 /\ r[k].refs > 0
    BY DEF Sound
  <2>1. h[k].refs \in Int /\ h[i].refs \in Int
    BY <1>h, <1>1 DEF Block
  <2> HIDE DEF r
  <2> QED  BY <1>h, <1>1, <1>2, <2>1 DEF Sound, NextFree
<1> QED  BY <1>1, <1>3, <1>4 DEF Good

(* What it does to the areas in use.                                        *)
LEMMA TakenRecount ==
  ASSUME NEW h \in Seq(Block), NEW i \in 1 .. Len(h), NEW n \in Int
  PROVE  Taken([h EXCEPT ![i].refs = n]) =
           (Taken(Before(h, i)) \cup Taken(Behind(h, i)))
             \cup (IF h[i].free THEN {} ELSE {[Area(h[i]) EXCEPT !.refs = n]})
<1> DEFINE r == [h EXCEPT ![i].refs = n]
           x == [h[i] EXCEPT !.refs = n]
<1>0. h[i] \in Block
  OBVIOUS
<1>1. x \in Block /\ x.free = h[i].free /\ Area(x) = [Area(h[i]) EXCEPT !.refs = n]
  <2>1. \A b \in Block : LET c == [b EXCEPT !.refs = n]
                        IN  /\ c \in Block /\ c.free = b.free /\ c.refs = n
                            /\ c.phys = b.phys /\ c.size = b.size /\ c.inac = b.inac
    BY DEF Block
  <2>2. /\ x \in Block /\ x.free = h[i].free /\ x.refs = n
        /\ x.phys = h[i].phys /\ x.size = h[i].size /\ x.inac = h[i].inac
    BY <1>0, <2>1
  <2> HIDE DEF x
  <2>3. Area(x) = [phys |-> h[i].phys, size |-> h[i].size, refs |-> n, inac |-> h[i].inac]
    BY <2>2 DEF Area
  <2>4. [Area(h[i]) EXCEPT !.refs = n] =
          [phys |-> h[i].phys, size |-> h[i].size, refs |-> n, inac |-> h[i].inac]
    BY DEF Area
  <2> QED  BY <2>2, <2>3, <2>4
<1>2. /\ r \in Seq(Block) /\ Len(r) = Len(h)
      /\ \A k \in 1 .. Len(h) : r[k] = IF k = i THEN x ELSE h[k]
  BY <1>1
<1> HIDE DEF r, x
<1>3. Taken(r) = (TakenOf(r, 1 .. i - 1) \cup TakenOf(r, i + 1 .. Len(h)))
                   \cup (IF x.free THEN {} ELSE {Area(x)})
  <2>1. i \in 1 .. Len(r) /\ r[i] = x
    BY <1>2
  <2> QED  BY <1>2, <2>1, TakenCut
<1>4. /\ TakenOf(r, 1 .. i - 1) = TakenOf(h, 1 .. i - 1)
      /\ TakenOf(r, i + 1 .. Len(h)) = TakenOf(h, i + 1 .. Len(h))
  <2>1. /\ \A k \in 1 .. i - 1 : r[k] = h[k]
        /\ \A k \in i + 1 .. Len(h) : r[k] = h[k]
    BY <1>2
  <2> QED  BY <2>1 DEF TakenOf
<1>5. Taken(r) = (Taken(Before(h, i)) \cup Taken(Behind(h, i)))
                   \cup (IF x.free THEN {} ELSE {Area(x)})
  BY <1>3, <1>4, TakenCut
<1> QED  BY <1>1, <1>5 DEF r

(* Cut for every block at once.                                             *)
LEMMA CutBehind ==
  ASSUME NEW h, NEW lo \in Nat, NEW hi \in Nat, Good(h, lo, hi)
  PROVE  \A k \in 1 .. Len(h) :
           /\ Good(Behind(h, k), h[k].phys + h[k].size, hi)
           /\ Len(Behind(h, k)) = Len(h) - k
           /\ Len(Behind(h, k)) > 0 => Behind(h, k)[1] = h[k + 1]
<1> SUFFICES ASSUME NEW k \in 1 .. Len(h)
             PROVE  /\ Good(Behind(h, k), h[k].phys + h[k].size, hi)
                    /\ Len(Behind(h, k)) = Len(h) - k
                    /\ Len(Behind(h, k)) > 0 => Behind(h, k)[1] = h[k + 1]
  OBVIOUS
<1> QED  BY Cut

LEMMA CutBefore ==
  ASSUME NEW h, NEW lo \in Nat, NEW hi \in Nat, Good(h, lo, hi)
  PROVE  \A k \in 1 .. Len(h) :
           /\ Good(Before(h, k), lo, h[k].phys)
           /\ Len(Before(h, k)) = k - 1
           /\ Len(Before(h, k)) > 0 => Before(h, k)[Len(Before(h, k))] = h[k - 1]
<1> SUFFICES ASSUME NEW k \in 1 .. Len(h)
             PROVE  /\ Good(Before(h, k), lo, h[k].phys)
                    /\ Len(Before(h, k)) = k - 1
                    /\ Len(Before(h, k)) > 0 =>
                         Before(h, k)[Len(Before(h, k))] = h[k - 1]
  OBVIOUS
<1> QED  BY Cut

-------------------------------------------------------------------------------
(* ReleaseNoneThreadSafe keeps a good list good, on a block in use or on an *)
(* emptied one, and leaves the areas of all the other blocks as they are.   *)
LEMMA ReleaseKeeps ==
  ASSUME NEW h, NEW lo \in Nat, NEW hi \in Nat, Good(h, lo, hi),
         NEW i \in 1 .. Len(h), h[i].free => h[i].size = 0
  PROVE  /\ Good(ReleaseNoneThreadSafe(h, i), lo, hi)
         /\ Taken(ReleaseNoneThreadSafe(h, i)) =
              (Taken(Before(h, i)) \cup Taken(Behind(h, i)))
                \cup (IF h[i].free \/ h[i].refs = 1 THEN {}
                      ELSE {[Area(h[i]) EXCEPT !.refs = h[i].refs - 1]})
<1>0. /\ h \in Seq(Block) /\ Covers(h, lo, hi) /\ Sound(h)
      /\ \A k \in 1 .. Len(h) : h[k] \in Block
  BY DEF Good
<1>1. CASE h[i].refs # 1
  <2>1. h[i].refs \in Int
    BY <1>0 DEF Block
  <2>2. h[i].refs - 1 \in Int /\ (h[i].free \/ h[i].refs - 1 > 0)
    BY <1>0, <1>1, <2>1 DEF Sound
  <2>3. Good([h EXCEPT ![i].refs = h[i].refs - 1], lo, hi)
    BY <2>2, RecountKeeps
  <2>4. Taken([h EXCEPT ![i].refs = h[i].refs - 1]) =
          (Taken(Before(h, i)) \cup Taken(Behind(h, i)))
            \cup (IF h[i].free THEN {} ELSE {[Area(h[i]) EXCEPT !.refs = h[i].refs - 1]})
    BY <1>0, <2>2, TakenRecount
  <2>5. ReleaseNoneThreadSafe(h, i) = [h EXCEPT ![i].refs = h[i].refs - 1]
    BY <1>0, <1>1 DEF ReleaseNoneThreadSafe
  <2> QED  BY <1>1, <2>3, <2>4, <2>5
<1>2. CASE h[i].refs = 1
  <2> DEFINE gain == IF NextFree(h, i) THEN h[i + 1].size ELSE 0
             size == h[i].size + gain
             from == IF PrevFree(h, i) THEN h[i - 1].phys ELSE h[i].phys
             to == h[i].phys + size
             a == IF PrevFree(h, i) THEN Before(h, i - 1) ELSE Before(h, i)
             b == IF NextFree(h, i) THEN Behind(h, i + 1) ELSE Behind(h, i)
             m == IF PrevFree(h, i) THEN <<[h[i - 1] EXCEPT !.size = @ + size]>>
                  ELSE IF size = 0 THEN <<>>
                  ELSE <<[phys |-> h[i].phys, size |-> size, free |-> TRUE, refs |-> 0,
                           inac |-> h[i].inac]>>
  <2>1. /\ h[i].phys \in Nat /\ h[i].size \in Nat
        /\ PrevFree(h, i) => /\ h[i - 1] \in Block
                             /\ h[i].phys = h[i - 1].phys + h[i - 1].size
        /\ NextFree(h, i) => /\ h[i + 1] \in Block
                             /\ h[i + 1].phys = h[i].phys + h[i].size
    <3>1. h[i].phys \in Nat /\ h[i].size \in Nat
      BY <1>0 DEF Block
    <3>2. ASSUME PrevFree(h, i)
          PROVE  h[i - 1] \in Block /\ h[i].phys = h[i - 1].phys + h[i - 1].size
      <4>1. i - 1 \in 1 .. Len(h) - 1 /\ i - 1 \in 1 .. Len(h) /\ (i - 1) + 1 = i
        BY <1>0, <3>2 DEF PrevFree
      <4> QED  BY <1>0, <4>1 DEF Covers
    <3>3. ASSUME NextFree(h, i)
          PROVE  h[i + 1] \in Block /\ h[i + 1].phys = h[i].phys + h[i].size
      <4>1. i \in 1 .. Len(h) - 1 /\ i + 1 \in 1 .. Len(h)
        BY <1>0, <3>3 DEF NextFree
      <4> QED  BY <1>0, <4>1 DEF Covers
    <3> QED  BY <3>1, <3>2, <3>3
  <2>2. /\ size \in Nat /\ from \in Nat /\ to \in Nat /\ gain \in Nat
        /\ NextFree(h, i) => to = h[i + 1].phys + h[i + 1].size
        /\ ~NextFree(h, i) => to = h[i].phys + h[i].size
    <3>1. NextFree(h, i) => h[i + 1].size \in Nat
      BY <2>1 DEF Block
    <3>2. gain \in Nat
      BY <3>1
    <3>3. PrevFree(h, i) => h[i - 1].phys \in Nat
      BY <2>1 DEF Block
    <3>4. size \in Nat /\ from \in Nat /\ to \in Nat
      BY <2>1, <3>2, <3>3
    <3>5. NextFree(h, i) => to = h[i + 1].phys + h[i + 1].size
      <4>1. \A p, s, n \in Nat : p + (s + n) = (p + s) + n
        OBVIOUS
      <4>2. NextFree(h, i) => /\ to = h[i].phys + (h[i].size + h[i + 1].size)
                              /\ h[i + 1].phys = h[i].phys + h[i].size
        BY <2>1
      <4> HIDE DEF to, size, gain, from
      <4> SUFFICES ASSUME NextFree(h, i)  PROVE to = h[i + 1].phys + h[i + 1].size
        OBVIOUS
      <4>3. (h[i].phys + h[i].size) + h[i + 1].size = h[i].phys + (h[i].size + h[i + 1].size)
        BY <2>1, <3>1, <4>1
      <4> QED  BY <4>2, <4>3
    <3>6. ~NextFree(h, i) => to = h[i].phys + h[i].size
      BY <2>1
    <3> QED  BY <3>2, <3>4, <3>5, <3>6
  <2>3. Good(a, lo, from) /\ (Len(a) > 0 => ~a[Len(a)].free)
    <3>1. CASE PrevFree(h, i)
      <4>1. i - 1 \in 1 .. Len(h) /\ h[i - 1].free
        BY <3>1 DEF PrevFree
      <4>2. /\ Good(Before(h, i - 1), lo, h[i - 1].phys)
            /\ Len(Before(h, i - 1)) = (i - 1) - 1
            /\ Len(Before(h, i - 1)) > 0 =>
                 Before(h, i - 1)[Len(Before(h, i - 1))] = h[(i - 1) - 1]
        <5>1. PICK j \in 1 .. Len(h) : j = i - 1
          BY <4>1
        <5>2. /\ Good(Before(h, j), lo, h[j].phys)
              /\ Len(Before(h, j)) = j - 1
              /\ Len(Before(h, j)) > 0 => Before(h, j)[Len(Before(h, j))] = h[j - 1]
          BY CutBefore, Zenon
        <5> QED  BY <5>1, <5>2
      <4>3. (i - 1) - 1 > 0 => ~h[(i - 1) - 1].free
        <5>1. (i - 1) - 1 > 0 => /\ (i - 1) - 1 \in 1 .. Len(h)
                                 /\ ((i - 1) - 1) + 1 = i - 1 /\ (i - 1) - 1 < Len(h)
          BY <1>0
        <5> QED  BY <1>0, <4>1, <5>1 DEF Sound, NextFree
      <4> QED  BY <3>1, <4>2, <4>3
    <3>2. CASE ~PrevFree(h, i)
      <4>1. /\ Good(Before(h, i), lo, h[i].phys) /\ Len(Before(h, i)) = i - 1
            /\ Len(Before(h, i)) > 0 => Before(h, i)[Len(Before(h, i))] = h[i - 1]
        BY Cut
      <4> QED  BY <3>2, <4>1 DEF PrevFree
    <3> QED  BY <3>1, <3>2
  <2>4. Good(b, to, hi) /\ (Len(b) > 0 => ~b[1].free)
    <3>0. Len(h) \in Nat
      BY <1>0
    <3>1. CASE NextFree(h, i)
      <4>1. i + 1 \in 1 .. Len(h) /\ h[i + 1].free
        BY <3>0, <3>1 DEF NextFree
      <4>2. /\ Good(Behind(h, i + 1), h[i + 1].phys + h[i + 1].size, hi)
            /\ Len(Behind(h, i + 1)) = Len(h) - (i + 1)
            /\ Len(Behind(h, i + 1)) > 0 => Behind(h, i + 1)[1] = h[(i + 1) + 1]
        <5>1. PICK j \in 1 .. Len(h) : j = i + 1
          BY <4>1
        <5>2. /\ Good(Behind(h, j), h[j].phys + h[j].size, hi)
              /\ Len(Behind(h, j)) = Len(h) - j
              /\ Len(Behind(h, j)) > 0 => Behind(h, j)[1] = h[j + 1]
          BY CutBehind, Zenon
        <5> QED  BY <5>1, <5>2
      <4>3. i + 1 < Len(h) => ~h[(i + 1) + 1].free
        BY <1>0, <4>1 DEF Sound, NextFree
      <4>4. Good(Behind(h, i + 1), to, hi)
        BY <2>2, <3>1, <4>2
      <4>5. Len(Behind(h, i + 1)) > 0 => ~Behind(h, i + 1)[1].free
        BY <3>0, <4>2, <4>3
      <4> QED  BY <3>1, <4>4, <4>5
    <3>2. CASE ~NextFree(h, i)
      <4>1. /\ Good(Behind(h, i), h[i].phys + h[i].size, hi)
            /\ Len(Behind(h, i)) = Len(h) - i
            /\ Len(Behind(h, i)) > 0 => Behind(h, i)[1] = h[i + 1]
        BY Cut
      <4>2. Len(Behind(h, i)) > 0 => ~Behind(h, i)[1].free
        BY <3>0, <3>2, <4>1 DEF NextFree
      <4>3. Good(Behind(h, i), to, hi)
        BY <2>2, <3>2, <4>1
      <4> QED  BY <3>2, <4>2, <4>3
    <3> QED  BY <3>1, <3>2
  <2>5. Good(m, from, to)
    <3>1. CASE PrevFree(h, i)
      <4> DEFINE x == [h[i - 1] EXCEPT !.size = @ + size]
      <4>1. x \in Block /\ x.free /\ x.phys = from /\ x.phys + x.size = to
        <5> HIDE DEF size
        <5>1. h[i - 1] \in Block /\ h[i - 1].free /\ h[i].phys = h[i - 1].phys + h[i - 1].size
          BY <2>1, <3>1 DEF PrevFree
        <5>2. /\ x \in Block /\ x.free /\ x.phys = h[i - 1].phys
              /\ x.size = h[i - 1].size + size
          <6>1. h[i - 1].size + size \in Nat
            <7>1. h[i - 1].size \in Nat /\ size \in Nat
              BY <2>2, <5>1 DEF Block
            <7>2. \A m1, m2 \in Nat : m1 + m2 \in Nat
              OBVIOUS
            <7> QED  BY <7>1, <7>2, Zenon
          <6>2. \A n \in Nat :
                  LET c == [h[i - 1] EXCEPT !.size = n]
                  IN  c \in Block /\ c.size = n /\ c.phys = h[i - 1].phys
                        /\ c.free = h[i - 1].free
            BY <5>1, Resized
          <6> QED  BY <5>1, <6>1, <6>2
        <5>3. x.phys + x.size = h[i].phys + size
          <6>1. h[i - 1].phys \in Nat /\ h[i - 1].size \in Nat
            BY <5>1 DEF Block
          <6> HIDE DEF x
          <6>2. \A p, s, t \in Nat : p + (s + t) = (p + s) + t
            OBVIOUS
          <6> QED  BY <2>2, <5>1, <5>2, <6>1, <6>2
        <5> QED  BY <3>1, <5>2, <5>3
      <4> HIDE DEF x
      <4>2. Good(<<x>>, from, to)
        BY <4>1, One
      <4>3. m = <<x>>
        BY <3>1 DEF x
      <4> QED  BY <4>2, <4>3
    <3>2. CASE ~PrevFree(h, i) /\ size = 0
      <4>1. m = <<>> /\ from = to
        BY <2>1, <3>2
      <4>2. from \in Nat
        BY <2>2
      <4>3. Good(<<>>, from, from)
        <5> HIDE DEF from
        <5> QED  BY <4>2 DEF Good, Covers, Sound
      <4> QED  BY <4>1, <4>3
    <3>3. CASE ~PrevFree(h, i) /\ size # 0
      <4> DEFINE x == [phys |-> h[i].phys, size |-> size, free |-> TRUE, refs |-> 0,
                           inac |-> h[i].inac]
      <4>1. x \in Block /\ x.free /\ x.phys = from /\ x.phys + x.size = to
        <5> HIDE DEF size
        <5>1. h[i] \in Block
          BY <1>0
        <5>2. x \in Block /\ x.free /\ x.phys = h[i].phys /\ x.size = size
          BY <2>2, <5>1 DEF Block
        <5> QED  BY <3>3, <5>2
      <4> HIDE DEF x
      <4>2. Good(<<x>>, from, to)
        BY <4>1, One
      <4>3. m = <<x>>
        BY <3>3 DEF x
      <4> QED  BY <4>2, <4>3
    <3> QED  BY <3>1, <3>2, <3>3
  <2>6. ReleaseNoneThreadSafe(h, i) = (a \o m) \o b
    BY <1>2, Zenon DEF ReleaseNoneThreadSafe
  <2>a. Taken(a) = Taken(Before(h, i))
    <3>1. CASE PrevFree(h, i)
      <4>1. i - 1 \in 1 .. Len(h) /\ h[i - 1].free
        BY <3>1 DEF PrevFree
      <4>2. Taken(Before(h, i - 1)) = TakenOf(h, 1 .. (i - 1) - 1)
        <5>1. PICK j \in 1 .. Len(h) : j = i - 1
          BY <4>1
        <5> QED  BY <1>0, <5>1, TakenCut
      <4>3. TakenOf(h, 1 .. i - 1) = TakenOf(h, 1 .. (i - 1) - 1)
        <5>1. \A k : k \in 1 .. i - 1 <=> k \in 1 .. (i - 1) - 1 \/ k = i - 1
          BY <4>1
        <5> QED  BY <4>1, <5>1 DEF TakenOf
      <4> QED  BY <1>0, <3>1, <4>2, <4>3, TakenCut
    <3>2. CASE ~PrevFree(h, i)
      BY <3>2
    <3> QED  BY <3>1, <3>2
  <2>b. Taken(b) = Taken(Behind(h, i))
    <3>1. CASE NextFree(h, i)
      <4>1. i + 1 \in 1 .. Len(h) /\ h[i + 1].free
        BY <1>0, <3>1 DEF NextFree
      <4>2. Taken(Behind(h, i + 1)) = TakenOf(h, (i + 1) + 1 .. Len(h))
        <5>1. PICK j \in 1 .. Len(h) : j = i + 1
          BY <4>1
        <5> QED  BY <1>0, <5>1, TakenCut
      <4>3. TakenOf(h, i + 1 .. Len(h)) = TakenOf(h, (i + 1) + 1 .. Len(h))
        <5>1. \A k : k \in i + 1 .. Len(h) <=> k \in (i + 1) + 1 .. Len(h) \/ k = i + 1
          BY <4>1
        <5> QED  BY <4>1, <5>1 DEF TakenOf
      <4> QED  BY <1>0, <3>1, <4>2, <4>3, TakenCut
    <3>2. CASE ~NextFree(h, i)
      BY <3>2
    <3> QED  BY <3>1, <3>2
  <2>m. Taken(m) = {}
    <3>1. ASSUME NEW x, x.free  PROVE Taken(<<x>>) = {}
      BY <3>1, TakenOne
    <3>2. CASE PrevFree(h, i)
      <4> DEFINE x == [h[i - 1] EXCEPT !.size = @ + size]
      <4>1. h[i - 1] \in Block /\ h[i - 1].free
        BY <2>1, <3>2 DEF PrevFree
      <4>2. x.free
        BY <4>1 DEF Block
      <4>3. m = <<x>>
        BY <3>2
      <4> HIDE DEF x, m
      <4> QED  BY <3>1, <4>2, <4>3
    <3>3. CASE ~PrevFree(h, i) /\ size = 0
      <4>1. m = <<>>
        BY <3>3
      <4> HIDE DEF m
      <4> QED  BY <4>1 DEF Taken, TakenOf
    <3>4. CASE ~PrevFree(h, i) /\ size # 0
      <4> DEFINE x == [phys |-> h[i].phys, size |-> size, free |-> TRUE, refs |-> 0,
                           inac |-> h[i].inac]
      <4>1. m = <<x>> /\ x.free
        BY <3>4
      <4> HIDE DEF x, m
      <4> QED  BY <3>1, <4>1
    <3> QED  BY <3>2, <3>3, <3>4
  <2> HIDE DEF a, b, m, from, to, size, gain
  <2>7. Good(a \o m, lo, to)
    BY <2>2, <2>3, <2>5, Join DEF Meets
  <2>8. Good((a \o m) \o b, lo, hi)
    BY <2>2, <2>4, <2>7, Join DEF Meets
  <2>9. a \in Seq(Block) /\ m \in Seq(Block) /\ b \in Seq(Block) /\ a \o m \in Seq(Block)
    BY <2>3, <2>4, <2>5, <2>7 DEF Good
  <2>10. Taken((a \o m) \o b) = (Taken(a) \cup Taken(m)) \cup Taken(b)
    BY <2>9, TakenJoin
  <2> QED  BY <1>2, <2>6, <2>8, <2>10, <2>a, <2>b, <2>m
<1> QED  BY <1>1, <1>2

-------------------------------------------------------------------------------
LEMMA AllocSizeType ==
  ASSUME HeapAssumption, NEW b \in Block, NEW q \in Requests
  PROVE  AllocSize(b, q) \in Nat /\ AllocSize(b, q) > 0
<1>1. q.size \in Nat \ {0} /\ q.align \in Nat \ {0} /\ Word \in Nat \ {0}
  <2>1. q.size \in Nat \ {0} /\ q.align \in Nat \ {0} /\ Word \in Nat /\ q.size + q.align <= Word
    BY DEF HeapAssumption
  <2> QED  BY <2>1
<1>2. b.phys + b.size - q.size \in Int
  BY <1>1 DEF Block
<1>3. \A x \in Int : \A n \in Nat \ {0} : x % n \in Nat
  OBVIOUS
<1>4. ((b.phys + b.size - q.size) % Word) % q.align \in Nat
  BY <1>1, <1>2, <1>3
<1> QED  BY <1>1, <1>4 DEF AllocSize

(* The area that a request is given in block b.                             *)
NewArea(b, q, inac) ==
  [phys |-> Place(b, q), size |-> AllocSize(b, q), refs |-> 1, inac |-> inac]

(* Alloc keeps a good list good, whatever request fits, and adds its area.  *)
LEMMA AllocKeeps ==
  ASSUME HeapAssumption, NEW h, NEW lo \in Nat, NEW hi \in Nat, Good(h, lo, hi),
         NEW i \in 1 .. Len(h), NEW q \in Requests, Fits(h[i], q),
         NEW inac \in BOOLEAN
  PROVE  /\ Good(Alloc(h, i, q, inac), lo, hi)
         /\ Taken(Alloc(h, i, q, inac)) = Taken(h) \cup {NewArea(h[i], q, inac)}
<1> DEFINE b == h[i]
           new == [phys |-> Place(b, q), size |-> AllocSize(b, q), free |-> FALSE,
                   refs |-> 1, inac |-> inac]
           end == new.phys + new.size
           extra == b.phys + b.size - end
           tail == IF extra = 0 THEN Behind(h, i)
                   ELSE IF NextFree(h, i)
                     THEN <<[h[i + 1] EXCEPT !.phys = @ - extra, !.size = @ + extra]>>
                            \o Behind(h, i + 1)
                     ELSE <<FreeBlock(end, extra)>> \o Behind(h, i)
           head == [b EXCEPT !.size = new.phys - b.phys]
           cut == Before(h, i) \o (<<head, new>> \o tail)
<1>1. /\ h \in Seq(Block) /\ Sound(h) /\ b \in Block /\ b.free
      /\ b.phys \in Nat /\ b.size \in Nat /\ Len(h) \in Nat
  <2>1. h \in Seq(Block) /\ Sound(h) /\ b.free
    BY DEF Good, Fits
  <2>2. b \in Block /\ Len(h) \in Nat
    BY <2>1
  <2>3. b.phys \in Nat /\ b.size \in Nat
    BY <2>2 DEF Block
  <2> QED  BY <2>1, <2>2, <2>3
<1>2. /\ Place(b, q) \in Nat /\ AllocSize(b, q) \in Nat /\ AllocSize(b, q) > 0
      /\ b.phys <= Place(b, q) /\ Place(b, q) + AllocSize(b, q) <= b.phys + b.size
  <2>1. AllocSize(b, q) \in Nat /\ AllocSize(b, q) > 0
    BY <1>1, AllocSizeType
  <2>2. Place(b, q) \in Int
    <3>1. q.at \in Nat \cup {NoAddress}
      BY DEF HeapAssumption
    <3> QED  BY <1>1, <2>1, <3>1 DEF Place
  <2>3. b.phys <= Place(b, q) /\ Place(b, q) + AllocSize(b, q) <= b.phys + b.size
    BY DEF Fits
  <2> QED  BY <1>1, <2>1, <2>2, <2>3
<1>3. /\ new \in Block /\ ~new.free /\ new.size > 0 /\ new.refs = 1
      /\ new.phys \in Nat /\ new.phys = Place(b, q) /\ new.size = AllocSize(b, q)
  <2>1. \A p, s \in Nat : [phys |-> p, size |-> s, free |-> FALSE, refs |-> 1,
                            inac |-> inac] \in Block
    BY DEF Block
  <2>2. new \in Block
    BY <1>2, <2>1
  <2> QED  BY <1>2, <2>2
<1>4. /\ end \in Nat /\ extra \in Nat /\ end + extra = b.phys + b.size
      /\ new.phys - b.phys \in Nat
  <2>1. \A p, s, o, n \in Nat : p <= o /\ o + n <= p + s =>
          /\ o + n \in Nat /\ p + s - (o + n) \in Nat
          /\ (o + n) + (p + s - (o + n)) = p + s /\ o - p \in Nat
    OBVIOUS
  <2>2. new.phys \in Nat /\ new.size \in Nat /\ b.phys <= new.phys
        /\ new.phys + new.size <= b.phys + b.size
    BY <1>2
  <2>3. end = new.phys + new.size /\ extra = b.phys + b.size - (new.phys + new.size)
    OBVIOUS
  <2> HIDE DEF new, end, extra
  <2> HIDE DEF b
  <2>4. /\ new.phys + new.size \in Nat /\ b.phys + b.size - (new.phys + new.size) \in Nat
        /\ (new.phys + new.size) + (b.phys + b.size - (new.phys + new.size))
             = b.phys + b.size
        /\ new.phys - b.phys \in Nat
    BY <1>1, <2>1, <2>2, Zenon
  <2> QED  BY <2>3, <2>4, Zenon
<1>5. /\ Good(Before(h, i), lo, b.phys)
      /\ Len(Before(h, i)) > 0 => ~Before(h, i)[Len(Before(h, i))].free
  <2>1. /\ Good(Before(h, i), lo, h[i].phys) /\ Len(Before(h, i)) = i - 1
        /\ Len(Before(h, i)) > 0 => Before(h, i)[Len(Before(h, i))] = h[i - 1]
    BY Cut
  <2>2. i - 1 > 0 => ~h[i - 1].free
    <3>1. i - 1 > 0 => i - 1 \in 1 .. Len(h) /\ (i - 1) + 1 = i /\ i - 1 < Len(h)
      BY <1>1
    <3> QED  BY <1>1, <3>1 DEF Sound, NextFree
  <2> QED  BY <2>1, <2>2
<1>6. ~NextFree(h, i)
  BY <1>1 DEF Sound
<1>7. /\ Good(Behind(h, i), b.phys + b.size, hi)
      /\ Len(Behind(h, i)) > 0 => ~Behind(h, i)[1].free
  <2>1. /\ Good(Behind(h, i), h[i].phys + h[i].size, hi) /\ Len(Behind(h, i)) = Len(h) - i
        /\ Len(Behind(h, i)) > 0 => Behind(h, i)[1] = h[i + 1]
    BY Cut
  <2> QED  BY <1>1, <1>6, <2>1 DEF NextFree
<1>8. Good(tail, end, hi)
  <2>1. CASE extra = 0
    <3>1. tail = Behind(h, i) /\ end = b.phys + b.size
      BY <1>4, <2>1
    <3> QED  BY <1>7, <3>1
  <2>2. CASE extra # 0
    <3> DEFINE x == FreeBlock(end, extra)
    <3> HIDE DEF end, extra
    <3>1. x \in Block /\ x.free /\ x.phys = end /\ x.phys + x.size = b.phys + b.size
      BY <1>4 DEF FreeBlock, Block
    <3> HIDE DEF x
    <3>2. Good(<<x>>, end, b.phys + b.size)
      BY <3>1, One
    <3>3. b.phys + b.size \in Nat
      BY <1>1
    <3>4. Meets(<<x>>, Behind(h, i))
      BY <1>7 DEF Meets
    <3>5. Good(<<x>> \o Behind(h, i), end, hi)
      BY <1>4, <1>7, <3>2, <3>3, <3>4, Join
    <3>6. tail = <<x>> \o Behind(h, i)
      BY <1>6, <2>2 DEF x, extra, end
    <3> QED  BY <3>5, <3>6
  <2> QED  BY <2>1, <2>2
<1>9. /\ head \in Block /\ head.free /\ head.phys = b.phys
      /\ head.size = new.phys - b.phys /\ head.phys + head.size = new.phys
  <2> HIDE DEF new
  <2>1. /\ head \in Block /\ head.free /\ head.phys = b.phys
        /\ head.size = new.phys - b.phys
    BY <1>1, <1>4, Resized
  <2> HIDE DEF head
  <2> QED  BY <1>1, <1>3, <2>1
<1>a. Area(new) = NewArea(b, q, inac)
  BY DEF Area, NewArea
<1>b. Taken(tail) = Taken(Behind(h, i))
  <2>1. CASE extra = 0
    <3>1. tail = Behind(h, i)
      BY <2>1
    <3> QED  BY <3>1
  <2>2. CASE extra # 0
    <3> DEFINE x == FreeBlock(end, extra)
    <3>1. tail = <<x>> \o Behind(h, i)
      BY <1>6, <2>2
    <3>2. x \in Block /\ x.free
      <4> HIDE DEF end, extra
      <4> QED  BY <1>4 DEF FreeBlock, Block
    <3>3. Behind(h, i) \in Seq(Block)
      BY <1>7 DEF Good
    <3> HIDE DEF x, tail, end, extra
    <3>4. <<x>> \in Seq(Block)
      BY <3>2
    <3>5. Taken(<<x>>) = {}
      BY <3>2, TakenOne
    <3>6. Taken(tail) = Taken(<<x>>) \cup Taken(Behind(h, i))
      BY <3>1, <3>3, <3>4, TakenJoin, Zenon
    <3> QED  BY <3>5, <3>6
  <2> QED  BY <2>1, <2>2
<1> HIDE DEF head, new, end, extra, tail
<1>10. Good(<<head, new>> \o tail, b.phys, hi)
  <2>1. Good(<<head, new>>, b.phys, end)
    BY <1>3, <1>9, Two DEF end
  <2>5. Meets(<<head, new>>, tail)
    BY <1>3 DEF Meets
  <2> QED  BY <1>1, <1>4, <1>8, <2>1, <2>5, Join
<1>11. /\ Good(cut, lo, hi) /\ i \in 1 .. Len(cut) /\ cut[i] = head
  <2>1. Good(cut, lo, hi)
    BY <1>1, <1>5, <1>10, Join DEF Meets
  <2>2. /\ Before(h, i) \in Seq(Block) /\ Len(Before(h, i)) = i - 1
        /\ tail \in Seq(Block)
    BY Cut, <1>8 DEF Good
  <2>3. <<head, new>> \o tail \in Seq(Block) /\ Len(<<head, new>> \o tail) = 2 + Len(tail)
        /\ (<<head, new>> \o tail)[1] = head
    BY <1>3, <1>9, <2>2
  <2>4. \A s, t \in Seq(Block) : Len(s) = i - 1 /\ Len(t) > 0 =>
          i \in 1 .. Len(s \o t) /\ (s \o t)[i] = t[1]
    OBVIOUS
  <2>5. Len(<<head, new>> \o tail) > 0
    BY <2>2, <2>3
  <2>6. i \in 1 .. Len(cut) /\ cut[i] = (<<head, new>> \o tail)[1]
    BY <2>2, <2>3, <2>4, <2>5
  <2> QED  BY <2>1, <2>3, <2>6
<1>12. Alloc(h, i, q, inac) =
         IF extra # 0 /\ new.phys = b.phys THEN ReleaseNoneThreadSafe(cut, i) ELSE cut
  BY Zenon DEF Alloc, head, new, end, extra, tail
<1>c. Taken(cut) = Taken(h) \cup {NewArea(b, q, inac)}
  <2>1. /\ Before(h, i) \in Seq(Block) /\ tail \in Seq(Block)
        /\ <<head, new>> \o tail \in Seq(Block)
    BY <1>5, <1>8, <1>10 DEF Good
  <2>2. /\ <<head>> \in Seq(Block) /\ <<new>> \in Seq(Block)
        /\ <<head, new>> \in Seq(Block) /\ <<head, new>> = <<head>> \o <<new>>
    BY <1>3, <1>9
  <2>3. Taken(<<head>>) = {} /\ Taken(<<new>>) = {NewArea(b, q, inac)}
    BY <1>3, <1>9, <1>a, TakenOne
  <2>4. Taken(<<head, new>>) = {NewArea(b, q, inac)}
    <3>1. Taken(<<head>> \o <<new>>) = Taken(<<head>>) \cup Taken(<<new>>)
      BY <2>2, TakenJoin, Zenon
    <3> QED  BY <2>2, <2>3, <3>1
  <2>5. Taken(<<head, new>> \o tail) = {NewArea(b, q, inac)} \cup Taken(Behind(h, i))
    <3>1. Taken(<<head, new>> \o tail) = Taken(<<head, new>>) \cup Taken(tail)
      BY <2>1, <2>2, TakenJoin
    <3> QED  BY <1>b, <2>4, <3>1
  <2>6. Taken(cut) = Taken(Before(h, i)) \cup ({NewArea(b, q, inac)} \cup Taken(Behind(h, i)))
    <3>1. Taken(cut) = Taken(Before(h, i)) \cup Taken(<<head, new>> \o tail)
      BY <2>1, TakenJoin, Zenon
    <3> QED  BY <2>5, <3>1
  <2>7. Taken(h) = Taken(Before(h, i)) \cup Taken(Behind(h, i))
    BY <1>1, TakenCut
  <2> QED  BY <2>6, <2>7
<1>13. new.phys = b.phys =>
         /\ Good(ReleaseNoneThreadSafe(cut, i), lo, hi)
         /\ Taken(ReleaseNoneThreadSafe(cut, i)) = Taken(cut)
  <2> HIDE DEF cut
  <2> SUFFICES ASSUME new.phys = b.phys
               PROVE  /\ Good(ReleaseNoneThreadSafe(cut, i), lo, hi)
                      /\ Taken(ReleaseNoneThreadSafe(cut, i)) = Taken(cut)
    OBVIOUS
  <2>1. cut[i].size = 0 /\ cut[i].free /\ cut \in Seq(Block)
    BY <1>1, <1>9, <1>11 DEF Good
  <2>2. /\ Good(ReleaseNoneThreadSafe(cut, i), lo, hi)
        /\ Taken(ReleaseNoneThreadSafe(cut, i)) =
             Taken(Before(cut, i)) \cup Taken(Behind(cut, i))
    BY <1>11, <2>1, ReleaseKeeps
  <2>3. Taken(cut) = Taken(Before(cut, i)) \cup Taken(Behind(cut, i))
    BY <1>11, <2>1, TakenCut
  <2> QED  BY <2>2, <2>3
<1> QED
  <2> HIDE DEF cut
  <2> QED  BY <1>11, <1>12, <1>13, <1>c

-------------------------------------------------------------------------------
LEMMA InitialGood ==
  ASSUME HeapAssumption
  PROVE  Good(<<FreeBlock(Base, Size)>>, Base, Base + Size)
<1>1. FreeBlock(Base, Size) \in Block /\ FreeBlock(Base, Size).free
  BY DEF HeapAssumption, FreeBlock, Block
<1> QED  BY <1>1, One DEF FreeBlock

(* The heap is a partition of the memory, after every call.                 *)
THEOREM PartitionHolds == Spec => []Partition
<1> USE DEF Partition
<1>a. HeapAssumption /\ Base \in Nat /\ Base + Size \in Nat
  BY HeapAssumption DEF HeapAssumption
<1>b. ASSUME NEW h, Good(h, Base, Base + Size)
      PROVE  /\ h \in Seq(Block)
             /\ h # <<>> => Covers(h, Base, Base + Size)
             /\ Sound(h)
  BY <1>b DEF Good
<1>1. Init => Partition
  BY DEF Init, Sound
<1>2. Partition /\ [Next]_vars => Partition'
  <2> SUFFICES ASSUME Partition, [Next]_vars  PROVE  Partition'
    OBVIOUS
  <2>0. ASSUME NEW i \in DOMAIN heap
        PROVE  i \in 1 .. Len(heap) /\ Good(heap, Base, Base + Size)
    BY DEF Good
  <2>1. ASSUME NEW q \in Requests, CreateMemory(q)  PROVE Partition'
    <3>1. PICK i \in DOMAIN heap : Fits(heap[i], q) /\ heap' = Alloc(heap, i, q, FALSE)
      BY <2>1 DEF CreateMemory
    <3>2. Good(heap', Base, Base + Size)
      BY <1>a, <2>0, <3>1, AllocKeeps
    <3> QED  BY <1>b, <3>2
  <2>2. ASSUME NEW q \in Requests, CreateFails(q)  PROVE Partition'
    <3>1. PICK i \in DOMAIN heap :
            /\ Fits(heap[i], q)
            /\ \E j \in DOMAIN Alloc(heap, i, q, FALSE) :
                 /\ ~Alloc(heap, i, q, FALSE)[j].free
                 /\ heap' = ReleaseNoneThreadSafe(Alloc(heap, i, q, FALSE), j)
      BY <2>2 DEF CreateFails
    <3> DEFINE h == Alloc(heap, i, q, FALSE)
    <3>2. Good(h, Base, Base + Size)
      BY <1>a, <2>0, <3>1, AllocKeeps
    <3> HIDE DEF h
    <3>3. PICK j \in DOMAIN h : ~h[j].free /\ heap' = ReleaseNoneThreadSafe(h, j)
      BY <3>1 DEF h
    <3>4. j \in 1 .. Len(h)
      BY <3>2 DEF Good
    <3>5. Good(heap', Base, Base + Size)
      BY <1>a, <3>2, <3>3, <3>4, ReleaseKeeps
    <3> QED  BY <1>b, <3>5
  <2>3. ASSUME NEW q \in Areas, SetInaccessible(q)  PROVE Partition'
    <3>1. CASE UNCHANGED heap
      BY <3>1 DEF Sound, NextFree, Covers
    <3>2. CASE \E i \in DOMAIN heap : Fits(heap[i], q) /\ heap' = Alloc(heap, i, q, TRUE)
      <4>1. PICK i \in DOMAIN heap : Fits(heap[i], q) /\ heap' = Alloc(heap, i, q, TRUE)
        BY <3>2
      <4>2. q \in Requests
        BY <1>a DEF HeapAssumption
      <4>3. Good(heap', Base, Base + Size)
        BY <1>a, <2>0, <4>1, <4>2, AllocKeeps
      <4> QED  BY <1>b, <4>3
    <3> QED  BY <2>3, <3>1, <3>2 DEF SetInaccessible
  <2>4. ASSUME NEW i \in DOMAIN heap, AddRef(i)  PROVE Partition'
    <3>1. heap[i] \in Block /\ i \in 1 .. Len(heap) /\ heap[i].refs > 0
      BY <2>4 DEF AddRef, Used, Sound
    <3>2. heap[i].refs + 1 \in Int /\ heap[i].refs + 1 > 0
      BY <3>1 DEF Block
    <3>3. Good([heap EXCEPT ![i].refs = heap[i].refs + 1], Base, Base + Size)
      BY <1>a, <2>0, <3>1, <3>2, RecountKeeps
    <3>4. heap' = [heap EXCEPT ![i].refs = heap[i].refs + 1]
      BY <2>4 DEF AddRef
    <3> QED  BY <1>b, <3>3, <3>4
  <2>5. ASSUME NEW i \in DOMAIN heap, Release(i)  PROVE Partition'
    <3>1. Good(heap', Base, Base + Size)
      BY <1>a, <2>0, <2>5, ReleaseKeeps DEF Release, Used
    <3> QED  BY <1>b, <3>1
  <2>6. CASE ReleaseAll
    BY <2>6 DEF ReleaseAll, Sound
  <2>7. CASE Initialize
    <3>1. Good(heap', Base, Base + Size)
      BY <1>a, <2>7, InitialGood DEF Initialize
    <3> QED  BY <1>b, <3>1
  <2>8. CASE UNCHANGED vars
    BY <2>8 DEF vars, Sound, NextFree, Covers
  <2> QED  BY <2>1, <2>2, <2>3, <2>4, <2>5, <2>6, <2>7, <2>8 DEF Next
<1> QED  BY <1>1, <1>2, PTL DEF Spec

-------------------------------------------------------------------------------
(* The new area is in the memory, apart from the others, and what was asked *)
(* for.                                                                     *)
LEMMA Aligned ==
  ASSUME NEW x \in Nat, NEW a \in Nat \ {0}
  PROVE  (x - (x % a)) % a = 0 /\ x % a \in 0 .. a - 1
<1>1. /\ x % a \in 0 .. a - 1 /\ x \div a \in Int
      /\ x = a * (x \div a) + (x % a)
  OBVIOUS
<1> DEFINE y == x - (x % a)
<1>2. y \in Int /\ y = a * (x \div a)
  BY <1>1
<1>3. /\ y % a \in 0 .. a - 1 /\ y \div a \in Int
      /\ y = a * (y \div a) + (y % a)
  <2> HIDE DEF y
  <2> QED  BY <1>2
<1>4. ASSUME NEW k \in Int, NEW l \in Int, NEW r \in 0 .. a - 1, a * k = a * l + r
      PROVE  r = 0
  <2>1. a * (k - l) = r
    BY <1>4
  <2>2. k - l <= 0
    <3> SUFFICES ASSUME k - l >= 1  PROVE FALSE
      OBVIOUS
    <3>1. a * (k - l) = a + a * ((k - l) - 1) /\ a * ((k - l) - 1) >= 0
      OBVIOUS
    <3> QED  BY <2>1, <3>1
  <2>3. k - l >= 0
    <3> SUFFICES ASSUME k - l <= -1  PROVE FALSE
      OBVIOUS
    <3>1. a * (l - k) >= 0 /\ a * (k - l) = -(a * (l - k)) /\ a * (l - k) >= a
      OBVIOUS
    <3> QED  BY <2>1, <3>1
  <2> QED  BY <2>1, <2>2, <2>3
<1>5. y % a = 0
  <2> HIDE DEF y
  <2> QED  BY <1>1, <1>2, <1>3, <1>4
<1> QED  BY <1>1, <1>5

LEMMA NewApart ==
  ASSUME HeapAssumption, NEW h, NEW lo \in Nat, NEW hi \in Nat, Good(h, lo, hi),
         NEW i \in 1 .. Len(h), NEW q \in Requests, Fits(h[i], q),
         NEW inac \in BOOLEAN, NEW a, a = NewArea(h[i], q, inac)
  PROVE  /\ a.phys \in Nat /\ a.size \in Nat /\ a.size > 0
         /\ lo <= a.phys /\ a.phys + a.size <= hi
         /\ \A b \in Taken(h) : a.phys + a.size <= b.phys \/ b.phys + b.size <= a.phys
<1> DEFINE b == h[i]
<1>1. /\ h \in Seq(Block) /\ b \in Block /\ b.free
      /\ Good(Before(h, i), lo, b.phys) /\ Good(Behind(h, i), b.phys + b.size, hi)
  BY Cut DEF Good, Fits
<1>2. b.phys \in Nat /\ b.size \in Nat /\ lo <= b.phys /\ b.phys + b.size <= hi
  BY CoversBounds DEF Good
<1>3. /\ a.phys = Place(b, q) /\ a.size = AllocSize(b, q)
      /\ AllocSize(b, q) \in Nat /\ AllocSize(b, q) > 0
  BY <1>1, AllocSizeType DEF NewArea
<1>4. Place(b, q) \in Int /\ b.phys <= Place(b, q)
      /\ Place(b, q) + AllocSize(b, q) <= b.phys + b.size
  <2>1. q.at \in Nat \cup {NoAddress}
    BY DEF HeapAssumption
  <2> QED  BY <1>2, <1>3, <2>1 DEF Place, Fits
<1>5. ASSUME NEW t \in Taken(h)
      PROVE  a.phys + a.size <= t.phys \/ t.phys + t.size <= a.phys
  <2>1. t \in Taken(Before(h, i)) \/ t \in Taken(Behind(h, i))
    BY <1>1, TakenCut
  <2>2. CASE t \in Taken(Before(h, i))
    <3>1. t.phys \in Nat /\ t.size \in Nat /\ t.phys + t.size <= b.phys
      BY <1>1, <1>2, <2>2, TakenWithin
    <3> QED  BY <1>2, <1>3, <1>4, <3>1
  <2>3. CASE t \in Taken(Behind(h, i))
    <3>0. b.phys + b.size \in Nat
      BY <1>2
    <3>1. t.phys \in Nat /\ b.phys + b.size <= t.phys
      BY <1>1, <2>3, <3>0, TakenWithin
    <3> QED  BY <1>2, <1>3, <1>4, <3>1
  <2> QED  BY <2>1, <2>2, <2>3
<1> HIDE DEF b
<1> QED  BY <1>2, <1>3, <1>4, <1>5

LEMMA NewServes ==
  ASSUME HeapAssumption, NEW h, Good(h, Base, Base + Size),
         NEW i \in 1 .. Len(h), NEW q \in Requests, Fits(h[i], q)
  PROVE  /\ IF q.at = NoAddress THEN Place(h[i], q) % q.align = 0 ELSE Place(h[i], q) = q.at
         /\ q.size <= AllocSize(h[i], q) /\ AllocSize(h[i], q) < q.size + q.align
<1> DEFINE b == h[i]
           x == b.phys + b.size - q.size
<1>0. /\ Base \in Nat /\ Size \in Nat /\ Word \in Nat /\ Base + Size <= Word
      /\ q.size \in Nat \ {0} /\ q.align \in Nat \ {0}
  BY DEF HeapAssumption
<1>1. /\ b.phys \in Nat /\ b.size \in Nat /\ b.phys + b.size <= Base + Size
  <2>1. Base + Size \in Nat
    BY <1>0
  <2> QED  BY <1>0, <2>1, CoversBounds DEF Good
<1>2. (x % Word) % q.align \in 0 .. q.align - 1
  <2>1. x \in Int /\ Word \in Nat \ {0}
    BY <1>0, <1>1
  <2>2. x % Word \in Nat
    BY <2>1
  <2> QED  BY <1>0, <2>2, Aligned
<1>3. AllocSize(b, q) = q.size + ((x % Word) % q.align)
  BY DEF AllocSize
<1>4. q.size <= AllocSize(b, q) /\ AllocSize(b, q) < q.size + q.align
  <2> HIDE DEF x
  <2> QED  BY <1>0, <1>2, <1>3
<1>5. x \in Nat /\ x < Word
  <2>1. AllocSize(b, q) <= b.size
    BY DEF Fits
  <2>2. AllocSize(b, q) \in Nat
    <3> HIDE DEF x
    <3> QED  BY <1>0, <1>2, <1>3
  <2>3. q.size <= b.size
    BY <1>0, <1>1, <1>4, <2>1, <2>2
  <2> QED  BY <1>0, <1>1, <2>3
<1>6. x % Word = x
  <2> HIDE DEF x
  <2> QED  BY <1>0, <1>5
<1>7. b.phys + b.size - AllocSize(b, q) = x - (x % q.align)
  <2> DEFINE r == x % q.align
  <2>1. r \in Int
    <3>1. \A n \in Nat : n % q.align \in 0 .. q.align - 1
      BY <1>0, Aligned
    <3> HIDE DEF x
    <3> QED  BY <1>0, <1>5, <3>1
  <2>2. AllocSize(b, q) = q.size + r
    BY <1>3, <1>6
  <2>3. b.phys + b.size - AllocSize(b, q) = (b.phys + b.size - q.size) - r
    <3> HIDE DEF r, b, x
    <3> QED  BY <1>0, <1>1, <2>1, <2>2
  <2>4. b.phys + b.size - AllocSize(b, q) = x - r
    BY <2>3, Zenon
  <2> QED  BY <2>4, Zenon
<1>8. q.at = NoAddress => Place(b, q) % q.align = 0
  <2>1. (x - (x % q.align)) % q.align = 0
    BY <1>0, <1>5, Aligned
  <2> QED  BY <1>7, <2>1 DEF Place
<1>9. q.at # NoAddress => Place(b, q) = q.at
  BY DEF Place
<1> QED  BY <1>4, <1>8, <1>9

-------------------------------------------------------------------------------
(* The steps of MemoryMap, in terms of the heap.                            *)
MapGrow ==
  \E a \in Taken(heap)' :
    /\ a.phys >= Base /\ a.phys + a.size <= Base + Size
    /\ \A b \in Taken(heap) : a.phys + a.size <= b.phys \/ b.phys + b.size <= a.phys
    /\ Taken(heap)' = Taken(heap) \cup {a}
    /\ a.refs = 1
    /\ \E q \in Requests :
         /\ IF q.at = NoAddress THEN a.phys % q.align = 0 ELSE a.phys = q.at
         /\ q.size <= a.size /\ a.size < q.size + q.align

MapCount ==
  \E a \in Taken(heap) : \E n \in {a.refs + 1, a.refs - 1} :
    /\ ~a.inac
    /\ Taken(heap)' =
         (Taken(heap) \ {a}) \cup (IF n = 0 THEN {} ELSE {[a EXCEPT !.refs = n]})

Mapped ==
  MapGrow \/ MapCount \/ Taken(heap)' = {} \/ Taken(heap)' = Taken(heap)

LEMMA MappedStep ==
  ASSUME heap \in Seq(Block), heap' \in Seq(Block), Mapped
  PROVE  [Map!MapNext]_({[phys |-> b.phys, size |-> b.size, refs |-> b.refs, inac |-> b.inac] :
              b \in {heap[i] : i \in {j \in DOMAIN heap : ~heap[j].free}}})
<1> DEFINE S(h) == {[phys |-> b.phys, size |-> b.size, refs |-> b.refs, inac |-> b.inac] :
                      b \in {h[i] : i \in {j \in DOMAIN h : ~h[j].free}}}
<1>1. ASSUME NEW h \in Seq(Block)  PROVE S(h) = Taken(h)
  <2>1. DOMAIN h = 1 .. Len(h)
    OBVIOUS
  <2> QED  BY <2>1 DEF Taken, TakenOf, Area
<1>2. S(heap) = Taken(heap) /\ S(heap') = Taken(heap)'
  BY <1>1
<1>3. CASE MapGrow
  BY <1>2, <1>3 DEF MapGrow, Map!MapNext, Map!Grow, Map!Inside, Map!Apart, Map!Serves
<1>4. CASE MapCount
  BY <1>2, <1>4 DEF MapCount, Map!MapNext, Map!Count
<1>5. CASE Taken(heap)' = {}
  BY <1>2, <1>5 DEF Map!MapNext, Map!Clear
<1>6. CASE Taken(heap)' = Taken(heap)
  BY <1>2, <1>6
<1> QED  BY <1>3, <1>4, <1>5, <1>6 DEF Mapped

(* A request that is granted adds its area.                                 *)
LEMMA GrowMaps ==
  ASSUME HeapAssumption, Good(heap, Base, Base + Size), NEW i \in 1 .. Len(heap),
         NEW q \in Requests, Fits(heap[i], q), NEW inac \in BOOLEAN,
         heap' = Alloc(heap, i, q, inac)
  PROVE  MapGrow
<1> DEFINE a == NewArea(heap[i], q, inac)
<1>0. Base \in Nat /\ Base + Size \in Nat
  BY DEF HeapAssumption
<1>1. Taken(heap)' = Taken(heap) \cup {a}
  BY <1>0, AllocKeeps
<1>2. /\ a.phys >= Base /\ a.phys + a.size <= Base + Size
      /\ \A b \in Taken(heap) : a.phys + a.size <= b.phys \/ b.phys + b.size <= a.phys
  <2>1. /\ a.phys \in Nat /\ Base <= a.phys /\ a.phys + a.size <= Base + Size
        /\ \A b \in Taken(heap) : a.phys + a.size <= b.phys \/ b.phys + b.size <= a.phys
    BY <1>0, NewApart
  <2> HIDE DEF a
  <2> QED  BY <1>0, <2>1
<1>3. a.refs = 1 /\ a.phys = Place(heap[i], q) /\ a.size = AllocSize(heap[i], q)
  BY DEF NewArea
<1>4. /\ IF q.at = NoAddress THEN a.phys % q.align = 0 ELSE a.phys = q.at
      /\ q.size <= a.size /\ a.size < q.size + q.align
  BY <1>3, NewServes
<1> HIDE DEF a
<1> QED  BY <1>1, <1>2, <1>3, <1>4 DEF MapGrow

(* One that the system's memory refuses leaves the areas as they were: the  *)
(* block that begins where it was placed is its own.                        *)
LEMMA FailMaps ==
  ASSUME HeapAssumption, Good(heap, Base, Base + Size), NEW i \in 1 .. Len(heap),
         NEW q \in Requests, Fits(heap[i], q),
         NEW h, h = Alloc(heap, i, q, FALSE),
         NEW j \in 1 .. Len(h), ~h[j].free, h[j].phys = Place(heap[i], q),
         heap' = ReleaseNoneThreadSafe(h, j)
  PROVE  Taken(heap)' = Taken(heap)
<1> DEFINE a == NewArea(heap[i], q, FALSE)
<1>0. Base \in Nat /\ Base + Size \in Nat
  BY DEF HeapAssumption
<1>1. Good(h, Base, Base + Size) /\ Taken(h) = Taken(heap) \cup {a}
  BY <1>0, AllocKeeps
<1>2. /\ a.phys \in Nat /\ a.size \in Nat /\ a.size > 0
      /\ \A b \in Taken(heap) : a.phys + a.size <= b.phys \/ b.phys + b.size <= a.phys
  BY <1>0, NewApart
<1>3. a.refs = 1 /\ a.phys = Place(heap[i], q)
  BY DEF NewArea
<1> HIDE DEF a
<1>4. \A b \in Taken(heap) : b.phys # a.phys
  <2>1. \A b \in Taken(heap) : b.phys \in Nat /\ b.size \in Nat /\ b.size > 0
    BY <1>0, TakenWithin
  <2> QED  BY <1>2, <2>1
<1>5. /\ Area(h[j]) \in Taken(h)
      /\ Taken(Before(h, j)) \cup Taken(Behind(h, j)) = Taken(h) \ {Area(h[j])}
  BY <1>0, <1>1, TakenOnce
<1>6. Area(h[j]).phys = h[j].phys /\ Area(h[j]).refs = h[j].refs
  BY DEF Area
<1>7. Area(h[j]) = a
  BY <1>1, <1>3, <1>4, <1>5, <1>6
<1>8. Taken(heap)' = Taken(Before(h, j)) \cup Taken(Behind(h, j))
  <2>1. h[j].refs = 1
    BY <1>3, <1>6, <1>7
  <2>2. Taken(ReleaseNoneThreadSafe(h, j)) =
          (Taken(Before(h, j)) \cup Taken(Behind(h, j)))
            \cup (IF h[j].free \/ h[j].refs = 1 THEN {}
                  ELSE {[Area(h[j]) EXCEPT !.refs = h[j].refs - 1]})
    BY <1>0, <1>1, ReleaseKeeps
  <2>3. Taken(ReleaseNoneThreadSafe(h, j)) =
          (Taken(Before(h, j)) \cup Taken(Behind(h, j))) \cup {}
    BY <2>1, <2>2
  <2>4. Taken(heap)' = Taken(ReleaseNoneThreadSafe(h, j))
    OBVIOUS
  <2> QED  BY <2>3, <2>4
<1>9. a \notin Taken(heap)
  BY <1>4
<1>10. Taken(heap)' = (Taken(heap) \cup {a}) \ {a}
  BY <1>1, <1>5, <1>7, <1>8
<1> QED  BY <1>9, <1>10

(* A reference more or less counts on the area of its block.                *)
LEMMA CountMaps ==
  ASSUME HeapAssumption, Good(heap, Base, Base + Size), NEW i \in 1 .. Len(heap),
         AddRef(i) \/ Release(i)
  PROVE  MapCount
<1> DEFINE a == Area(heap[i])
           rest == Taken(Before(heap, i)) \cup Taken(Behind(heap, i))
<1>0. Base \in Nat /\ Base + Size \in Nat
  BY DEF HeapAssumption
<1>1. heap \in Seq(Block) /\ heap[i] \in Block /\ ~heap[i].free /\ ~heap[i].inac
  BY DEF AddRef, Release, Used, Good
<1>2. a \in Taken(heap) /\ rest = Taken(heap) \ {a}
  BY <1>0, <1>1, TakenOnce
<1>3. a.refs = heap[i].refs /\ a.inac = heap[i].inac /\ heap[i].refs \in Int
      /\ heap[i].refs > 0
  <2>1. heap[i].refs > 0
    BY <1>1 DEF Good, Sound
  <2> QED  BY <1>1, <2>1 DEF Area, Block
<1>4. CASE AddRef(i)
  <2>1. heap' = [heap EXCEPT ![i].refs = heap[i].refs + 1]
    BY <1>4 DEF AddRef
  <2>2. heap[i].refs + 1 \in Int /\ heap[i].refs + 1 # 0
    BY <1>3
  <2>3. Taken(heap)' = rest \cup {[a EXCEPT !.refs = heap[i].refs + 1]}
    <3> DEFINE n == heap[i].refs + 1
    <3>1. ASSUME NEW m \in Int
          PROVE  Taken([heap EXCEPT ![i].refs = m]) = rest \cup {[a EXCEPT !.refs = m]}
      BY <1>1, TakenRecount
    <3>2. Taken([heap EXCEPT ![i].refs = n]) = rest \cup {[a EXCEPT !.refs = n]}
      <4> HIDE DEF n, rest, a
      <4>1. n \in Int
        BY <2>2 DEF n
      <4> QED  BY <3>1, <4>1
    <3>3. Taken(heap)' = Taken([heap EXCEPT ![i].refs = n])
      BY <2>1
    <3> QED  BY <3>2, <3>3
  <2> HIDE DEF a, rest
  <2> QED  BY <1>1, <1>2, <1>3, <2>2, <2>3 DEF MapCount
<1>5. CASE Release(i)
  <2>1. heap' = ReleaseNoneThreadSafe(heap, i)
    BY <1>5 DEF Release
  <2>2. Taken(heap)' = rest \cup (IF heap[i].refs = 1 THEN {}
                                ELSE {[a EXCEPT !.refs = heap[i].refs - 1]})
    BY <1>0, <1>1, <2>1, ReleaseKeeps
  <2>3. heap[i].refs = 1 <=> heap[i].refs - 1 = 0
    BY <1>3
  <2> HIDE DEF a, rest
  <2> QED  BY <1>1, <1>2, <1>3, <2>2, <2>3 DEF MapCount
<1> QED  BY <1>4, <1>5

(* Every step of the heap is one of MemoryMap.                              *)
LEMMA StepMaps ==
  ASSUME HeapAssumption, Partition, Partition', [Next]_vars
  PROVE  Mapped
<1>0. ASSUME NEW i \in DOMAIN heap
      PROVE  i \in 1 .. Len(heap) /\ Good(heap, Base, Base + Size)
  BY DEF Good, Partition
<1>1. ASSUME NEW q \in Requests, CreateMemory(q)  PROVE Mapped
  <2>1. PICK i \in DOMAIN heap : Fits(heap[i], q) /\ heap' = Alloc(heap, i, q, FALSE)
    BY <1>1 DEF CreateMemory
  <2> QED  BY <1>0, <2>1, GrowMaps DEF Mapped
<1>2. ASSUME NEW q \in Requests, CreateFails(q)  PROVE Mapped
  <2>1. PICK i \in DOMAIN heap :
          /\ Fits(heap[i], q)
          /\ \E j \in DOMAIN Alloc(heap, i, q, FALSE) :
               /\ ~Alloc(heap, i, q, FALSE)[j].free
               /\ Alloc(heap, i, q, FALSE)[j].phys = Place(heap[i], q)
               /\ heap' = ReleaseNoneThreadSafe(Alloc(heap, i, q, FALSE), j)
    BY <1>2 DEF CreateFails
  <2> DEFINE h == Alloc(heap, i, q, FALSE)
  <2>2. PICK j \in DOMAIN h : /\ ~h[j].free /\ h[j].phys = Place(heap[i], q)
                             /\ heap' = ReleaseNoneThreadSafe(h, j)
    BY <2>1
  <2>3. j \in 1 .. Len(h)
    <3>1. Base \in Nat /\ Base + Size \in Nat
      BY DEF HeapAssumption
    <3>2. h \in Seq(Block)
      BY <1>0, <2>1, <3>1, AllocKeeps DEF Good
    <3> HIDE DEF h
    <3> QED  BY <2>2, <3>2
  <2> QED  BY <1>0, <2>1, <2>2, <2>3, FailMaps DEF Mapped
<1>3. ASSUME NEW q \in Areas, SetInaccessible(q)  PROVE Mapped
  <2>1. CASE UNCHANGED heap
    BY <2>1 DEF Mapped
  <2>2. CASE \E i \in DOMAIN heap : Fits(heap[i], q) /\ heap' = Alloc(heap, i, q, TRUE)
    <3>1. PICK i \in DOMAIN heap : Fits(heap[i], q) /\ heap' = Alloc(heap, i, q, TRUE)
      BY <2>2
    <3>2. q \in Requests
      BY DEF HeapAssumption
    <3> QED  BY <1>0, <3>1, <3>2, GrowMaps DEF Mapped
  <2> QED  BY <1>3, <2>1, <2>2 DEF SetInaccessible
<1>4. ASSUME NEW i \in DOMAIN heap, AddRef(i) \/ Release(i)  PROVE Mapped
  BY <1>0, <1>4, CountMaps DEF Mapped
<1>5. CASE ReleaseAll
  <2>1. Taken(<<>>) = {}
    BY DEF Taken, TakenOf
  <2> QED  BY <1>5, <2>1 DEF ReleaseAll, Mapped
<1>6. CASE Initialize
  <2>1. Taken(<<FreeBlock(Base, Size)>>) = {}
    BY TakenOne DEF FreeBlock
  <2> QED  BY <1>6, <2>1 DEF Initialize, Mapped
<1>7. CASE UNCHANGED vars
  BY <1>7 DEF vars, Mapped
<1> QED  BY <1>1, <1>2, <1>3, <1>4, <1>5, <1>6, <1>7 DEF Next

(* The heap implements MemoryMap: each call adds, counts or takes away one  *)
(* area, aligned and of the size asked for, and touches that of nobody else *)
(* (MemoryHeap.cpp).                                                        *)
THEOREM ImplementsMap == Spec => MapSpec
<1>a. HeapAssumption
  BY HeapAssumption DEF HeapAssumption
<1>1. Init => Map!MapInit
  BY DEF Init, Map!MapInit
<1>2. Partition /\ Partition' /\ [Next]_vars =>
        [Map!MapNext]_({[phys |-> b.phys, size |-> b.size, refs |-> b.refs, inac |-> b.inac] :
              b \in {heap[i] : i \in {j \in DOMAIN heap : ~heap[j].free}}})
  <2>1. Partition => heap \in Seq(Block)
    BY DEF Partition
  <2>2. Partition' => heap' \in Seq(Block)
    BY DEF Partition
  <2> QED  BY <1>a, <2>1, <2>2, StepMaps, MappedStep
<1> QED  BY <1>1, <1>2, PartitionHolds, PTL DEF Spec, MapSpec, Map!MapSpec

-------------------------------------------------------------------------------
(* No aligned address between the last one that leaves room and the room's  *)
(* end.                                                                     *)
LEMMA LastAligned ==
  ASSUME NEW a \in Nat \ {0}, NEW x \in Nat, NEW p \in 0 .. x, p % a = 0
  PROVE  p <= x - (x % a)
<1>1. /\ x % a \in 0 .. a - 1 /\ x \div a \in Int /\ p \div a \in Int
      /\ x = a * (x \div a) + (x % a) /\ p = a * (p \div a)
  OBVIOUS
<1>2. ASSUME NEW k \in Int, NEW l \in Int, NEW r \in 0 .. a - 1, a * k <= a * l + r
      PROVE  a * k <= a * l
  <2>1. k - l <= 0
    <3> SUFFICES ASSUME k - l >= 1  PROVE FALSE
      OBVIOUS
    <3>1. a * k - a * l = a + a * ((k - l) - 1) /\ a * ((k - l) - 1) >= 0
      OBVIOUS
    <3> QED  BY <1>2, <3>1
  <2>2. a * (l - k) >= 0 /\ a * l = a * k + a * (l - k)
    BY <2>1
  <2> QED  BY <2>2
<1>3. a * (p \div a) <= a * (x \div a)
  BY <1>1, <1>2
<1> QED  BY <1>1, <1>3

(* A set of natural numbers has a least one.                                *)
Less == {ss \in Nat \X Nat : ss[1] < ss[2]}

LEMMA LessWellFounded == IsWellFoundedOn(Less, Nat)
BY NatLessThanWellFounded DEF OpToRel, Less

LEMMA Smallest ==
  ASSUME NEW S \in SUBSET Nat, S # {}
  PROVE  \E m \in S : \A k \in S : m <= k
<1>1. PICK m \in S : \A k \in S : <<k, m>> \notin Less
  BY LessWellFounded, WFMin
<1>2. ASSUME NEW k \in S, k < m  PROVE FALSE
  <2>1. k \in Nat /\ m \in Nat
    OBVIOUS
  <2>2. <<k, m>> \in Nat \X Nat /\ <<k, m>>[1] = k /\ <<k, m>>[2] = m
    BY <2>1
  <2>3. <<k, m>> \in Less
    BY <1>2, <2>2 DEF Less
  <2> QED  BY <1>1, <2>3
<1>3. \A k \in S : k \in Nat /\ m \in Nat
  OBVIOUS
<1> QED  BY <1>2, <1>3

(* Free memory lies in one block: the block that holds its first byte is    *)
(* free, and the next one is not.                                           *)
LEMMA InOneBlock ==
  ASSUME Good(heap, Base, Base + Size), Base \in Nat, Size \in Nat,
         NEW p \in Nat, NEW n \in Nat \ {0}, FreeAt(p, n)
  PROVE  \E i \in 1 .. Len(heap) :
           heap[i].free /\ heap[i].phys <= p /\ p + n <= heap[i].phys + heap[i].size
<1>0. /\ heap \in Seq(Block) /\ Covers(heap, Base, Base + Size) /\ Sound(heap)
      /\ Base + Size \in Nat /\ p >= Base /\ p + n <= Base + Size
  BY DEF Good, FreeAt
<1>1. \A k \in 1 .. Len(heap) : heap[k].phys \in Nat /\ heap[k].size \in Nat
  BY <1>0, CoversBounds
<1> DEFINE Past == {k \in 1 .. Len(heap) : heap[k].phys + heap[k].size > p}
<1>2. Len(heap) \in Past
  <2>1. Len(heap) \in Nat /\ Len(heap) # 0
    BY <1>0 DEF Covers
  <2>2. heap[Len(heap)].phys + heap[Len(heap)].size = Base + Size
    BY <1>0, <2>1 DEF Covers
  <2> QED  BY <1>0, <2>1, <2>2
<1>3. PICK i \in Past : \A k \in Past : i <= k
  <2>1. Past \in SUBSET Nat /\ Past # {}
    BY <1>2
  <2> HIDE DEF Past
  <2> QED  BY <2>1, Smallest
<1>4. i \in 1 .. Len(heap) /\ heap[i].phys + heap[i].size > p
  BY <1>3
<1>5. heap[i].phys <= p
  <2>1. CASE i = 1
    BY <1>0, <1>4, <2>1 DEF Covers
  <2>2. CASE i # 1
    <3>1. i - 1 \in 1 .. Len(heap) - 1 /\ i - 1 \in 1 .. Len(heap) /\ (i - 1) + 1 = i
          /\ ~(i <= i - 1)
      BY <1>0, <1>4, <2>2
    <3>2. heap[i].phys = heap[i - 1].phys + heap[i - 1].size
      BY <1>0, <3>1 DEF Covers
    <3>3. ~(heap[i - 1].phys + heap[i - 1].size > p)
      BY <1>3, <3>1
    <3> QED  BY <1>1, <1>4, <3>1, <3>2, <3>3
  <2> QED  BY <2>1, <2>2
<1>6. \A k \in 1 .. Len(heap) :
        ~heap[k].free => p + n <= heap[k].phys \/ heap[k].phys + heap[k].size <= p
  <2>1. DOMAIN heap = 1 .. Len(heap)
    BY <1>0
  <2> QED  BY <2>1 DEF FreeAt
<1>7. heap[i].free
  BY <1>1, <1>4, <1>5, <1>6
<1>8. p + n <= heap[i].phys + heap[i].size
  <2>1. CASE i = Len(heap)
    BY <1>0, <1>4, <2>1 DEF Covers
  <2>2. CASE i # Len(heap)
    <3>1. i \in 1 .. Len(heap) - 1 /\ i + 1 \in 1 .. Len(heap) /\ i < Len(heap)
      BY <1>0, <1>4, <2>2
    <3>2. ~heap[i + 1].free
      BY <1>0, <1>4, <1>7, <3>1 DEF Sound, NextFree
    <3>3. heap[i + 1].phys = heap[i].phys + heap[i].size
      BY <1>0, <3>1 DEF Covers
    <3>4. \/ p + n <= heap[i + 1].phys
          \/ heap[i + 1].phys + heap[i + 1].size <= p
      BY <1>6, <3>1, <3>2
    <3> QED  BY <1>1, <1>4, <3>1, <3>3, <3>4
  <2> QED  BY <2>1, <2>2
<1> QED  BY <1>4, <1>5, <1>7, <1>8

(* The padding leaves the new block at or behind every aligned place with   *)
(* room, and the subtraction does not wrap.                                 *)
LEMMA Padding ==
  ASSUME NEW phys \in Nat, NEW size \in Nat, NEW word \in Nat, phys + size <= word,
         NEW n \in Nat \ {0}, NEW a \in Nat \ {0},
         NEW p \in Nat, phys <= p, p + n <= phys + size, p % a = 0,
         NEW len, len = n + (((phys + size - n) % word) % a)
  PROVE  len \in Nat /\ len <= size /\ p + len <= phys + size
<1> DEFINE x == phys + size - n
<1>1. x \in Nat /\ x < word /\ p <= x
  OBVIOUS
<1>2. ASSUME NEW y \in Nat, y < word  PROVE y % word = y
  BY <1>2
<1>3. x % word = x
  <2> HIDE DEF x
  <2> QED  BY <1>1, <1>2
<1> DEFINE r == x % a
<1>4. r \in Nat /\ p <= x - r
  <2>1. \A y \in Nat : y % a \in 0 .. a - 1
    BY Aligned
  <2>2. \A y \in Nat : p \in 0 .. y => p <= y - (y % a)
    BY LastAligned
  <2>3. p \in 0 .. x
    BY <1>1
  <2> HIDE DEF x
  <2> QED  BY <1>1, <2>1, <2>2, <2>3
<1>5. len = n + r
  BY <1>3
<1> HIDE DEF r
<1> QED  BY <1>4, <1>5

LEMMA AllocSizeFits ==
  ASSUME NEW b, b.phys \in Nat, b.size \in Nat, Word \in Nat, b.phys + b.size <= Word,
         NEW q, q.size \in Nat \ {0}, q.align \in Nat \ {0},
         NEW p \in Nat, b.phys <= p, p + q.size <= b.phys + b.size, p % q.align = 0
  PROVE  /\ AllocSize(b, q) \in Nat /\ AllocSize(b, q) <= b.size
         /\ p + AllocSize(b, q) <= b.phys + b.size
BY Padding, Zenon DEF AllocSize

(* A block with room for an aligned place of a request fits it.             *)
LEMMA FitsInBlock ==
  ASSUME Base \in Nat, Base + Size \in Nat, Word \in Nat, Base + Size <= Word,
         NEW q, q.size \in Nat \ {0}, q.align \in Nat \ {0},
         Good(heap, Base, Base + Size), NEW i \in 1 .. Len(heap),
         NEW p \in Nat, heap[i].free,
         heap[i].phys <= p, p + q.size <= heap[i].phys + heap[i].size,
         p % q.align = 0, q.at # NoAddress => p = q.at
  PROVE  Fits(heap[i], q)
<1> DEFINE phys == heap[i].phys
           size == heap[i].size
           len == AllocSize(heap[i], q)
<1>1. phys \in Nat /\ size \in Nat /\ phys + size <= Base + Size
  BY CoversBounds DEF Good
<1>2. phys + size <= Word
  <2> HIDE DEF phys, size
  <2> QED  BY <1>1
<1>3. len \in Nat /\ len <= size /\ p + len <= phys + size
  <2> DEFINE b == heap[i]
  <2>1. /\ b.phys \in Nat /\ b.size \in Nat /\ b.phys + b.size <= Word
        /\ b.phys <= p /\ p + q.size <= b.phys + b.size
    BY <1>1, <1>2
  <2>2. /\ AllocSize(b, q) \in Nat /\ AllocSize(b, q) <= b.size
        /\ p + AllocSize(b, q) <= b.phys + b.size
    <3> HIDE DEF b, phys, size, len
    <3> QED  BY <2>1, AllocSizeFits
  <2> QED  BY <2>2
<1>4. \A u, v, w \in Nat : v <= p /\ p + u <= v + w =>
        v + w - u >= v /\ (v + w - u) + u <= v + w
  OBVIOUS
<1>5. phys <= p
  OBVIOUS
<1>6. Place(heap[i], q) = IF q.at = NoAddress THEN phys + size - len ELSE q.at
  BY DEF Place
<1> HIDE DEF phys, size, len
<1>7. /\ Place(heap[i], q) >= phys
      /\ Place(heap[i], q) + len <= phys + size
  <2>1. phys + size - len >= phys /\ (phys + size - len) + len <= phys + size
    BY <1>1, <1>3, <1>4, <1>5
  <2>2. CASE q.at = NoAddress
    BY <1>6, <2>1, <2>2
  <2>3. CASE q.at # NoAddress
    <3>1. Place(heap[i], q) = p
      BY <1>6, <2>3
    <3> QED  BY <1>3, <1>5, <3>1
  <2> QED  BY <2>2, <2>3
<1> QED  BY <1>3, <1>7 DEF Fits, phys, size, len

(* Whenever some aligned place is free for a request, the request is        *)
(* granted: the wrapping subtraction, the padding, the splits and the       *)
(* merges hide no memory (MemoryHeap.cpp, Alloc).                           *)
THEOREM NoMemoryHidden == Spec => []GrantsWhatFits
<1>1. Partition => GrantsWhatFits
  <2> SUFFICES ASSUME Partition, heap # <<>>, NEW q \in Requests,
                      NEW p \in Base .. Base + Size, p % q.align = 0,
                      q.at # NoAddress => p = q.at, FreeAt(p, q.size)
               PROVE  \E i \in DOMAIN heap : Fits(heap[i], q)
    BY DEF GrantsWhatFits
  <2>1. HeapAssumption
    BY HeapAssumption DEF HeapAssumption
  <2>2. /\ Base \in Nat /\ Size \in Nat /\ Base + Size \in Nat
        /\ Word \in Nat /\ Base + Size <= Word
        /\ q.size \in Nat \ {0} /\ q.align \in Nat \ {0}
    BY <2>1 DEF HeapAssumption
  <2>3. Good(heap, Base, Base + Size) /\ DOMAIN heap = 1 .. Len(heap) /\ p \in Nat
    BY <2>2 DEF Partition, Good
  <2>4. PICK i \in 1 .. Len(heap) :
          /\ heap[i].free /\ heap[i].phys <= p
          /\ p + q.size <= heap[i].phys + heap[i].size
    BY <2>2, <2>3, InOneBlock
  <2> QED  BY <2>2, <2>3, <2>4, FitsInBlock
<1> QED  BY <1>1, PartitionHolds, PTL
===============================================================================
