---------------------------- MODULE FiFoAsyncProofs ----------------------------
(***************************************************************************)
(* Proof that FiFo_Async is a queue, for every depth and every kind of     *)
(* data: first what the Gray code is good for, then the ring of pointers,  *)
(* then the slots.                                                         *)
(***************************************************************************)
EXTENDS FiFoAsync, FiniteSetTheorems, SequenceTheorems, WellFoundedInduction,
        TLAPS

-------------------------------------------------------------------------------
(* Powers of two: 2^i subsets of i elements, twice as many with one more.  *)

LEMMA PowerZero == 2^0 = 1
  BY SMT

LEMMA PowerSucc ==
  ASSUME NEW i \in Nat
  PROVE  2^i \in Nat \ {0} /\ 2^(i + 1) = 2 * 2^i
<1> DEFINE S(n) == SUBSET (1..n)
           With == {T \cup {i + 1} : T \in S(i)}
<1>1. /\ IsFiniteSet(1..i) /\ Cardinality(1..i) = i
      /\ IsFiniteSet(1..(i + 1)) /\ Cardinality(1..(i + 1)) = i + 1
  BY FS_Interval
<1>2. /\ IsFiniteSet(S(i)) /\ Cardinality(S(i)) = 2^i
      /\ IsFiniteSet(S(i + 1)) /\ Cardinality(S(i + 1)) = 2^(i + 1)
  BY <1>1, FS_SUBSET
<1>3. S(i + 1) = S(i) \cup With /\ S(i) \cap With = {}
  <2>1. 1..(i + 1) = (1..i) \cup {i + 1} /\ i + 1 \notin 1..i
    OBVIOUS
  <2>2. ASSUME NEW T \in S(i + 1)  PROVE T \in S(i) \cup With
    <3>1. CASE i + 1 \in T
      <4>1. T = (T \ {i + 1}) \cup {i + 1} /\ T \ {i + 1} \in S(i)
        BY <2>1, <3>1
      <4> QED  BY <4>1
    <3>2. CASE i + 1 \notin T
      BY <2>1, <3>2
    <3> QED  BY <3>1, <3>2
  <2>3. S(i) \subseteq S(i + 1) /\ With \subseteq S(i + 1) /\ S(i) \cap With = {}
    BY <2>1
  <2> QED  BY <2>2, <2>3
<1>4. IsFiniteSet(With) /\ Cardinality(With) = Cardinality(S(i))
  <2> DEFINE f == [T \in S(i) |-> T \cup {i + 1}]
  <2>1. f \in [S(i) -> With] /\ \A W \in With : \E T \in S(i) : f[T] = W
    OBVIOUS
  <2>2. ASSUME NEW T \in S(i), NEW U \in S(i), f[T] = f[U]  PROVE T = U
    <3>1. i + 1 \notin T /\ i + 1 \notin U
      OBVIOUS
    <3>2. T \cup {i + 1} = U \cup {i + 1}
      BY <2>2
    <3> QED  BY <3>1, <3>2
  <2>3. f \in Bijection(S(i), With)
    BY <2>1, <2>2 DEF Bijection, Injection, Surjection, IsInjective
  <2> QED  BY <2>3, <1>2, FS_Bijection DEF ExistsBijection
<1>5. Cardinality(S(i)) \in Nat \ {0}
  <2>1. S(i) # {}
    OBVIOUS
  <2> HIDE DEF S
  <2> QED  BY <1>2, <2>1, FS_EmptySet, FS_CardinalityType
<1>6. Cardinality(S(i + 1)) = 2 * Cardinality(S(i))
  <2> HIDE DEF S, With
  <2>1. Cardinality(S(i) \cap With) = 0
    BY <1>3, FS_EmptySet
  <2>2. Cardinality(S(i) \cup With)
          = Cardinality(S(i)) + Cardinality(With) - Cardinality(S(i) \cap With)
    BY <1>2, <1>4, FS_Union
  <2>3. Cardinality(S(i + 1)) = Cardinality(S(i)) + Cardinality(S(i)) - 0
    BY <1>3, <1>4, <2>1, <2>2, Zenon
  <2>4. \A x \in Nat : x + x - 0 = 2 * x
    OBVIOUS
  <2> QED  BY <1>5, <2>3, <2>4
<1> QED  BY <1>2, <1>5, <1>6

(* A set of natural numbers has a least one.                               *)
Less == {ss \in Nat \X Nat : ss[1] < ss[2]}

LEMMA LessWellFounded == IsWellFoundedOn(Less, Nat)
BY NatLessThanWellFounded DEF OpToRel, Less

(* So one that holds 0, and with each number the next, holds them all.     *)
LEMMA Upward ==
  ASSUME NEW S \in SUBSET Nat, 0 \in S, \A k \in S : k + 1 \in S
  PROVE  \A k \in Nat : k \in S
<1> DEFINE T == Nat \ S
<1>1. SUFFICES ASSUME T # {} PROVE FALSE
  OBVIOUS
<1>2. PICK m \in T : \A k \in T : <<k, m>> \notin Less
  <2>1. T \in SUBSET Nat
    OBVIOUS
  <2> HIDE DEF T
  <2> QED  BY <1>1, <2>1, LessWellFounded, WFMin
<1>3. m \in Nat /\ m # 0 /\ m - 1 \in Nat
  OBVIOUS
<1>4. <<m - 1, m>> \in Nat \X Nat /\ <<m - 1, m>>[1] < <<m - 1, m>>[2]
  BY <1>3
<1>5. <<m - 1, m>> \in Less
  BY <1>4 DEF Less
<1>6. m - 1 \in S
  BY <1>2, <1>3, <1>5
<1>7. m = (m - 1) + 1
  BY <1>3
<1> QED  BY <1>6, <1>7

LEMMA PowerSum ==
  ASSUME NEW i \in Nat, NEW j \in Nat
  PROVE  2^(i + j) = 2^i * 2^j
<1> DEFINE S == {k \in Nat : 2^(i + k) = 2^i * 2^k}
<1>1. 0 \in S
  BY PowerZero, PowerSucc
<1>2. ASSUME NEW k \in S  PROVE k + 1 \in S
  <2>1. i + k \in Nat /\ i + (k + 1) = (i + k) + 1 /\ k \in Nat /\ 2^(i + k) = 2^i * 2^k
    OBVIOUS
  <2>2. 2^(i + (k + 1)) = 2 * 2^(i + k) /\ 2^(k + 1) = 2 * 2^k /\ 2^k \in Nat /\ 2^i \in Nat
    BY <2>1, PowerSucc
  <2>3. \A x, y \in Nat : 2 * (x * y) = x * (2 * y)
    OBVIOUS
  <2>4. 2^(i + (k + 1)) = 2^i * 2^(k + 1)
    BY <2>1, <2>2, <2>3
  <2> QED  BY <2>1, <2>4
<1>3. \A k \in Nat : k \in S
  <2>1. S \in SUBSET Nat
    OBVIOUS
  <2> HIDE DEF S
  <2> QED  BY <1>1, <1>2, <2>1, Upward
<1> QED  BY <1>3

-------------------------------------------------------------------------------
(* The bits of a number.                                                   *)

LEMMA DivUnique ==
  ASSUME NEW m \in Nat \ {0}, NEW x \in Nat, NEW y \in 0..(m - 1)
  PROVE  (m * x + y) \div m = x
<1> DEFINE n == m * x + y
           q == n \div m
           r == n % m
<1>1. n \in Nat /\ q \in Int /\ r \in 0..(m - 1) /\ n = m * q + r
  OBVIOUS
<1> HIDE DEF q, r
<1>2. m * x + y = m * q + r
  BY <1>1
<1>3. \A u, v \in Int : u < v => m * u + m <= m * v
  <2>1. TAKE u, v \in Int
  <2>2. HAVE u < v
  <2>3. v - u >= 1 /\ m * (v - u) >= m /\ m * (v - u) = m * v - m * u
    BY <2>2
  <2> QED  BY <2>3
<1>4. ~(x < q) /\ ~(q < x)
  BY <1>1, <1>2, <1>3
<1>5. q = x
  BY <1>1, <1>4
<1> QED  BY <1>5 DEF q

Sh(n, i) == n \div 2^i

LEMMA ShAdd ==
  ASSUME NEW n \in Nat, NEW i \in Nat, NEW k \in Nat
  PROVE  Sh(n, i) \in Nat /\ Sh(n + 2^i * k, i) = Sh(n, i) + k
<1> DEFINE p == 2^i
           q == n \div p
           r == n % p
<1>1. p \in Nat \ {0}
  BY PowerSucc
<1> HIDE DEF p
<1>2. q \in Nat /\ r \in 0..(p - 1) /\ n = p * q + r
  <2>1. q \in Int /\ r \in 0..(p - 1) /\ n = p * q + r
    BY <1>1
  <2> HIDE DEF q, r
  <2>2. ~(q < 0)
    <3>1. SUFFICES ASSUME q < 0 PROVE FALSE
      OBVIOUS
    <3>2. p * q <= -p
      <4>1. p * (-1 - q) >= 0 /\ p * (-1 - q) = -p - p * q
        BY <1>1, <2>1, <3>1
      <4> QED  BY <4>1, <1>1, <2>1
    <3> QED  BY <1>1, <2>1, <3>2
  <2> QED  BY <2>1, <2>2
<1> HIDE DEF q, r
<1>3. n + p * k = p * (q + k) + r
  BY <1>1, <1>2
<1>4. (p * (q + k) + r) \div p = q + k
  BY <1>1, <1>2, DivUnique
<1> QED  BY <1>2, <1>3, <1>4 DEF Sh, q, p

LEMMA ShHalf ==
  ASSUME NEW n \in Nat, NEW i \in Nat
  PROVE  Sh(n, i) \in Nat /\ Sh(n, i + 1) = Sh(n, i) \div 2
<1> DEFINE p == 2^i
           q == n \div p
           r == n % p
           h == q \div 2
           e == q % 2
<1>1. p \in Nat \ {0} /\ 2^(i + 1) = 2 * p
  BY PowerSucc
<1>2. q \in Nat
  BY ShAdd, 0 \in Nat DEF Sh
<1> HIDE DEF p
<1>3. r \in 0..(p - 1) /\ n = p * q + r
  BY <1>1
<1> HIDE DEF q, r
<1>4. h \in Nat /\ e \in {0, 1} /\ q = 2 * h + e
  BY <1>2
<1> HIDE DEF h, e
<1>5. p * q + r = (2 * p) * h + (p * e + r)
  <2>1. p * (2 * h + e) = (2 * p) * h + p * e
    BY <1>1, <1>4
  <2> QED  BY <2>1, <1>1, <1>3, <1>4
<1>6. p * e + r \in 0..(2 * p - 1)
  <2>1. e = 0 \/ e = 1
    BY <1>4
  <2>2. p * e = 0 \/ p * e = p
    BY <1>1, <2>1
  <2> QED  BY <1>1, <1>3, <2>2
<1>7. ((2 * p) * h + (p * e + r)) \div (2 * p) = h
  BY <1>1, <1>4, <1>6, DivUnique
<1> QED  BY <1>1, <1>2, <1>3, <1>5, <1>7 DEF Sh, h, q, p

LEMMA ShZero == \A n \in Nat : Sh(n, 0) = n
  BY PowerZero DEF Sh

LEMMA ShOfZero == ASSUME NEW i \in Nat PROVE Sh(0, i) = 0
<1> DEFINE p == 2^i
<1>1. p \in Nat \ {0}
  BY PowerSucc
<1> HIDE DEF p
<1>2. (p * 0 + 0) \div p = 0
  BY <1>1, DivUnique
<1> QED  BY <1>1, <1>2 DEF Sh, p

LEMMA Top == Depth \in Nat \ {0} /\ Turn = 2 * Depth /\ FIFO_DEPTH + 1 \in Nat
  BY DepthAssumption, PowerSucc DEF Depth, Turn

-------------------------------------------------------------------------------
(* The Gray code.                                                          *)

(* A wire of the code, of any number; only s % 4 matters of the shifted one. *)
Wire(n, i) ==
  IF i = FIFO_DEPTH THEN Bit(n, i) ELSE (Bit(n, i) + Bit(n, i + 1)) % 2

LEMMA WireOfSh ==
  ASSUME NEW n \in Nat, NEW i \in Wires
  PROVE  /\ Wire(n, i) = IF i = FIFO_DEPTH THEN Sh(n, i) % 2
                         ELSE ((Sh(n, i) % 2) + ((Sh(n, i) \div 2) % 2)) % 2
         /\ Wire(n, i) \in {0, 1}
<1>1. i \in Nat /\ Sh(n, i) \in Nat /\ Sh(n, i + 1) = Sh(n, i) \div 2
  <2>1. i \in Nat
    BY DepthAssumption DEF Wires
  <2> QED  BY <2>1, ShHalf
<1>2. Wire(n, i) = IF i = FIFO_DEPTH THEN Sh(n, i) % 2
                   ELSE ((Sh(n, i) % 2) + (Sh(n, i + 1) % 2)) % 2
  <2>1. Bit(n, i) = Sh(n, i) % 2 /\ Bit(n, i + 1) = Sh(n, i + 1) % 2
    BY DEF Bit, Sh
  <2>2. CASE i = FIFO_DEPTH
    BY <2>1, <2>2 DEF Wire
  <2>3. CASE i # FIFO_DEPTH
    <3>1. Wire(n, i) = (Bit(n, i) + Bit(n, i + 1)) % 2
      BY <2>3 DEF Wire
    <3> QED  BY <2>1, <2>3, <3>1
  <2> QED  BY <2>2, <2>3
<1>3. Wire(n, i) \in {0, 1}
  <2>1. \A x \in Nat : x % 2 \in {0, 1}
    OBVIOUS
  <2>2. Sh(n, i + 1) \in Nat
    BY <1>1, ShHalf
  <2> QED  BY <1>1, <1>2, <2>1, <2>2
<1> QED  BY <1>1, <1>2, <1>3

LEMMA GrayWire ==
  ASSUME NEW n \in Counts
  PROVE  Gray[n] \in Codes /\ Gray[n] = [i \in Wires |-> Wire(n, i)]
<1>1. n \in Nat
  BY Top DEF Counts
<1>2. Gray[n] = [i \in Wires |-> Wire(n, i)]
  BY DEF Gray, Wire
<1> QED  BY <1>1, <1>2, WireOfSh DEF Codes

(* The code repeats after a turn.                                          *)
LEMMA WirePeriod ==
  ASSUME NEW n \in Nat, NEW i \in Wires
  PROVE  Wire(n + Turn, i) = Wire(n, i)
<1> DEFINE j == FIFO_DEPTH - i
           s == Sh(n, i)
<1>1. i \in Nat /\ j \in Nat /\ FIFO_DEPTH + 1 = i + (j + 1)
  BY DepthAssumption DEF Wires
<1>2. Turn = 2^i * 2^(j + 1) /\ 2^j \in Nat /\ 2^(j + 1) = 2 * 2^j
  <2>1. 2^(FIFO_DEPTH + 1) = 2^(i + (j + 1)) /\ j + 1 \in Nat
    BY <1>1
  <2> HIDE DEF j
  <2>2. 2^(i + (j + 1)) = 2^i * 2^(j + 1)
    BY <1>1, <2>1, PowerSum
  <2> QED  BY <1>1, <2>1, <2>2, PowerSucc DEF Turn
<1>3. s \in Nat /\ Sh(n + Turn, i) = s + 2 * 2^j
  <2> HIDE DEF j
  <2>1. 2^(j + 1) \in Nat
    BY <1>2
  <2>2. Sh(n, i) \in Nat /\ Sh(n + 2^i * 2^(j + 1), i) = Sh(n, i) + 2^(j + 1)
    BY <1>1, <2>1, ShAdd
  <2> QED  BY <1>2, <2>2
<1>4. n + Turn \in Nat
  BY Top
<1> HIDE DEF s
<1>5. CASE i = FIFO_DEPTH
  <2>1. j = 0 /\ 2^j = 1
    BY <1>1, <1>5, PowerZero
  <2>2. (s + 2) % 2 = s % 2
    BY <1>3
  <2> QED  BY <1>3, <1>4, <1>5, <2>1, <2>2, WireOfSh DEF s
<1>6. CASE i # FIFO_DEPTH
  <2>1. j - 1 \in Nat /\ j = (j - 1) + 1
    <3>1. i <= FIFO_DEPTH /\ FIFO_DEPTH \in Nat
      BY DepthAssumption DEF Wires
    <3> QED  BY <1>1, <1>6, <3>1
  <2>2. 2^j = 2 * 2^(j - 1) /\ 2^(j - 1) \in Nat
    <3> HIDE DEF j
    <3> QED  BY <2>1, PowerSucc
  <2>3. PICK k \in Nat : 2^j = 2 * k
    BY <2>2
  <2>4. Sh(n + Turn, i) = s + 4 * k
    BY <1>3, <2>3
  <2>5. (((s + 4 * k) % 2) + (((s + 4 * k) \div 2) % 2)) % 2 = ((s % 2) + ((s \div 2) % 2)) % 2
    BY <1>3, <2>3
  <2> QED  BY <1>4, <1>6, <2>4, <2>5, WireOfSh DEF s
<1> QED  BY <1>5, <1>6

(* Counting up by one changes a bit, keeps all those above it, and carries  *)
(* only out of ones; so one wire of the code changes.                       *)
LEMMA CarryOrNot ==
  ASSUME NEW n \in Nat, NEW i \in Nat
  PROVE  Sh(n + 1, i) = Sh(n, i) \/ Sh(n + 1, i) = Sh(n, i) + 1
<1> DEFINE S == {k \in Nat : Sh(n + 1, k) = Sh(n, k) \/ Sh(n + 1, k) = Sh(n, k) + 1}
<1>1. 0 \in S
  BY ShZero
<1>2. ASSUME NEW k \in S  PROVE k + 1 \in S
  <2>1. /\ k \in Nat /\ n + 1 \in Nat
        /\ Sh(n + 1, k) = Sh(n, k) \/ Sh(n + 1, k) = Sh(n, k) + 1
    OBVIOUS
  <2>2. /\ Sh(n, k) \in Nat /\ Sh(n, k + 1) = Sh(n, k) \div 2
        /\ Sh(n + 1, k) \in Nat /\ Sh(n + 1, k + 1) = Sh(n + 1, k) \div 2
    BY <2>1, ShHalf
  <2>3. \A x \in Nat : (x + 1) \div 2 = x \div 2 \/ (x + 1) \div 2 = x \div 2 + 1
    OBVIOUS
  <2>4. Sh(n + 1, k + 1) = Sh(n, k + 1) \/ Sh(n + 1, k + 1) = Sh(n, k + 1) + 1
    BY <2>1, <2>2, <2>3
  <2> QED  BY <2>1, <2>4
<1>3. \A k \in Nat : k \in S
  <2>1. S \in SUBSET Nat
    OBVIOUS
  <2> HIDE DEF S
  <2> QED  BY <1>1, <1>2, <2>1, Upward
<1> QED  BY <1>3

LEMMA NoCarryAbove ==
  ASSUME NEW n \in Nat, NEW i \in Nat, Sh(n + 1, i) = Sh(n, i), NEW j \in Nat, i <= j
  PROVE  Sh(n + 1, j) = Sh(n, j)
<1> DEFINE S == {k \in Nat : Sh(n + 1, i + k) = Sh(n, i + k)}
<1>1. 0 \in S
  OBVIOUS
<1>2. ASSUME NEW k \in S  PROVE k + 1 \in S
  <2>1. k \in Nat /\ i + k \in Nat /\ n + 1 \in Nat /\ i + (k + 1) = (i + k) + 1
    OBVIOUS
  <2>2. Sh(n, (i + k) + 1) = Sh(n, i + k) \div 2
    BY <2>1, ShHalf
  <2>3. Sh(n + 1, (i + k) + 1) = Sh(n + 1, i + k) \div 2
    BY <2>1, ShHalf
  <2> QED  BY <2>1, <2>2, <2>3
<1>3. \A k \in Nat : k \in S
  <2>1. S \in SUBSET Nat
    OBVIOUS
  <2> HIDE DEF S
  <2> QED  BY <1>1, <1>2, <2>1, Upward
<1>4. j - i \in Nat /\ i + (j - i) = j
  OBVIOUS
<1> QED  BY <1>3, <1>4

LEMMA OneWire ==
  ASSUME NEW n \in Nat, NEW i \in Wires, NEW j \in Wires, i < j
  PROVE  Wire(n + 1, i) = Wire(n, i) \/ Wire(n + 1, j) = Wire(n, j)
<1> DEFINE s == Sh(n, i)
           t == Sh(n + 1, i)
<1>1. i \in Nat /\ j \in Nat /\ n + 1 \in Nat /\ i # FIFO_DEPTH
  BY DepthAssumption DEF Wires
<1>2. s \in Nat /\ (t = s \/ t = s + 1)
  BY <1>1, ShHalf, CarryOrNot
<1>3. CASE t = s
  BY <1>1, <1>3, WireOfSh
<1>4. CASE t = s + 1 /\ s % 2 = 1
  <2>1. (((s + 1) % 2) + (((s + 1) \div 2) % 2)) % 2 = ((s % 2) + ((s \div 2) % 2)) % 2
    <3> HIDE DEF s
    <3> QED  BY <1>2, <1>4
  <2> QED  BY <1>1, <1>4, <2>1, WireOfSh
<1>5. CASE t = s + 1 /\ s % 2 = 0
  <2>1. (s + 1) \div 2 = s \div 2
    <3> HIDE DEF s
    <3> QED  BY <1>2, <1>5
  <2>2. Sh(n + 1, i + 1) = Sh(n, i + 1)
    BY <1>1, <1>5, <2>1, ShHalf
  <2>3. Sh(n + 1, j) = Sh(n, j)
    BY <1>1, <2>2, NoCarryAbove
  <2> QED  BY <1>1, <2>3, WireOfSh
<1>6. s % 2 = 0 \/ s % 2 = 1
  <2> HIDE DEF s
  <2> QED  BY <1>2
<1> QED  BY <1>2, <1>3, <1>4, <1>5, <1>6

Succ(n) == IF n + 1 = Turn THEN 0 ELSE n + 1

LEMMA GrayStep ==
  ASSUME NEW n \in Counts
  PROVE  /\ Succ(n) \in Counts
         /\ \A i, j \in Wires : i # j => \/ Gray[Succ(n)][i] = Gray[n][i]
                                         \/ Gray[Succ(n)][j] = Gray[n][j]
<1>1. n \in Nat /\ Succ(n) \in Counts
  BY Top DEF Counts, Succ
<1>2. ASSUME NEW i \in Wires  PROVE Gray[n][i] = Wire(n, i) /\ Gray[Succ(n)][i] = Wire(n + 1, i)
  <2>1. Gray[n][i] = Wire(n, i) /\ Gray[Succ(n)][i] = Wire(Succ(n), i)
    BY <1>1, GrayWire
  <2>2. n + 1 = Turn => Wire(0, i) = Wire(n + 1, i)
    <3>1. Wire(0 + Turn, i) = Wire(0, i)
      BY WirePeriod
    <3>2. 0 + Turn = Turn
      BY Top
    <3> QED  BY <3>1, <3>2
  <2> QED  BY <2>1, <2>2 DEF Succ
<1>3. ASSUME NEW i \in Wires, NEW j \in Wires, i # j
      PROVE  Wire(n + 1, i) = Wire(n, i) \/ Wire(n + 1, j) = Wire(n, j)
  <2>1. i < j \/ j < i
    BY <1>3, DepthAssumption DEF Wires
  <2> QED  BY <1>1, <2>1, OneWire
<1> QED  BY <1>1, <1>2, <1>3

(* Caught in the middle of a step, the code is the old one or the new one. *)
LEMMA CaughtWhole ==
  ASSUME NEW n \in Counts, NEW m \in {n, Succ(n)}
  PROVE  Caught(Gray[n], Gray[m]) \subseteq {Gray[n], Gray[m]}
<1>1. m \in Counts /\ Gray[n] \in Codes /\ Gray[m] \in Codes
  BY GrayStep, GrayWire
<1>2. SUFFICES ASSUME NEW p \in Codes, \A i \in Wires : p[i] \in {Gray[n][i], Gray[m][i]}
               PROVE  p = Gray[n] \/ p = Gray[m]
  BY DEF Caught
<1>3. CASE \E i \in Wires : p[i] # Gray[n][i]
  <2>1. PICK i \in Wires : p[i] # Gray[n][i]
    BY <1>3
  <2>2. p[i] = Gray[m][i] /\ m = Succ(n)
    BY <1>2, <2>1
  <2>3. ASSUME NEW j \in Wires  PROVE p[j] = Gray[m][j]
    BY <1>2, <2>1, <2>2, GrayStep
  <2> QED  BY <1>1, <2>3 DEF Codes
<1>4. CASE \A i \in Wires : p[i] = Gray[n][i]
  BY <1>1, <1>4 DEF Codes
<1> QED  BY <1>3, <1>4

(* Different counts of a turn have different codes: from the top wire down, *)
(* the code tells the bits.                                                 *)
LEMMA GrayInjective ==
  ASSUME NEW n \in Counts, NEW m \in Counts, Gray[n] = Gray[m]
  PROVE  n = m
<1> DEFINE S == {k \in Nat : k <= FIFO_DEPTH => Sh(n, FIFO_DEPTH - k) = Sh(m, FIFO_DEPTH - k)}
<1>1. n \in Nat /\ m \in Nat
  BY Top DEF Counts
<1>2. ASSUME NEW i \in Wires  PROVE Wire(n, i) = Wire(m, i)
  <2>1. Gray[n][i] = Wire(n, i) /\ Gray[m][i] = Wire(m, i)
    BY GrayWire
  <2> QED  BY <2>1
<1>3. FIFO_DEPTH \in Nat /\ FIFO_DEPTH \in Wires
  BY DepthAssumption DEF Wires
<1>4. ASSUME NEW x \in Counts  PROVE Sh(x, FIFO_DEPTH) \in {0, 1}
  <2>1. x \in Nat
    BY Top DEF Counts
  <2>2. Sh(x, FIFO_DEPTH) \in Nat
    BY <1>3, <2>1, ShHalf
  <2>3. x < Depth \/ (x - Depth \in Nat /\ x - Depth < Depth /\ x = (x - Depth) + Depth * 1)
    BY <2>1, Top DEF Counts
  <2>4. ASSUME NEW y \in Nat, y < Depth  PROVE Sh(y, FIFO_DEPTH) = 0
    <3>1. Depth * 0 + y = y /\ y \in 0..(Depth - 1)
      BY <2>4, Top
    <3>2. (Depth * 0 + y) \div Depth = 0
      BY <3>1, Top, DivUnique
    <3> QED  BY <3>1, <3>2 DEF Sh, Depth
  <2>5. ASSUME NEW y \in Nat, y < Depth  PROVE Sh(y + Depth * 1, FIFO_DEPTH) = 1
    <3>1. Sh(y + 2^FIFO_DEPTH * 1, FIFO_DEPTH) = Sh(y, FIFO_DEPTH) + 1
      BY <1>3, ShAdd
    <3> QED  BY <3>1, <2>4, <2>5 DEF Depth
  <2> QED  BY <2>1, <2>3, <2>4, <2>5
<1>5. 0 \in S
  <2>1. Wire(n, FIFO_DEPTH) = Sh(n, FIFO_DEPTH) % 2 /\ Wire(m, FIFO_DEPTH) = Sh(m, FIFO_DEPTH) % 2
    BY <1>1, <1>3, WireOfSh
  <2>2. Sh(n, FIFO_DEPTH) % 2 = Sh(n, FIFO_DEPTH) /\ Sh(m, FIFO_DEPTH) % 2 = Sh(m, FIFO_DEPTH)
    BY <1>4
  <2> QED  BY <1>2, <1>3, <2>1, <2>2
<1>6. ASSUME NEW k \in S  PROVE k + 1 \in S
  <2>1. SUFFICES ASSUME k + 1 <= FIFO_DEPTH
                 PROVE  Sh(n, FIFO_DEPTH - (k + 1)) = Sh(m, FIFO_DEPTH - (k + 1))
    OBVIOUS
  <2> DEFINE i == FIFO_DEPTH - (k + 1)
  <2>2. i \in Nat /\ i \in Wires /\ i # FIFO_DEPTH /\ FIFO_DEPTH - k = i + 1
    BY <1>3, <2>1 DEF Wires
  <2>3. Sh(n, i + 1) = Sh(m, i + 1)
    BY <1>3, <2>1, <2>2
  <2> HIDE DEF i
  <2>4. /\ Sh(n, i) \in Nat /\ Sh(n, i + 1) = Sh(n, i) \div 2
        /\ Sh(m, i) \in Nat /\ Sh(m, i + 1) = Sh(m, i) \div 2
    BY <1>1, <2>2, ShHalf
  <2>5. ((Sh(n, i) % 2) + (Sh(n, i + 1) % 2)) % 2 = ((Sh(m, i) % 2) + (Sh(m, i + 1) % 2)) % 2
    BY <1>1, <1>2, <2>2, <2>4, WireOfSh
  <2>6. \A x, y, z \in Nat : ((x % 2) + (z % 2)) % 2 = ((y % 2) + (z % 2)) % 2 /\ x \div 2 = y \div 2
                               => x = y
    OBVIOUS
  <2>7. Sh(n, i + 1) \in Nat
    BY <1>1, <2>2, ShHalf
  <2> QED  BY <2>3, <2>4, <2>5, <2>6, <2>7 DEF i
<1>7. \A k \in Nat : k \in S
  <2>1. S \in SUBSET Nat
    OBVIOUS
  <2> HIDE DEF S
  <2> QED  BY <1>5, <1>6, <2>1, Upward
<1>8. Sh(n, 0) = Sh(m, 0)
  <2>1. FIFO_DEPTH - FIFO_DEPTH = 0 /\ FIFO_DEPTH \in S
    BY <1>3, <1>7
  <2> QED  BY <1>3, <2>1
<1> QED  BY <1>1, <1>8, ShZero

(* The writer compares with the pointer that is a whole FIFO ahead.        *)
Across(n) == IF n < Depth THEN n + Depth ELSE n - Depth

LEMMA GrayOpposite ==
  ASSUME NEW n \in Counts
  PROVE  Across(n) \in Counts /\ Opposite(Gray[n]) = Gray[Across(n)]
<1>1. n \in Nat /\ Across(n) \in Counts
  BY Top DEF Counts, Across
<1>2. ASSUME NEW i \in Wires
      PROVE  Wire(n + Depth, i) = IF i + 1 < FIFO_DEPTH THEN Wire(n, i) ELSE 1 - Wire(n, i)
  <2> DEFINE j == FIFO_DEPTH - i
             s == Sh(n, i)
  <2>1. i \in Nat /\ j \in Nat /\ FIFO_DEPTH = i + j /\ n + Depth \in Nat
    BY <1>1, Top, DepthAssumption DEF Wires
  <2>2. Depth = 2^i * 2^j /\ 2^j \in Nat
    <3> HIDE DEF j
    <3>1. 2^(i + j) = 2^i * 2^j /\ 2^j \in Nat
      BY <2>1, PowerSum, PowerSucc
    <3> QED  BY <2>1, <3>1 DEF Depth
  <2>3. s \in Nat /\ Sh(n + Depth, i) = s + 2^j
    BY <1>1, <2>1, <2>2, ShAdd
  <2>4. CASE i = FIFO_DEPTH
    <3>1. 2^j = 1
      BY <2>1, <2>4, PowerZero
    <3>2. (s + 1) % 2 = 1 - (s % 2)
      <4> HIDE DEF s
      <4> QED  BY <2>3
    <3> QED  BY <1>1, <2>1, <2>3, <2>4, <3>1, <3>2, WireOfSh
  <2>5. CASE i + 1 = FIFO_DEPTH
    <3>1. j = 0 + 1 /\ 2^j = 2
      <4>1. j = 0 + 1
        BY <2>1, <2>5
      <4>2. 2^(0 + 1) = 2
        BY PowerZero, PowerSucc
      <4> QED  BY <4>1, <4>2
    <3>2. (((s + 2) % 2) + (((s + 2) \div 2) % 2)) % 2 = 1 - (((s % 2) + ((s \div 2) % 2)) % 2)
      <4> HIDE DEF s
      <4> QED  BY <2>3
    <3>3. i # FIFO_DEPTH
      BY <2>1, <2>5
    <3> QED  BY <1>1, <2>1, <2>3, <2>5, <3>1, <3>2, <3>3, WireOfSh
  <2>6. CASE i + 1 < FIFO_DEPTH
    <3>1. j - 2 \in Nat /\ j = ((j - 2) + 1) + 1 /\ i # FIFO_DEPTH
      BY <2>1, <2>6
    <3>2. PICK k \in Nat : 2^j = 4 * k
      <4>1. 2^(j - 2) \in Nat /\ 2^((j - 2) + 1) = 2 * 2^(j - 2)
        BY <3>1, PowerSucc
      <4>2. 2^(((j - 2) + 1) + 1) = 2 * 2^((j - 2) + 1)
        BY <3>1, PowerSucc
      <4> QED  BY <3>1, <4>1, <4>2
    <3>3. (((s + 4 * k) % 2) + (((s + 4 * k) \div 2) % 2)) % 2 = ((s % 2) + ((s \div 2) % 2)) % 2
      <4> HIDE DEF s
      <4> QED  BY <2>3
    <3> QED  BY <1>1, <2>1, <2>3, <2>6, <3>1, <3>2, <3>3, WireOfSh
  <2> QED  BY <2>1, <2>4, <2>5, <2>6 DEF Wires
<1>3. ASSUME NEW i \in Wires  PROVE Wire(Across(n), i) = Wire(n + Depth, i)
  <2>1. CASE n < Depth
    BY <2>1 DEF Across
  <2>2. CASE ~(n < Depth)
    <3>1. n - Depth \in Nat /\ (n - Depth) + Turn = n + Depth
      BY <1>1, <2>2, Top
    <3>2. Wire((n - Depth) + Turn, i) = Wire(n - Depth, i)
      BY <3>1, WirePeriod
    <3> QED  BY <2>2, <3>1, <3>2 DEF Across
  <2> QED  BY <2>1, <2>2
<1>4. /\ Gray[n] = [i \in Wires |-> Wire(n, i)]
      /\ Gray[Across(n)] = [i \in Wires |-> Wire(Across(n), i)]
  BY <1>1, GrayWire
<1> QED  BY <1>1, <1>2, <1>3, <1>4 DEF Opposite

-------------------------------------------------------------------------------
(* The ring, unrolled: counts as positions on a line, which go round after *)
(* a turn.                                                                 *)
Norm(x) == IF x < Turn THEN x ELSE x - Turn

LEMMA NormCount ==
  ASSUME NEW x \in Nat, x < 2 * Turn
  PROVE  Norm(x) \in Counts /\ Norm(x) \in Nat
BY Top DEF Norm, Counts

LEMMA CountNorm ==
  ASSUME NEW x \in Counts
  PROVE  x \in Nat /\ x < Turn /\ Norm(x) = x
BY Top DEF Norm, Counts

LEMMA AheadNorm ==
  ASSUME NEW x \in Nat, NEW y \in Nat, x <= y, y < x + Turn, y < 2 * Turn
  PROVE  Ahead(Norm(x), Norm(y)) = y - x
BY Top DEF Norm, Ahead

LEMMA NormAhead ==
  ASSUME NEW x \in Nat, x < 2 * Turn, NEW y \in Counts, x + Ahead(Norm(x), y) < 2 * Turn
  PROVE  Ahead(Norm(x), y) \in Nat /\ Norm(x + Ahead(Norm(x), y)) = y
BY Top DEF Norm, Ahead, Counts

LEMMA NormSucc ==
  ASSUME NEW x \in Nat, x + 1 < 2 * Turn
  PROVE  Norm(x + 1) = Succ(Norm(x))
BY Top DEF Norm, Succ

LEMMA NormSame ==
  ASSUME NEW x \in Nat, NEW y \in Nat, x <= y, y < x + Turn, y < 2 * Turn, Norm(x) = Norm(y)
  PROVE  x = y
BY Top DEF Norm

LEMMA NormAcross ==
  ASSUME NEW x \in Nat, x + Depth < 2 * Turn
  PROVE  Across(Norm(x)) = Norm(x + Depth)
BY Top DEF Norm, Across

Chain(b, a, r, d, c, w) ==
  b <= a /\ a <= r /\ r <= d /\ d <= c /\ c <= w /\ w <= b + Depth /\ w < 2 * Turn

LEMMA RollUp ==
  ASSUME NEW b \in Nat, NEW a \in Nat, NEW r \in Nat, NEW d \in Nat, NEW c \in Nat, NEW w \in Nat,
         Chain(b, a, r, d, c, w)
  PROVE  /\ Norm(a) \in Counts /\ Norm(b) \in Counts /\ Norm(c) \in Counts
         /\ Norm(d) \in Counts /\ Norm(r) \in Counts /\ Norm(w) \in Counts
         /\ Ahead(Norm(b), Norm(a)) + Ahead(Norm(a), Norm(r)) + Ahead(Norm(r), Norm(d))
              + Ahead(Norm(d), Norm(c)) + Ahead(Norm(c), Norm(w)) = w - b
         /\ Norm(d) = Norm(r) => d = r
<1>1. /\ b <= a /\ a < b + Turn /\ a < 2 * Turn /\ b < 2 * Turn
      /\ a <= r /\ r < a + Turn /\ r < 2 * Turn
      /\ r <= d /\ d < r + Turn /\ d < 2 * Turn
      /\ d <= c /\ c < d + Turn /\ c < 2 * Turn
      /\ c <= w /\ w < c + Turn /\ w < 2 * Turn
  BY Top DEF Chain
<1>2. /\ Norm(a) \in Counts /\ Norm(b) \in Counts /\ Norm(c) \in Counts
      /\ Norm(d) \in Counts /\ Norm(r) \in Counts /\ Norm(w) \in Counts
  BY <1>1, NormCount
<1>3. Ahead(Norm(b), Norm(a)) = a - b /\ Ahead(Norm(a), Norm(r)) = r - a
  BY <1>1, AheadNorm
<1>4. Ahead(Norm(r), Norm(d)) = d - r /\ Ahead(Norm(d), Norm(c)) = c - d
  BY <1>1, AheadNorm
<1>5. Ahead(Norm(c), Norm(w)) = w - c
  BY <1>1, AheadNorm
<1>6. Norm(d) = Norm(r) => d = r
  BY <1>1, NormSame
<1> QED  BY <1>2, <1>3, <1>4, <1>5, <1>6

(* The state, unrolled. *)
RingAt(b, a, r, d, c, w) ==
  /\ Chain(b, a, r, d, c, w) /\ b < Turn
  /\ sync_r2w = <<Gray[Norm(a)], Gray[Norm(b)]>>
  /\ sync_w2r = <<Gray[Norm(c)], Gray[Norm(d)]>>
  /\ empty_status.bin = Norm(r) /\ full_status.bin = Norm(w)
  /\ W_FULL \/ w < b + Depth
  /\ R_EMPTY \/ r < d

LEMMA Unroll ==
  ASSUME TypeOK, PointersOK
  PROVE  \E b, a, r, d, c, w \in Nat : RingAt(b, a, r, d, c, w)
<1> DEFINE r0 == empty_status.bin
           w0 == full_status.bin
<1>1. r0 \in Counts /\ w0 \in Counts
  BY DEF TypeOK
<1> HIDE DEF r0, w0
<1>2. PICK a0, b0, c0, d0 \in Counts :
        /\ sync_r2w = <<Gray[a0], Gray[b0]>> /\ sync_w2r = <<Gray[c0], Gray[d0]>>
        /\ Ring(a0, b0, c0, d0) <= Depth
        /\ W_FULL \/ Ring(a0, b0, c0, d0) < Depth
        /\ R_EMPTY \/ d0 # r0
  BY DEF PointersOK, r0
<1> DEFINE a == b0 + Ahead(b0, a0)
           r == a + Ahead(a0, r0)
           d == r + Ahead(r0, d0)
           c == d + Ahead(d0, c0)
           w == c + Ahead(c0, w0)
<1>3. Ring(a0, b0, c0, d0) = Ahead(b0, a0) + Ahead(a0, r0) + Ahead(r0, d0)
                                + Ahead(d0, c0) + Ahead(c0, w0)
  BY DEF Ring, r0, w0
<1>4. ASSUME NEW x \in Counts, NEW y \in Counts
      PROVE  Ahead(x, y) \in Nat /\ (Ahead(x, y) = 0 => x = y)
  BY Top DEF Ahead, Counts
<1>5. /\ Ahead(b0, a0) \in Nat /\ Ahead(a0, r0) \in Nat /\ Ahead(r0, d0) \in Nat
      /\ Ahead(d0, c0) \in Nat /\ Ahead(c0, w0) \in Nat /\ (Ahead(r0, d0) = 0 => r0 = d0)
  BY <1>1, <1>4
<1>6. b0 \in Nat /\ b0 < Turn /\ Norm(b0) = b0 /\ Depth \in Nat /\ Turn = 2 * Depth
  BY CountNorm, Top
<1>7. /\ a \in Nat /\ r \in Nat /\ d \in Nat /\ c \in Nat /\ w \in Nat
      /\ Chain(b0, a, r, d, c, w)
      /\ W_FULL \/ w < b0 + Depth
      /\ R_EMPTY \/ r < d
  BY <1>2, <1>3, <1>5, <1>6 DEF Chain
<1>8. a < 2 * Turn /\ r < 2 * Turn /\ d < 2 * Turn /\ c < 2 * Turn /\ w < 2 * Turn
  BY <1>6, <1>7 DEF Chain
<1>9. Norm(a) = a0
  BY <1>6, <1>8, NormAhead
<1> HIDE DEF a
<1>10. Norm(r) = r0
  BY <1>1, <1>7, <1>8, <1>9, NormAhead
<1> HIDE DEF r
<1>11. Norm(d) = d0
  BY <1>7, <1>8, <1>10, NormAhead
<1> HIDE DEF d
<1>12. Norm(c) = c0
  BY <1>7, <1>8, <1>11, NormAhead
<1> HIDE DEF c
<1>13. Norm(w) = w0
  BY <1>1, <1>7, <1>8, <1>12, NormAhead
<1> HIDE DEF w
<1>14. RingAt(b0, a, r, d, c, w)
  BY <1>2, <1>6, <1>7, <1>9, <1>10, <1>11, <1>12, <1>13 DEF RingAt, r0, w0
<1> QED  BY <1>6, <1>7, <1>14

-------------------------------------------------------------------------------
(* The edges.                                                              *)

LEMMA BinNextSucc ==
  ASSUME NEW s, s.bin \in Counts, NEW en
  PROVE  BinNext(s, en) = IF Advanced(s, en) THEN Succ(s.bin) ELSE s.bin
<1>1. \A x \in Counts : (x + 1) % Turn = Succ(x) /\ (x + 0) % Turn = x
  <2>1. TAKE x \in Counts
  <2>2. x \in Nat /\ x < Turn /\ Turn \in Nat \ {0}
    BY CountNorm, Top
  <2>3. Turn * 1 + 0 = Turn /\ Turn \div Turn = 1 /\ Turn % Turn = 0
    <3>1. Turn = Turn * (Turn \div Turn) + (Turn % Turn) /\ Turn % Turn \in 0..(Turn - 1)
      BY <2>2
    <3>2. (Turn * 1 + 0) \div Turn = 1
      BY <2>2, DivUnique
    <3> QED  BY <2>2, <3>1, <3>2
  <2>4. ASSUME NEW y \in Nat, y < Turn  PROVE y % Turn = y
    <3>1. (Turn * 0 + y) \div Turn = 0
      BY <2>2, <2>4, DivUnique
    <3>2. Turn * 0 + y = y /\ y = Turn * (y \div Turn) + (y % Turn)
      BY <2>2, <2>4
    <3> QED  BY <2>2, <2>4, <3>1, <3>2
  <2>5. x + 1 = Turn \/ x + 1 < Turn
    BY <2>2
  <2> QED  BY <2>2, <2>3, <2>4, <2>5 DEF Succ
<1> QED  BY <1>1 DEF BinNext

LEMMA Constants ==
  /\ Gray[0] \in Codes /\ 0 \in Counts
  /\ \A n \in Counts : Gray[n] \in Codes
  /\ Status(FALSE) \in [bin : Counts, PTR : Codes, STATUS : BOOLEAN]
  /\ Status(TRUE) \in [bin : Counts, PTR : Codes, STATUS : BOOLEAN]
<1>1. 0 \in Counts
  BY Top DEF Counts
<1> QED  BY <1>1, GrayWire DEF Status

(* The two sides of the step of FiFo_Async_Status.                         *)
LEMMA StatusStep ==
  ASSUME NEW s \in [bin : Counts, PTR : Codes, STATUS : BOOLEAN], NEW en \in BOOLEAN, NEW cmp
  PROVE  /\ StatusNext(s, en, cmp) \in [bin : Counts, PTR : Codes, STATUS : BOOLEAN]
         /\ StatusNext(s, en, cmp).bin = (IF Advanced(s, en) THEN Succ(s.bin) ELSE s.bin)
         /\ StatusNext(s, en, cmp).PTR = Gray[StatusNext(s, en, cmp).bin]
         /\ StatusNext(s, en, cmp).STATUS = (Gray[StatusNext(s, en, cmp).bin] = cmp)
         /\ Advanced(s, en) => ~s.STATUS
<1>1. s.bin \in Counts
  OBVIOUS
<1>2. BinNext(s, en) = (IF Advanced(s, en) THEN Succ(s.bin) ELSE s.bin)
  BY <1>1, BinNextSucc
<1>3. BinNext(s, en) \in Counts /\ Gray[BinNext(s, en)] \in Codes
  BY <1>1, <1>2, GrayStep, Constants
<1> QED  BY <1>2, <1>3 DEF StatusNext, Advanced

StatusType == [bin : Counts, PTR : Codes, STATUS : BOOLEAN]

Reach(s, en, x, y) == y = IF Advanced(s, en) THEN x + 1 ELSE x

WriterAt(b, a, w, v, p) ==
  /\ v \in Nat /\ w <= v /\ v <= b + Depth /\ v < 2 * Turn
  /\ full_status' \in StatusType /\ full_status'.bin = Norm(v)
  /\ full_status'.PTR = Gray[Norm(v)]
  /\ full_status'.STATUS \/ v < b + Depth
  /\ sync_r2w' = <<p, Gray[Norm(a)]>>

ReaderAt(r, d, c, u, p) ==
  /\ u \in Nat /\ r <= u /\ u <= d
  /\ empty_status' \in StatusType /\ empty_status'.bin = Norm(u)
  /\ empty_status'.PTR = Gray[Norm(u)]
  /\ empty_status'.STATUS \/ u < d
  /\ sync_w2r' = <<p, Gray[Norm(c)]>>

(* An edge of W_CLK: the writer moves to v at most, a whole FIFO past the   *)
(* pointer that it compares with, and it is full if it gets there.          *)
LEMMA WriterMoves ==
  ASSUME TypeOK,
         NEW b \in Nat, NEW a \in Nat, NEW r \in Nat, NEW d \in Nat, NEW c \in Nat, NEW w \in Nat,
         RingAt(b, a, r, d, c, w),
         NEW en \in BOOLEAN, NEW x \in DATA, NEW p, WClock(en, x, p),
         NEW v \in Nat, Reach(full_status, en, w, v)
  PROVE  WriterAt(b, a, w, v, p)
<1>1. /\ b <= w /\ w <= b + Depth /\ b < Turn /\ Depth \in Nat /\ Turn = 2 * Depth
      /\ Chain(b, a, r, d, c, w)
  BY Top DEF RingAt, Chain
<1>2. Advanced(full_status, en) => w < b + Depth
  BY DEF RingAt, Advanced, W_FULL
<1>3. v \in Nat /\ w <= v /\ v <= b + Depth /\ v < 2 * Turn /\ b + Depth < 2 * Turn
  BY <1>1, <1>2 DEF Reach
<1>4. Norm(v) = IF Advanced(full_status, en) THEN Succ(Norm(w)) ELSE Norm(w)
  BY <1>3, NormSucc DEF Reach
<1>5. Norm(v) \in Counts /\ Norm(b) \in Counts /\ Norm(w) \in Counts
  BY <1>1, <1>3, NormCount, RollUp
<1>6. DOUT(sync_r2w) = Gray[Norm(b)] /\ sync_r2w[1] = Gray[Norm(a)]
  BY DEF RingAt, DOUT
<1> DEFINE cmp == Opposite(DOUT(sync_r2w))
<1>7. cmp = Gray[Norm(b + Depth)]
  BY <1>3, <1>5, <1>6, GrayOpposite, NormAcross
<1>8. full_status \in StatusType /\ full_status.bin = Norm(w)
  BY DEF TypeOK, StatusType, RingAt
<1>9. full_status' = StatusNext(full_status, en, cmp)
  BY DEF WClock
<1> HIDE DEF cmp
<1>10. /\ full_status' \in StatusType /\ full_status'.bin = Norm(v)
       /\ full_status'.PTR = Gray[Norm(v)]
       /\ full_status'.STATUS = (Gray[Norm(v)] = cmp)
  BY <1>4, <1>8, <1>9, StatusStep DEF StatusType
<1>11. full_status'.STATUS \/ v < b + Depth
  <2>1. CASE v = b + Depth
    BY <1>7, <1>10, <2>1
  <2>2. CASE v # b + Depth
    BY <1>1, <1>3, <2>2
  <2> QED  BY <2>1, <2>2
<1>12. sync_r2w' = <<p, Gray[Norm(a)]>>
  BY <1>6 DEF WClock, Piped
<1> QED  BY <1>3, <1>10, <1>11, <1>12 DEF WriterAt

(* An edge of R_CLK: the reader moves to u at most, the pointer that it     *)
(* compares with, and it is empty if it gets there.                         *)
LEMMA ReaderMoves ==
  ASSUME TypeOK,
         NEW b \in Nat, NEW a \in Nat, NEW r \in Nat, NEW d \in Nat, NEW c \in Nat, NEW w \in Nat,
         RingAt(b, a, r, d, c, w),
         NEW en \in BOOLEAN, NEW p, RClock(en, p),
         NEW u \in Nat, Reach(empty_status, en, r, u)
  PROVE  ReaderAt(r, d, c, u, p)
<1>1. /\ r <= d /\ d < 2 * Turn /\ Chain(b, a, r, d, c, w)
  BY Top DEF RingAt, Chain
<1>2. Advanced(empty_status, en) => r < d
  BY DEF RingAt, Advanced, R_EMPTY
<1>3. u \in Nat /\ r <= u /\ u <= d /\ u < 2 * Turn
  BY <1>1, <1>2, Top DEF Reach
<1>4. Norm(u) = IF Advanced(empty_status, en) THEN Succ(Norm(r)) ELSE Norm(r)
  BY <1>3, NormSucc DEF Reach
<1>5. Norm(u) \in Counts /\ Norm(r) \in Counts
  BY <1>1, <1>3, NormCount, RollUp
<1>6. DOUT(sync_w2r) = Gray[Norm(d)] /\ sync_w2r[1] = Gray[Norm(c)]
  BY DEF RingAt, DOUT
<1> DEFINE cmp == DOUT(sync_w2r)
<1>8. empty_status \in StatusType /\ empty_status.bin = Norm(r)
  BY DEF TypeOK, StatusType, RingAt
<1>9. empty_status' = StatusNext(empty_status, en, cmp)
  BY DEF RClock
<1> HIDE DEF cmp
<1>10. /\ empty_status' \in StatusType /\ empty_status'.bin = Norm(u)
       /\ empty_status'.PTR = Gray[Norm(u)]
       /\ empty_status'.STATUS = (Gray[Norm(u)] = cmp)
  BY <1>4, <1>8, <1>9, StatusStep DEF StatusType
<1>11. empty_status'.STATUS \/ u < d
  <2>1. CASE u = d
    BY <1>6, <1>10, <2>1 DEF cmp
  <2>2. CASE u # d
    BY <1>1, <1>3, <2>2
  <2> QED  BY <2>1, <2>2
<1>12. sync_w2r' = <<p, Gray[Norm(c)]>>
  BY <1>6 DEF RClock, Piped
<1> QED  BY <1>3, <1>10, <1>11, <1>12 DEF ReaderAt

(* Rolled up again, the next state keeps the invariant.                     *)
LEMMA RolledUp ==
  ASSUME NEW b \in Nat, NEW a \in Nat, NEW r \in Nat, NEW d \in Nat, NEW c \in Nat, NEW w \in Nat,
         Chain(b, a, r, d, c, w),
         sync_r2w' = <<Gray[Norm(a)], Gray[Norm(b)]>>,
         sync_w2r' = <<Gray[Norm(c)], Gray[Norm(d)]>>,
         empty_status'.bin = Norm(r), full_status'.bin = Norm(w),
         full_status'.STATUS \/ w < b + Depth,
         empty_status'.STATUS \/ r < d
  PROVE  /\ PointersOK'
         /\ sync_r2w' \in Codes \X Codes /\ sync_w2r' \in Codes \X Codes
<1> DEFINE R == Ahead(Norm(b), Norm(a)) + Ahead(Norm(a), Norm(r)) + Ahead(Norm(r), Norm(d))
                  + Ahead(Norm(d), Norm(c)) + Ahead(Norm(c), Norm(w))
<1>1. /\ Norm(a) \in Counts /\ Norm(b) \in Counts /\ Norm(c) \in Counts
      /\ Norm(d) \in Counts /\ Norm(r) \in Counts /\ Norm(w) \in Counts
      /\ R = w - b
      /\ Norm(d) = Norm(r) => d = r
  BY RollUp
<1>2. Ring(Norm(a), Norm(b), Norm(c), Norm(d))' = R
  BY DEF Ring
<1> HIDE DEF R
<1>3. R <= Depth /\ (w < b + Depth => R < Depth)
  BY <1>1, Top DEF Chain
<1>4. full_status'.STATUS \/ R < Depth
  BY <1>3
<1>5. empty_status'.STATUS \/ Norm(d) # empty_status'.bin
  BY <1>1
<1>6. PointersOK'
  BY <1>1, <1>2, <1>3, <1>4, <1>5 DEF PointersOK, W_FULL, R_EMPTY
<1> QED  BY <1>1, <1>6, Constants

LEMMA StoreType ==
  ASSUME TypeOK, NEW en \in BOOLEAN, NEW x \in DATA, Store(en, x)
  PROVE  mem' \in [Slots -> DATA]
BY DEF TypeOK, Store

LEMMA SlotOf ==
  ASSUME NEW n \in Counts
  PROVE  n % Depth \in Slots /\ n % Depth = IF n < Depth THEN n ELSE n - Depth
<1>1. n \in Nat /\ Depth \in Nat \ {0} /\ n < 2 * Depth
  BY CountNorm, Top
<1>2. n = Depth * (n \div Depth) + (n % Depth) /\ n % Depth \in 0..(Depth - 1)
  BY <1>1
<1>3. CASE n < Depth
  <2>1. (Depth * 0 + n) \div Depth = 0 /\ Depth * 0 + n = n
    BY <1>1, <1>3, DivUnique
  <2> QED  BY <1>1, <1>2, <1>3, <2>1 DEF Slots
<1>4. CASE ~(n < Depth)
  <2>1. (Depth * 1 + (n - Depth)) \div Depth = 1 /\ Depth * 1 + (n - Depth) = n
    BY <1>1, <1>4, DivUnique
  <2> QED  BY <1>1, <1>2, <1>4, <2>1 DEF Slots
<1> QED  BY <1>3, <1>4

LEMMA InitIInv == Init => IInv
<1> SUFFICES ASSUME Init PROVE IInv
  OBVIOUS
<1>1. TypeOK
  BY Constants DEF Init, TypeOK
<1>2. ResetOK
  BY DEF Init, ResetOK, Status
<1>3. PointersOK
  <2>1. Ring(0, 0, 0, 0) = 0
    BY DEF Ring, Ahead, Init, Status
  <2> QED  BY <2>1, Constants, Top DEF Init, PointersOK, Status, W_FULL, R_EMPTY
<1> QED  BY <1>1, <1>2, <1>3 DEF IInv

LEMMA WriteEdgeStep ==
  ASSUME IInv, WriteEdge
  PROVE  IInv'
<1>1. PICK en \in BOOLEAN, x \in DATA : WClock(en, x, empty_status.PTR)
  BY DEF WriteEdge
<1>2. TypeOK /\ ResetOK /\ UNCHANGED <<empty_status, sync_w2r, R_nRST, taken>>
  BY DEF IInv, WriteEdge, readSide
<1>3. PICK b, a, r, d, c, w \in Nat : RingAt(b, a, r, d, c, w)
  BY Unroll DEF IInv
<1>v. PICK v \in Nat : Reach(full_status, en, w, v)
  BY DEF Reach
<1>w. WriterAt(b, a, w, v, empty_status.PTR)
  BY <1>1, <1>2, <1>3, <1>v, WriterMoves
<1>4. /\ v \in Nat /\ w <= v /\ v <= b + Depth /\ v < 2 * Turn
      /\ full_status' \in StatusType /\ full_status'.bin = Norm(v)
      /\ full_status'.PTR = Gray[Norm(v)]
      /\ full_status'.STATUS \/ v < b + Depth
      /\ sync_r2w' = <<empty_status.PTR, Gray[Norm(a)]>>
  BY <1>w DEF WriterAt
<1>5. empty_status.PTR = Gray[Norm(r)] /\ empty_status.bin = Norm(r)
  BY <1>2, <1>3 DEF ResetOK, RingAt
<1>6. Chain(a, r, r, d, c, v) /\ (full_status'.STATUS \/ v < a + Depth)
  BY <1>3, <1>4, Top DEF RingAt, Chain
<1>7. PointersOK' /\ sync_r2w' \in Codes \X Codes /\ sync_w2r' \in Codes \X Codes
  <2>1. empty_status'.STATUS \/ r < d
    BY <1>2, <1>3 DEF RingAt, R_EMPTY
  <2>2. sync_w2r' = <<Gray[Norm(c)], Gray[Norm(d)]>>
    BY <1>2, <1>3 DEF RingAt
  <2> QED  BY <1>2, <1>4, <1>5, <1>6, <2>1, <2>2, RolledUp
<1>8. TypeOK'
  <2>1. mem' \in [Slots -> DATA]
    BY <1>1, <1>2, StoreType DEF WClock
  <2> QED  BY <1>1, <1>2, <1>4, <1>7, <2>1 DEF TypeOK, WClock, StatusType
<1>9. ResetOK'
  BY <1>1, <1>2, <1>4 DEF ResetOK, WClock, Status
<1> QED  BY <1>7, <1>8, <1>9 DEF IInv

LEMMA ReadEdgeStep ==
  ASSUME IInv, ReadEdge
  PROVE  IInv'
<1>1. PICK en \in BOOLEAN : RClock(en, full_status.PTR)
  BY DEF ReadEdge
<1>2. TypeOK /\ ResetOK /\ UNCHANGED <<full_status, sync_r2w, W_nRST, mem>>
  BY DEF IInv, ReadEdge, writeSide
<1>3. PICK b, a, r, d, c, w \in Nat : RingAt(b, a, r, d, c, w)
  BY Unroll DEF IInv
<1>u. PICK u \in Nat : Reach(empty_status, en, r, u)
  BY DEF Reach
<1>w. ReaderAt(r, d, c, u, full_status.PTR)
  BY <1>1, <1>2, <1>3, <1>u, ReaderMoves
<1>4. /\ u \in Nat /\ r <= u /\ u <= d
      /\ empty_status' \in StatusType /\ empty_status'.bin = Norm(u)
      /\ empty_status'.PTR = Gray[Norm(u)]
      /\ empty_status'.STATUS \/ u < d
      /\ sync_w2r' = <<full_status.PTR, Gray[Norm(c)]>>
  BY <1>w DEF ReaderAt
<1>5. full_status.PTR = Gray[Norm(w)] /\ full_status.bin = Norm(w)
  BY <1>2, <1>3 DEF ResetOK, RingAt
<1>6. Chain(b, a, u, c, w, w) /\ (empty_status'.STATUS \/ u < c)
  BY <1>3, <1>4 DEF RingAt, Chain
<1>7. PointersOK' /\ sync_r2w' \in Codes \X Codes /\ sync_w2r' \in Codes \X Codes
  <2>1. full_status'.STATUS \/ w < b + Depth
    BY <1>2, <1>3 DEF RingAt, W_FULL
  <2>2. sync_r2w' = <<Gray[Norm(a)], Gray[Norm(b)]>>
    BY <1>2, <1>3 DEF RingAt
  <2> QED  BY <1>2, <1>4, <1>5, <1>6, <2>1, <2>2, RolledUp
<1>8. TypeOK'
  <2>1. taken' \in DATA \cup {NoData}
    <3>1. Addr(empty_status) \in Slots
      BY <1>2, SlotOf DEF TypeOK, Addr
    <3> QED  BY <1>1, <1>2, <3>1 DEF RClock, TypeOK, R_DATA
  <2> QED  BY <1>1, <1>2, <1>4, <1>7, <2>1 DEF TypeOK, RClock, StatusType
<1>9. ResetOK'
  BY <1>1, <1>2, <1>4 DEF ResetOK, RClock, Status
<1> QED  BY <1>7, <1>8, <1>9 DEF IInv

(* Both at once: each side samples where the other is or is about to be.    *)
LEMMA BothEdgesStep ==
  ASSUME IInv, BothEdges
  PROVE  IInv' /\ Whole
<1>1. PICK w_en, r_en \in BOOLEAN, x \in DATA :
        \E p \in Caught(empty_status.PTR, Gray[BinNext(empty_status, r_en)]),
           q \in Caught(full_status.PTR, Gray[BinNext(full_status, w_en)]) :
          WClock(w_en, x, p) /\ RClock(r_en, q)
  BY DEF BothEdges
<1>2. PICK p \in Caught(empty_status.PTR, Gray[BinNext(empty_status, r_en)]),
           q \in Caught(full_status.PTR, Gray[BinNext(full_status, w_en)]) :
        WClock(w_en, x, p) /\ RClock(r_en, q)
  BY <1>1
<1>3. TypeOK /\ ResetOK
  BY DEF IInv
<1>4. PICK b, a, r, d, c, w \in Nat : RingAt(b, a, r, d, c, w)
  BY Unroll DEF IInv
<1>v. PICK v \in Nat : Reach(full_status, w_en, w, v)
  BY DEF Reach
<1>u. PICK u \in Nat : Reach(empty_status, r_en, r, u)
  BY DEF Reach
<1>w. WriterAt(b, a, w, v, p) /\ BinNext(full_status, w_en) = Norm(v)
  <2>1. WClock(w_en, x, p)
    BY <1>2
  <2>2. WriterAt(b, a, w, v, p)
    BY <1>3, <1>4, <1>v, <2>1, WriterMoves
  <2>3. BinNext(full_status, w_en) = Norm(v)
    BY <2>1, <2>2 DEF WriterAt, WClock, StatusNext
  <2> QED  BY <2>2, <2>3
<1>r. ReaderAt(r, d, c, u, q) /\ BinNext(empty_status, r_en) = Norm(u)
  <2>1. RClock(r_en, q)
    BY <1>2
  <2>2. ReaderAt(r, d, c, u, q)
    BY <1>3, <1>4, <1>u, <2>1, ReaderMoves
  <2>3. BinNext(empty_status, r_en) = Norm(u)
    BY <2>1, <2>2 DEF ReaderAt, RClock, StatusNext
  <2> QED  BY <2>2, <2>3
<1>5. /\ v \in Nat /\ w <= v /\ v <= b + Depth /\ v < 2 * Turn
      /\ full_status' \in StatusType /\ full_status'.bin = Norm(v)
      /\ full_status'.PTR = Gray[Norm(v)]
      /\ Gray[BinNext(full_status, w_en)] = Gray[Norm(v)]
      /\ full_status'.STATUS \/ v < b + Depth
      /\ sync_r2w' = <<p, Gray[Norm(a)]>>
  BY <1>w DEF WriterAt
<1>6. /\ u \in Nat /\ r <= u /\ u <= d
      /\ empty_status' \in StatusType /\ empty_status'.bin = Norm(u)
      /\ empty_status'.PTR = Gray[Norm(u)]
      /\ Gray[BinNext(empty_status, r_en)] = Gray[Norm(u)]
      /\ empty_status'.STATUS \/ u < d
      /\ sync_w2r' = <<q, Gray[Norm(c)]>>
  BY <1>r DEF ReaderAt
<1>7. /\ full_status.PTR = Gray[Norm(w)] /\ full_status.bin = Norm(w)
      /\ empty_status.PTR = Gray[Norm(r)] /\ empty_status.bin = Norm(r)
  BY <1>3, <1>4 DEF ResetOK, RingAt
<1>8. Chain(b, a, r, d, c, w)
  BY <1>4 DEF RingAt
<1>9. Norm(w) \in Counts /\ Norm(r) \in Counts
  BY <1>8, RollUp
<1>10. p = Gray[Norm(r)] \/ p = Gray[Norm(u)]
  <2>1. Norm(u) \in {Norm(r), Succ(Norm(r))}
    <3>1. r + 1 < 2 * Turn \/ u = r
      BY <1>u, <1>6, <1>8, Top DEF Chain, Reach
    <3> QED  BY <1>u, <3>1, NormSucc DEF Reach
  <2> QED  BY <1>2, <1>6, <1>7, <1>9, <2>1, CaughtWhole
<1>11. q = Gray[Norm(w)] \/ q = Gray[Norm(v)]
  <2>1. Norm(v) \in {Norm(w), Succ(Norm(w))}
    <3>1. w + 1 < 2 * Turn \/ v = w
      BY <1>v, <1>5, <1>8, Top DEF Chain, Reach
    <3> QED  BY <1>v, <3>1, NormSucc DEF Reach
  <2> QED  BY <1>2, <1>5, <1>7, <1>9, <2>1, CaughtWhole
<1>12. PICK a2 \in {r, u} : p = Gray[Norm(a2)]
  BY <1>10
<1>13. PICK c2 \in {w, v} : q = Gray[Norm(c2)]
  BY <1>11
<1>14. /\ a2 \in Nat /\ c2 \in Nat /\ Chain(a, a2, u, c, c2, v)
       /\ full_status'.STATUS \/ v < a + Depth
       /\ empty_status'.STATUS \/ u < c
  BY <1>5, <1>6, <1>8, Top DEF Chain
<1>15. PointersOK' /\ sync_r2w' \in Codes \X Codes /\ sync_w2r' \in Codes \X Codes
  BY <1>5, <1>6, <1>12, <1>13, <1>14, RolledUp
<1>16. TypeOK'
  <2>1. mem' \in [Slots -> DATA]
    BY <1>2, <1>3, StoreType DEF WClock
  <2>2. taken' \in DATA \cup {NoData}
    <3>1. Addr(empty_status) \in Slots
      BY <1>3, SlotOf DEF TypeOK, Addr
    <3> QED  BY <1>2, <1>3, <3>1 DEF RClock, TypeOK, R_DATA
  <2> QED  BY <1>2, <1>3, <1>5, <1>6, <1>15, <2>1, <2>2 DEF TypeOK, WClock, RClock, StatusType
<1>17. ResetOK'
  BY <1>2, <1>5, <1>6 DEF ResetOK, WClock, RClock
<1>18. Whole
  BY <1>5, <1>6, <1>7, <1>10, <1>11 DEF Whole
<1> QED  BY <1>15, <1>16, <1>17, <1>18 DEF IInv

LEMMA ResetStep ==
  ASSUME IInv, Reset
  PROVE  IInv'
<1>1. TypeOK'
  BY Constants DEF IInv, Reset, TypeOK
<1>2. ResetOK'
  BY DEF Reset, ResetOK, Status
<1>3. PointersOK'
  <2>1. Ring(0, 0, 0, 0)' = 0
    BY DEF Ring, Ahead, Reset, Status
  <2> QED  BY <2>1, Constants, Top DEF Reset, PointersOK, Status, W_FULL, R_EMPTY
<1> QED  BY <1>1, <1>2, <1>3 DEF IInv

(* The steps that move no pointer.                                          *)
LEMMA StillStep ==
  ASSUME IInv, HeldEdge \/ ReleaseW \/ ReleaseR \/ UNCHANGED vars
  PROVE  IInv'
<1>1. TypeOK /\ ResetOK /\ PointersOK
  BY DEF IInv
<1>2. UNCHANGED <<full_status, empty_status, sync_r2w, sync_w2r, taken>>
  BY DEF HeldEdge, ReleaseW, ReleaseR, vars, writeSide, readSide
<1>3. PointersOK'
  BY <1>1, <1>2 DEF PointersOK, Ring, W_FULL, R_EMPTY
<1>4. mem' \in [Slots -> DATA]
  BY <1>1, StoreType DEF HeldEdge, ReleaseW, ReleaseR, vars, TypeOK
<1>5. W_nRST' \in BOOLEAN /\ R_nRST' \in BOOLEAN /\ (W_nRST => W_nRST') /\ (R_nRST => R_nRST')
  BY <1>1 DEF HeldEdge, ReleaseW, ReleaseR, vars, writeSide, readSide, TypeOK
<1>6. TypeOK'
  BY <1>1, <1>2, <1>4, <1>5 DEF TypeOK
<1>7. ResetOK'
  BY <1>1, <1>2, <1>5 DEF ResetOK
<1> QED  BY <1>3, <1>6, <1>7 DEF IInv

LEMMA NextIInv ==
  ASSUME IInv, [Next]_vars
  PROVE  IInv'
BY WriteEdgeStep, ReadEdgeStep, BothEdgesStep, ResetStep, StillStep DEF Next

(* Every register keeps its type, and the pointers keep their order round   *)
(* the ring, whatever the two clocks do, through every reset (FiFo_Async.sv, *)
(* SyncPipe.sv).                                                            *)
THEOREM Invariance == Spec => []IInv
<1>1. IInv /\ [Next]_vars => IInv'
  BY NextIInv
<1> QED  BY <1>1, InitIInv, PTL DEF Spec

(* The slot of an accepted write is not the one being read: with the reader *)
(* not empty and the writer not full, they are neither at the same count    *)
(* nor a whole FIFO apart.                                                  *)
THEOREM FifoSlotsApart == Spec => []SlotsApart
<1>1. IInv => SlotsApart
  <2>1. SUFFICES ASSUME IInv, ~W_FULL, ~R_EMPTY
                 PROVE  Addr(full_status) # Addr(empty_status)
    BY DEF SlotsApart
  <2>2. PICK b, a, r, d, c, w \in Nat : RingAt(b, a, r, d, c, w)
    BY <2>1, Unroll DEF IInv
  <2>3. /\ full_status.bin = Norm(w) /\ empty_status.bin = Norm(r)
        /\ r < w /\ w < r + Depth /\ w < 2 * Turn
    BY <2>1, <2>2, Top DEF RingAt, Chain
  <2>4. Norm(w) \in Counts /\ Norm(r) \in Counts
    BY <2>3, Top, NormCount
  <2>5. /\ Norm(w) % Depth = IF Norm(w) < Depth THEN Norm(w) ELSE Norm(w) - Depth
        /\ Norm(r) % Depth = IF Norm(r) < Depth THEN Norm(r) ELSE Norm(r) - Depth
    BY <2>4, SlotOf
  <2>6. Norm(w) % Depth # Norm(r) % Depth
    BY <2>3, <2>4, <2>5, Top DEF Norm, Counts
  <2> QED  BY <2>3, <2>6 DEF Addr
<1> QED  BY <1>1, Invariance, PTL

(* A pointer is never seen half changed by the other clock (SyncPipe.sv).   *)
THEOREM FifoSamplesWhole == Spec => SamplesWhole
<1>1. IInv /\ [Next]_vars => Whole
  <2> SUFFICES ASSUME IInv, [Next]_vars  PROVE Whole
    OBVIOUS
  <2>1. CASE WriteEdge
    BY <2>1 DEF WriteEdge, WClock, Piped, Whole, readSide
  <2>2. CASE ReadEdge
    BY <2>2 DEF ReadEdge, RClock, Piped, Whole, writeSide
  <2>3. CASE BothEdges
    BY <2>3, BothEdgesStep
  <2>4. CASE Reset
    BY <2>4 DEF Reset, Status, Whole
  <2>5. CASE HeldEdge \/ ReleaseW \/ ReleaseR \/ UNCHANGED vars
    BY <2>5 DEF HeldEdge, ReleaseW, ReleaseR, vars, writeSide, readSide, Whole
  <2> QED  BY <2>1, <2>2, <2>3, <2>4, <2>5 DEF Next
<1>2. IInv /\ [Next]_vars => [Whole]_vars
  BY <1>1
<1> QED  BY <1>2, Invariance, PTL DEF Spec, SamplesWhole

-------------------------------------------------------------------------------
(* The slots between the reader at r and the writer at w.                  *)
Window(m, r, w) == [k \in 1..(w - r) |-> m[(r + k - 1) % Depth]]

LEMMA SlotIsNat ==
  ASSUME NEW x \in Nat
  PROVE  x % Depth \in Slots /\ (x + Depth) % Depth = x % Depth
<1> DEFINE q == x \div Depth
           e == x % Depth
<1>1. Depth \in Nat \ {0}
  BY Top
<1>2. q \in Nat /\ e \in 0..(Depth - 1) /\ x = Depth * q + e
  <2>1. q \in Nat
    BY ShAdd, DepthAssumption DEF Sh, Depth
  <2> QED  BY <1>1, <2>1
<1> HIDE DEF q, e
<1>3. q + 1 \in Nat /\ x + Depth = Depth * (q + 1) + e
  BY <1>1, <1>2
<1>4. (x + Depth) \div Depth = q + 1
  BY <1>1, <1>2, <1>3, DivUnique
<1>5. x + Depth \in Nat
  BY <1>1
<1>6. x + Depth = Depth * ((x + Depth) \div Depth) + ((x + Depth) % Depth)
  BY <1>1, <1>5
<1>7. (x + Depth) % Depth \in 0..(Depth - 1)
  BY <1>1, <1>5
<1>8. (x + Depth) % Depth = e
  BY <1>1, <1>2, <1>3, <1>4, <1>6, <1>7
<1> QED  BY <1>2, <1>8 DEF Slots, e

(* Less than a FIFO apart, two positions are not in the same slot.         *)
LEMMA SlotsDiffer ==
  ASSUME NEW x \in Nat, NEW y \in Nat, x < y, y < x + Depth
  PROVE  x % Depth # y % Depth
<1>1. Depth \in Nat \ {0}
  BY Top
<1> DEFINE q == x \div Depth
           e == x % Depth
<1>2. q \in Nat /\ e \in 0..(Depth - 1) /\ x = Depth * q + e
  <2>1. q \in Nat
    BY ShAdd, DepthAssumption DEF Sh, Depth
  <2> QED  BY <1>1, <2>1
<1> DEFINE z == y - x
<1>3. z \in Nat /\ z # 0 /\ z < Depth /\ y = x + z
  BY <1>1
<1> HIDE DEF q, e, z
<1>4. y % Depth \in 0..(Depth - 1) /\ y = Depth * (y \div Depth) + (y % Depth)
  BY <1>1
<1>5. CASE e + z < Depth
  <2>1. y = Depth * q + (e + z) /\ e + z \in 0..(Depth - 1)
    BY <1>1, <1>2, <1>3, <1>5
  <2>2. y \div Depth = q
    BY <1>1, <1>2, <2>1, DivUnique
  <2>3. y % Depth = e + z
    BY <1>1, <1>2, <1>3, <1>4, <2>1, <2>2
  <2> QED  BY <1>2, <1>3, <2>3 DEF e
<1>6. CASE ~(e + z < Depth)
  <2>1. /\ q + 1 \in Nat /\ y = Depth * (q + 1) + (e + z - Depth)
        /\ e + z - Depth \in 0..(Depth - 1)
    BY <1>1, <1>2, <1>3, <1>6
  <2>2. y \div Depth = q + 1
    BY <1>1, <1>2, <2>1, DivUnique
  <2>3. y % Depth = e + z - Depth
    BY <1>1, <1>2, <1>3, <1>4, <2>1, <2>2
  <2> QED  BY <1>1, <1>2, <1>3, <2>3 DEF e
<1> QED  BY <1>5, <1>6

LEMMA NormSlot ==
  ASSUME NEW x \in Nat, x < 2 * Turn, NEW k \in Nat
  PROVE  (Norm(x) + k) % Depth = (x + k) % Depth
<1>1. CASE x < Turn
  BY <1>1 DEF Norm
<1>2. CASE ~(x < Turn)
  <2> DEFINE y == Norm(x) + k
  <2>1. y \in Nat /\ y + Depth \in Nat /\ x + k = (y + Depth) + Depth
    BY <1>2, Top DEF Norm
  <2> HIDE DEF y
  <2>2. ((y + Depth) + Depth) % Depth = (y + Depth) % Depth /\ (y + Depth) % Depth = y % Depth
    BY <2>1, SlotIsNat
  <2> QED  BY <2>1, <2>2 DEF y
<1> QED  BY <1>1, <1>2

LEMMA WindowSeq ==
  ASSUME NEW m \in [Slots -> DATA], NEW r \in Nat, NEW w \in Nat, r <= w
  PROVE  /\ Window(m, r, w) \in Seq(DATA) /\ Len(Window(m, r, w)) = w - r
         /\ \A k \in 1..(w - r) : Window(m, r, w)[k] = m[(r + k - 1) % Depth]
<1> DEFINE n == w - r
<1>1. n \in Nat
  OBVIOUS
<1>2. \A k \in 1..n : m[(r + k - 1) % Depth] \in DATA
  <2>1. TAKE k \in 1..n
  <2>2. r + k - 1 \in Nat
    OBVIOUS
  <2>3. (r + k - 1) % Depth \in Slots
    BY <2>2, SlotIsNat
  <2> QED  BY <2>3
<1> HIDE DEF n
<1>3. Window(m, r, w) = [k \in 1..n |-> m[(r + k - 1) % Depth]]
  BY DEF Window, n
<1>4. Window(m, r, w) \in [1..n -> DATA]
  BY <1>2, <1>3
<1>5. Window(m, r, w) \in Seq(DATA)
  BY <1>1, <1>4
<1>6. Len(Window(m, r, w)) = n
  <2>1. DOMAIN Window(m, r, w) = 1..n
    BY <1>4
  <2> QED  BY <1>1, <1>5, <2>1
<1> QED  BY <1>3, <1>5, <1>6 DEF n

Written(m, m2, z, x) == m2[z] = x /\ \A y \in Slots : y # z => m2[y] = m[y]

(* Writing at w puts an item at the end, reading at r takes the first.     *)
LEMMA WindowPut ==
  ASSUME NEW m \in [Slots -> DATA], NEW r \in Nat, NEW w \in Nat, r <= w, w < r + Depth,
         NEW x \in DATA, NEW m2 \in [Slots -> DATA],
         Written(m, m2, w % Depth, x)
  PROVE  Window(m2, r, w + 1) = Append(Window(m, r, w), x)
<1> DEFINE n == w - r
           s == Window(m, r, w)
           t == Window(m2, r, w + 1)
<1>1. w % Depth \in Slots
  BY SlotIsNat
<1>2. n \in Nat /\ (w + 1) - r = n + 1 /\ w + 1 \in Nat /\ r <= w + 1
  OBVIOUS
<1>3. s \in Seq(DATA) /\ Len(s) = n /\ \A k \in 1..n : s[k] = m[(r + k - 1) % Depth]
  BY WindowSeq
<1>4. t \in Seq(DATA) /\ Len(t) = n + 1 /\ \A k \in 1..(n + 1) : t[k] = m2[(r + k - 1) % Depth]
  <2>1. /\ t \in Seq(DATA) /\ Len(t) = (w + 1) - r
        /\ \A k \in 1..((w + 1) - r) : t[k] = m2[(r + k - 1) % Depth]
    BY <1>2, WindowSeq
  <2> HIDE DEF t, n
  <2> QED  BY <1>2, <2>1
<1>5. ASSUME NEW k \in 1..n  PROVE t[k] = s[k]
  <2>1. r + k - 1 \in Nat /\ r + k - 1 < w /\ w < (r + k - 1) + Depth
    BY Top
  <2>2. (r + k - 1) % Depth # w % Depth /\ (r + k - 1) % Depth \in Slots
    BY <2>1, SlotsDiffer, SlotIsNat
  <2>3. m2[(r + k - 1) % Depth] = m[(r + k - 1) % Depth]
    BY <2>2 DEF Written
  <2>4. k \in 1..(n + 1)
    BY <1>2
  <2> HIDE DEF s, t
  <2> QED  BY <1>3, <1>4, <2>3, <2>4
<1>6. t[n + 1] = x
  <2>1. r + (n + 1) - 1 = w /\ n + 1 \in 1..(n + 1)
    BY <1>2
  <2>2. m2[w % Depth] = x
    BY <1>1 DEF Written
  <2>3. t[n + 1] = m2[(r + (n + 1) - 1) % Depth]
    BY <1>4, <2>1
  <2> QED  BY <2>1, <2>2, <2>3
<1> HIDE DEF s, t
<1>7. /\ Append(s, x) \in Seq(DATA) /\ Len(Append(s, x)) = n + 1
      /\ \A k \in 1..n : Append(s, x)[k] = s[k]
      /\ Append(s, x)[n + 1] = x
  BY <1>3, AppendProperties
<1>8. \A k \in 1..Len(t) : t[k] = Append(s, x)[k]
  <2>1. \A k \in 1..(n + 1) : k \in 1..n \/ k = n + 1
    BY <1>2
  <2> QED  BY <1>4, <1>5, <1>6, <1>7, <2>1
<1>9. t = Append(s, x)
  BY <1>4, <1>7, <1>8, SeqEqual
<1> QED  BY <1>9 DEF s, t

LEMMA WindowTake ==
  ASSUME NEW m \in [Slots -> DATA], NEW r \in Nat, NEW w \in Nat, r < w
  PROVE  /\ Window(m, r, w) # << >>
         /\ Window(m, r + 1, w) = Tail(Window(m, r, w))
         /\ m[r % Depth] = Head(Window(m, r, w))
<1> DEFINE n == w - r
           s == Window(m, r, w)
           t == Window(m, r + 1, w)
<1>1. n \in Nat \ {0} /\ w - (r + 1) = n - 1 /\ r + 1 \in Nat /\ r + 1 <= w /\ r <= w
  OBVIOUS
<1>2. s \in Seq(DATA) /\ Len(s) = n /\ \A k \in 1..n : s[k] = m[(r + k - 1) % Depth]
  BY <1>1, WindowSeq
<1>3. t \in Seq(DATA) /\ Len(t) = n - 1 /\ \A k \in 1..(n - 1) : t[k] = m[((r + 1) + k - 1) % Depth]
  <2>1. /\ t \in Seq(DATA) /\ Len(t) = w - (r + 1)
        /\ \A k \in 1..(w - (r + 1)) : t[k] = m[((r + 1) + k - 1) % Depth]
    BY <1>1, WindowSeq
  <2> HIDE DEF t, n
  <2> QED  BY <1>1, <2>1
<1> HIDE DEF n, s, t
<1>4. s # << >>
  BY <1>1, <1>2, EmptySeq
<1>5. Head(s) = s[1] /\ s[1] = m[r % Depth]
  <2>1. 1 \in 1..n /\ r + 1 - 1 = r
    BY <1>1
  <2>2. s[1] = m[(r + 1 - 1) % Depth]
    BY <1>2, <2>1
  <2> QED  BY <1>2, <1>4, <2>1, <2>2
<1>6. /\ Tail(s) \in Seq(DATA) /\ Len(Tail(s)) = n - 1
      /\ \A k \in 1..(n - 1) : Tail(s)[k] = s[k + 1]
  BY <1>2, <1>4, HeadTailProperties
<1>7. ASSUME NEW k \in 1..Len(t)  PROVE t[k] = Tail(s)[k]
  <2>1. k \in 1..(n - 1) /\ k + 1 \in 1..n /\ (r + 1) + k - 1 = r + (k + 1) - 1
    BY <1>1, <1>3
  <2> QED  BY <1>2, <1>3, <1>6, <2>1
<1>8. t = Tail(s)
  BY <1>3, <1>6, <1>7, SeqEqual
<1> QED  BY <1>4, <1>5, <1>8 DEF s, t

LEMMA TailAppend ==
  ASSUME NEW s \in Seq(DATA), s # << >>, NEW x \in DATA
  PROVE  Tail(Append(s, x)) = Append(Tail(s), x) /\ Head(Append(s, x)) = Head(s)
<1> DEFINE n == Len(s)
           a == Append(s, x)
<1>1. n \in Nat \ {0}
  BY EmptySeq
<1>2. /\ a \in Seq(DATA) /\ a # << >> /\ Len(a) = n + 1
      /\ \A k \in 1..n : a[k] = s[k]
      /\ a[n + 1] = x
  BY AppendProperties
<1>3. /\ Tail(s) \in Seq(DATA) /\ Len(Tail(s)) = n - 1
      /\ \A k \in 1..(n - 1) : Tail(s)[k] = s[k + 1]
  BY HeadTailProperties
<1> HIDE DEF a, n
<1>4. /\ Tail(a) \in Seq(DATA) /\ Len(Tail(a)) = n
      /\ \A k \in 1..n : Tail(a)[k] = a[k + 1]
  <2>1. (n + 1) - 1 = n
    BY <1>1
  <2>2. /\ Tail(a) \in Seq(DATA) /\ Len(Tail(a)) = Len(a) - 1
        /\ \A k \in 1..Len(Tail(a)) : Tail(a)[k] = a[k + 1]
    BY <1>2, HeadTailProperties
  <2> QED  BY <1>2, <2>1, <2>2
<1>5. /\ Append(Tail(s), x) \in Seq(DATA) /\ Len(Append(Tail(s), x)) = n
      /\ \A k \in 1..(n - 1) : Append(Tail(s), x)[k] = Tail(s)[k]
      /\ Append(Tail(s), x)[n] = x
  <2>1. (n - 1) + 1 = n
    BY <1>1
  <2>2. /\ Append(Tail(s), x) \in Seq(DATA) /\ Len(Append(Tail(s), x)) = Len(Tail(s)) + 1
        /\ \A k \in 1..Len(Tail(s)) : Append(Tail(s), x)[k] = Tail(s)[k]
        /\ Append(Tail(s), x)[Len(Tail(s)) + 1] = x
    BY <1>3, AppendProperties
  <2> QED  BY <1>3, <2>1, <2>2
<1>6. ASSUME NEW k \in 1..n  PROVE Tail(a)[k] = Append(Tail(s), x)[k]
  <2>1. CASE k = n
    BY <1>1, <1>2, <1>4, <1>5, <2>1
  <2>2. CASE k # n
    <3>1. k \in 1..(n - 1) /\ k + 1 \in 1..n
      BY <1>1, <2>2
    <3> QED  BY <1>2, <1>3, <1>4, <1>5, <3>1
  <2> QED  BY <2>1, <2>2
<1>7. Tail(a) = Append(Tail(s), x)
  BY <1>4, <1>5, <1>6, SeqEqual
<1>8. Head(a) = Head(s)
  <2>1. 1 \in 1..n
    BY <1>1
  <2> QED  BY <1>2, <2>1
<1> QED  BY <1>7, <1>8 DEF a

-------------------------------------------------------------------------------
(* The queue that the state stands for.                                    *)

(* Rolled up or not, the items are those of the window.                    *)
LEMMA WindowNorm ==
  ASSUME NEW r \in Nat, NEW w \in Nat, r <= w, w <= r + Depth, w < 2 * Turn, NEW m
  PROVE  /\ Ahead(Norm(r), Norm(w)) = w - r
         /\ [k \in 1..Ahead(Norm(r), Norm(w)) |-> m[(Norm(r) + k - 1) % Depth]] = Window(m, r, w)
<1>1. Ahead(Norm(r), Norm(w)) = w - r
  BY Top, AheadNorm
<1>2. ASSUME NEW k \in 1..(w - r)  PROVE (Norm(r) + k - 1) % Depth = (r + k - 1) % Depth
  <2>1. k - 1 \in Nat /\ r < 2 * Turn /\ Norm(r) \in Nat
    BY Top, NormCount
  <2>2. (Norm(r) + (k - 1)) % Depth = (r + (k - 1)) % Depth
    BY <2>1, NormSlot
  <2>3. Norm(r) + k - 1 = Norm(r) + (k - 1) /\ r + k - 1 = r + (k - 1)
    BY <2>1
  <2> QED  BY <2>2, <2>3
<1> QED  BY <1>1, <1>2 DEF Window

(* What the state stands for, and what the next one does.                   *)
LEMMA ItemsNow ==
  ASSUME NEW b \in Nat, NEW a \in Nat, NEW r \in Nat, NEW d \in Nat, NEW c \in Nat, NEW w \in Nat,
         RingAt(b, a, r, d, c, w)
  PROVE  Items = Window(mem, r, w) /\ Stored = w - r /\ r <= w /\ w <= r + Depth /\ r < 2 * Turn
<1>1. /\ r <= w /\ w <= r + Depth /\ w < 2 * Turn /\ r < 2 * Turn
      /\ empty_status.bin = Norm(r) /\ full_status.bin = Norm(w)
  BY Top DEF RingAt, Chain
<1> QED  BY <1>1, WindowNorm DEF Items, Stored

LEMMA ItemsNext ==
  ASSUME NEW r \in Nat, NEW w \in Nat, r <= w, w <= r + Depth, w < 2 * Turn,
         empty_status'.bin = Norm(r), full_status'.bin = Norm(w)
  PROVE  Items' = Window(mem', r, w)
<1>1. (Items)' = [k \in 1..Ahead(Norm(r), Norm(w)) |-> mem'[(Norm(r) + k - 1) % Depth]]
  BY DEF Items, Stored
<1> QED  BY <1>1, WindowNorm

Wrote(r, w, v, x) ==
  /\ mem' \in [Slots -> DATA]
  /\ \/ v = w /\ Window(mem', r, v) = Items
     \/ /\ v = w + 1 /\ Len(Items) < Depth
        /\ Window(mem', r, v) = Append(Items, x)

Granted(r, w, u) ==
  \/ u = r /\ taken' = taken
  \/ u = r + 1 /\ r < w /\ Items # << >> /\ taken' = Head(Items)

(* An accepted write appends, and changes nothing else in the window.       *)
LEMMA WriteItems ==
  ASSUME TypeOK,
         NEW b \in Nat, NEW a \in Nat, NEW r \in Nat, NEW d \in Nat, NEW c \in Nat, NEW w \in Nat,
         RingAt(b, a, r, d, c, w),
         NEW en \in BOOLEAN, NEW x \in DATA, Store(en, x),
         NEW v \in Nat, Reach(full_status, en, w, v)
  PROVE  Wrote(r, w, v, x)
<1>1. /\ Items = Window(mem, r, w) /\ r <= w /\ w < 2 * Turn
      /\ full_status.bin = Norm(w) /\ b <= r /\ (W_FULL \/ w < b + Depth)
  <2>1. Items = Window(mem, r, w) /\ r <= w
    BY ItemsNow
  <2> QED  BY <2>1 DEF RingAt, Chain
<1>2. mem \in [Slots -> DATA] /\ mem' \in [Slots -> DATA]
  BY StoreType DEF TypeOK
<1>3. CASE Advanced(full_status, en)
  <2>1. v = w + 1 /\ w < r + Depth
    BY <1>1, <1>3, Top DEF Advanced, W_FULL, Reach
  <2>2. Addr(full_status) = w % Depth
    <3>1. (Norm(w) + 0) % Depth = (w + 0) % Depth
      BY <1>1, NormSlot
    <3>2. Norm(w) + 0 = Norm(w) /\ w + 0 = w
      BY <1>1, NormCount
    <3> QED  BY <1>1, <3>1, <3>2 DEF Addr
  <2>3. mem' = [mem EXCEPT ![w % Depth] = x]
    BY <1>3, <2>2 DEF Store, Advanced, W_FULL
  <2>4. Window(mem', r, w + 1) = Append(Window(mem, r, w), x)
    <3>1. Written(mem, mem', w % Depth, x)
      BY <1>2, <2>3, SlotIsNat DEF Written
    <3> QED  BY <1>1, <1>2, <2>1, <3>1, WindowPut
  <2>5. Len(Items) < Depth
    <3>1. Len(Window(mem, r, w)) = w - r
      BY <1>1, <1>2, WindowSeq
    <3> QED  BY <1>1, <2>1, <3>1, Top
  <2> QED  BY <1>1, <1>2, <2>1, <2>4, <2>5 DEF Wrote
<1>4. CASE ~Advanced(full_status, en)
  BY <1>1, <1>2, <1>4 DEF Store, Advanced, W_FULL, Reach, Wrote
<1> QED  BY <1>3, <1>4

(* A read that is granted takes the first item.                             *)
LEMMA ReadItem ==
  ASSUME TypeOK,
         NEW b \in Nat, NEW a \in Nat, NEW r \in Nat, NEW d \in Nat, NEW c \in Nat, NEW w \in Nat,
         RingAt(b, a, r, d, c, w),
         NEW en \in BOOLEAN, NEW p, RClock(en, p),
         NEW u \in Nat, Reach(empty_status, en, r, u)
  PROVE  Granted(r, w, u)
<1>1. /\ Items = Window(mem, r, w) /\ r <= w /\ r < 2 * Turn
      /\ empty_status.bin = Norm(r) /\ d <= w /\ (R_EMPTY \/ r < d)
  <2>1. Items = Window(mem, r, w) /\ r <= w /\ r < 2 * Turn
    BY ItemsNow
  <2> QED  BY <2>1 DEF RingAt, Chain
<1>2. CASE Advanced(empty_status, en)
  <2>1. u = r + 1 /\ r < w
    BY <1>1, <1>2 DEF Advanced, R_EMPTY, Reach
  <2>2. R_DATA = mem[r % Depth]
    <3>1. (Norm(r) + 0) % Depth = (r + 0) % Depth
      BY <1>1, NormSlot
    <3>2. Norm(r) + 0 = Norm(r) /\ r + 0 = r
      BY <1>1, NormCount
    <3> QED  BY <1>1, <3>1, <3>2 DEF Addr, R_DATA
  <2>3. mem[r % Depth] = Head(Items) /\ Items # << >>
    BY <1>1, <2>1, WindowTake DEF TypeOK
  <2>4. taken' = R_DATA
    BY <1>2 DEF RClock
  <2> QED  BY <2>1, <2>2, <2>3, <2>4 DEF Granted
<1>3. CASE ~Advanced(empty_status, en)
  BY <1>3 DEF RClock, Reach, Granted
<1> QED  BY <1>2, <1>3

LEMMA ItemsSeq ==
  ASSUME IInv
  PROVE  Items \in Seq(DATA)
<1>1. PICK b, a, r, d, c, w \in Nat : RingAt(b, a, r, d, c, w)
  BY Unroll DEF IInv
<1>2. mem \in [Slots -> DATA]
  BY DEF IInv, TypeOK
<1>3. Items = Window(mem, r, w) /\ r <= w
  BY <1>1, ItemsNow
<1> QED  BY <1>2, <1>3, WindowSeq

LEMMA WriteEdgeQueue ==
  ASSUME IInv, WriteEdge
  PROVE  (\E x \in DATA : Queue!Put(x)) \/ UNCHANGED <<Items, taken>>
<1>1. PICK en \in BOOLEAN, x \in DATA : WClock(en, x, empty_status.PTR)
  BY DEF WriteEdge
<1>2. TypeOK /\ UNCHANGED <<empty_status, taken>>
  BY DEF IInv, WriteEdge, readSide
<1>3. PICK b, a, r, d, c, w \in Nat : RingAt(b, a, r, d, c, w)
  BY Unroll DEF IInv
<1>v. PICK v \in Nat : Reach(full_status, en, w, v)
  BY DEF Reach
<1>w. WriterAt(b, a, w, v, empty_status.PTR)
  BY <1>1, <1>2, <1>3, <1>v, WriterMoves
<1>4. Wrote(r, w, v, x)
  <2>1. Store(en, x)
    BY <1>1 DEF WClock
  <2> QED  BY <1>2, <1>3, <1>v, <2>1, WriteItems
<1>5. Items' = Window(mem', r, v)
  <2>1. /\ r <= v /\ v <= r + Depth /\ v < 2 * Turn
        /\ empty_status'.bin = Norm(r) /\ full_status'.bin = Norm(v)
    BY <1>2, <1>3, <1>w, Top DEF RingAt, Chain, WriterAt
  <2> QED  BY <2>1, ItemsNext
<1> QED  BY <1>2, <1>4, <1>5 DEF Queue!Put, Wrote

LEMMA ReadEdgeQueue ==
  ASSUME IInv, ReadEdge
  PROVE  Queue!Take \/ UNCHANGED <<Items, taken>>
<1>1. PICK en \in BOOLEAN : RClock(en, full_status.PTR)
  BY DEF ReadEdge
<1>2. TypeOK /\ UNCHANGED <<full_status, mem>> /\ mem \in [Slots -> DATA]
  BY DEF IInv, ReadEdge, writeSide, TypeOK
<1>3. PICK b, a, r, d, c, w \in Nat : RingAt(b, a, r, d, c, w)
  BY Unroll DEF IInv
<1>u. PICK u \in Nat : Reach(empty_status, en, r, u)
  BY DEF Reach
<1>w. ReaderAt(r, d, c, u, full_status.PTR)
  BY <1>1, <1>2, <1>3, <1>u, ReaderMoves
<1>4. Granted(r, w, u)
  BY <1>1, <1>2, <1>3, <1>u, ReadItem
<1>5. Items' = Window(mem, u, w) /\ Items = Window(mem, r, w)
  <2>1. /\ u <= w /\ w <= u + Depth /\ w < 2 * Turn
        /\ empty_status'.bin = Norm(u) /\ full_status'.bin = Norm(w)
    BY <1>2, <1>3, <1>w, Top DEF RingAt, Chain, ReaderAt
  <2>2. Items' = Window(mem', u, w)
    BY <2>1, ItemsNext
  <2> QED  BY <1>2, <1>3, <2>2, ItemsNow
<1>6. CASE u = r /\ taken' = taken
  BY <1>5, <1>6
<1>7. CASE u = r + 1 /\ r < w /\ Items # << >> /\ taken' = Head(Items)
  <2>1. Window(mem, r + 1, w) = Tail(Window(mem, r, w))
    BY <1>2, <1>7, WindowTake
  <2> QED  BY <1>5, <1>7, <2>1 DEF Queue!Take
<1> QED  BY <1>4, <1>6, <1>7 DEF Granted

LEMMA BothEdgesQueue ==
  ASSUME IInv, BothEdges
  PROVE  \/ \E x \in DATA : Queue!Put(x) \/ Queue!PutTake(x)
         \/ Queue!Take \/ UNCHANGED <<Items, taken>>
<1>1. PICK w_en, r_en \in BOOLEAN, x \in DATA :
        \E p \in Caught(empty_status.PTR, Gray[BinNext(empty_status, r_en)]),
           q \in Caught(full_status.PTR, Gray[BinNext(full_status, w_en)]) :
          WClock(w_en, x, p) /\ RClock(r_en, q)
  BY DEF BothEdges
<1>2. PICK p \in Caught(empty_status.PTR, Gray[BinNext(empty_status, r_en)]),
           q \in Caught(full_status.PTR, Gray[BinNext(full_status, w_en)]) :
        WClock(w_en, x, p) /\ RClock(r_en, q)
  BY <1>1
<1>3. TypeOK
  BY DEF IInv
<1>4. PICK b, a, r, d, c, w \in Nat : RingAt(b, a, r, d, c, w)
  BY Unroll DEF IInv
<1>v. PICK v \in Nat : Reach(full_status, w_en, w, v)
  BY DEF Reach
<1>u. PICK u \in Nat : Reach(empty_status, r_en, r, u)
  BY DEF Reach
<1>w. WriterAt(b, a, w, v, p)
  <2>1. WClock(w_en, x, p)
    BY <1>2
  <2> QED  BY <1>3, <1>4, <1>v, <2>1, WriterMoves
<1>r. ReaderAt(r, d, c, u, q)
  <2>1. RClock(r_en, q)
    BY <1>2
  <2> QED  BY <1>3, <1>4, <1>u, <2>1, ReaderMoves
<1>5. Wrote(r, w, v, x)
  <2>1. Store(w_en, x)
    BY <1>2 DEF WClock
  <2> QED  BY <1>3, <1>4, <1>v, <2>1, WriteItems
<1>6. Granted(r, w, u)
  BY <1>2, <1>3, <1>4, <1>u, ReadItem
<1>7. Items' = Window(mem', u, v) /\ r <= v /\ w <= v
  <2>1. /\ u <= v /\ v <= u + Depth /\ v < 2 * Turn /\ r <= v /\ w <= v
        /\ empty_status'.bin = Norm(u) /\ full_status'.bin = Norm(v)
    BY <1>4, <1>w, <1>r, Top DEF RingAt, Chain, ReaderAt, WriterAt
  <2> QED  BY <2>1, ItemsNext
<1>8. Items \in Seq(DATA)
  BY ItemsSeq
<1>9. CASE u = r /\ taken' = taken
  BY <1>5, <1>7, <1>9 DEF Queue!Put, Wrote
<1>10. CASE u = r + 1 /\ r < w /\ Items # << >> /\ taken' = Head(Items)
  <2>1. r < v
    BY <1>7, <1>10
  <2>2. Window(mem', r + 1, v) = Tail(Window(mem', r, v))
    BY <1>5, <2>1, WindowTake DEF Wrote
  <2>3. Tail(Append(Items, x)) = Append(Tail(Items), x)
    BY <1>8, <1>10, TailAppend
  <2> QED  BY <1>5, <1>7, <1>10, <2>2, <2>3 DEF Queue!Take, Queue!PutTake, Wrote
<1> QED  BY <1>6, <1>9, <1>10 DEF Granted

(* Under reset the FIFO is empty, whatever its memory holds.                *)
LEMMA EmptyItems ==
  /\ Stored = 0 => Items = << >>
  /\ Stored' = 0 => Items' = << >>
BY DEF Items

LEMMA HeldEmpty ==
  ASSUME IInv, ~W_nRST
  PROVE  Stored = 0
<1>1. PICK b, a, r, d, c, w \in Nat : RingAt(b, a, r, d, c, w)
  BY Unroll DEF IInv
<1>2. full_status.bin = 0 /\ sync_r2w = <<Gray[0], Gray[0]>>
  BY DEF IInv, ResetOK, Status
<1>3. Chain(b, a, r, d, c, w) /\ b < Turn /\ Norm(w) = 0 /\ Gray[Norm(b)] = Gray[0]
  BY <1>1, <1>2 DEF RingAt
<1>4. Norm(b) \in Counts /\ 0 \in Counts /\ Norm(b) = b
  BY <1>3, RollUp, Constants DEF Norm
<1>5. b = 0
  BY <1>3, <1>4, GrayInjective
<1>6. w = 0
  BY <1>3, <1>5, Top DEF Chain, Norm
<1>7. r = 0
  BY <1>3, <1>6 DEF Chain
<1> QED  BY <1>1, <1>6, <1>7, ItemsNow

LEMMA OtherQueue ==
  ASSUME IInv, HeldEdge \/ Reset \/ ReleaseW \/ ReleaseR \/ UNCHANGED vars
  PROVE  Queue!Clear \/ UNCHANGED <<Items, taken>>
<1>1. CASE HeldEdge
  <2>1. Stored = 0 /\ Stored' = Stored /\ taken' = taken
    BY <1>1, HeldEmpty DEF HeldEdge, writeSide, readSide, Stored
  <2> QED  BY <2>1, EmptyItems
<1>2. CASE Reset
  <2>1. Stored' = 0 /\ taken' = taken
    BY <1>2 DEF Reset, Status, Stored, Ahead
  <2> QED  BY <2>1, EmptyItems DEF Queue!Clear
<1>3. CASE ReleaseW \/ ReleaseR \/ UNCHANGED vars
  BY <1>3 DEF ReleaseW, ReleaseR, vars, writeSide, readSide, Items, Stored
<1> QED  BY <1>1, <1>2, <1>3

(* FiFo_Async is a queue: every item that is accepted comes out once, in    *)
(* order, and a reset empties it, for every depth and every data            *)
(* (FiFo_Async.sv).                                                         *)
THEOREM FifoImplementsQueue == Spec => ImplementsQueue
<1>1. Init => Queue!QueueInit
  <2> SUFFICES ASSUME Init PROVE Queue!QueueInit
    OBVIOUS
  <2>1. Stored = 0 /\ taken = NoData
    BY DEF Init, Status, Stored, Ahead
  <2> QED  BY <2>1, EmptyItems DEF Queue!QueueInit
<1>2. IInv /\ [Next]_vars => [Queue!QueueNext]_(Queue!queueVars)
  <2> SUFFICES ASSUME IInv, [Next]_vars
               PROVE  Queue!QueueNext \/ UNCHANGED <<Items, taken>>
    BY DEF Queue!queueVars
  <2>1. CASE WriteEdge
    BY <2>1, WriteEdgeQueue DEF Queue!QueueNext
  <2>2. CASE ReadEdge
    BY <2>2, ReadEdgeQueue DEF Queue!QueueNext
  <2>3. CASE BothEdges
    BY <2>3, BothEdgesQueue DEF Queue!QueueNext
  <2>4. CASE HeldEdge \/ Reset \/ ReleaseW \/ ReleaseR \/ UNCHANGED vars
    BY <2>4, OtherQueue DEF Queue!QueueNext
  <2> QED  BY <2>1, <2>2, <2>3, <2>4 DEF Next
<1> QED  BY <1>1, <1>2, Invariance, PTL DEF Spec, ImplementsQueue, Queue!QueueSpec

================================================================================
