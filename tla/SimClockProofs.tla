---------------------------- MODULE SimClockProofs ----------------------------
(***************************************************************************)
(* Proofs about SimClock: for any set of clocks, any parameters and any    *)
(* width of the counters, no edge is missed and no counter wraps.          *)
(***************************************************************************)
EXTENDS SimClock, FiniteSetTheorems, TLAPS

(* Subtracting no more than what is left does not wrap.                     *)
LEMMA ModSmall ==
  ASSUME NEW x \in Nat, W \in Nat, x < W
  PROVE  x % W = x
BY SMT

(* What one Tok, or one Refresh, does to the table of the clocks.           *)
LEMMA ProcessClocks ==
  ASSUME NEW k \in Tables, NEW on \in SUBSET Clocks, NEW elapsed \in 0 .. W - 1,
         \A c \in on : elapsed <= k[c].left,
         Process(k, on, elapsed)
  PROVE  /\ clock' \in Tables
         /\ m_dwElapsedTime' \in 1 .. W - 1
         /\ \A c \in on :
              /\ m_dwElapsedTime' <= clock'[c].left
              /\ clock'[c].left = IF k[c].left = elapsed THEN k[c].period
                                  ELSE k[c].left - elapsed
              /\ clock'[c].next = IF k[c].left = elapsed THEN 1 - k[c].next
                                  ELSE k[c].next
         /\ \A c \in Clocks : clock'[c].reset_polarity = k[c].reset_polarity
<1> USE ClockAssumption
<1> DEFINE Rec == [period : 1 .. W - 1, left : 0 .. W - 1, next : Bit,
                   clock_polarity : Bit, reset_polarity : Bit]
<1>1. \A c \in on : Left(k, c, elapsed) = k[c].left - elapsed
  <2> TAKE c \in on
  <2>1. k[c] \in Rec
    BY DEF Tables
  <2>2. k[c].left - elapsed \in Nat /\ k[c].left - elapsed < W
    BY <2>1
  <2> QED
    BY <2>2, ModSmall DEF Left
<1>2. \A c \in on : /\ Processed(k, c, elapsed) \in Rec
                    /\ Processed(k, c, elapsed).left > 0
                    /\ Processed(k, c, elapsed).left =
                         IF k[c].left = elapsed THEN k[c].period
                         ELSE k[c].left - elapsed
                    /\ Processed(k, c, elapsed).next =
                         IF k[c].left = elapsed THEN 1 - k[c].next
                         ELSE k[c].next
                    /\ Processed(k, c, elapsed).reset_polarity =
                         k[c].reset_polarity
  <2> TAKE c \in on
  <2>1. k[c] \in Rec
    BY DEF Tables
  <2>2. Toggles(k, c, elapsed) <=> k[c].left = elapsed
    BY <1>1, <2>1 DEF Toggles
  <2>3. CASE k[c].left = elapsed
    <3>1. Processed(k, c, elapsed) =
            [k[c] EXCEPT !.left = k[c].period, !.next = 1 - k[c].next]
      BY <2>2, <2>3 DEF Processed
    <3>2. k[c].period \in 1 .. W - 1 /\ 1 - k[c].next \in Bit
      BY <2>1 DEF Bit
    <3>3. /\ Processed(k, c, elapsed).left = k[c].period
          /\ Processed(k, c, elapsed).next = 1 - k[c].next
          /\ Processed(k, c, elapsed).reset_polarity = k[c].reset_polarity
      BY <2>1, <3>1
    <3>4. Processed(k, c, elapsed) \in Rec
      <4>1. [k[c] EXCEPT !.left = k[c].period] \in Rec
        BY <2>1, <3>2
      <4>2. [[k[c] EXCEPT !.left = k[c].period] EXCEPT !.next = 1 - k[c].next] \in Rec
        BY <3>2, <4>1
      <4>3. Processed(k, c, elapsed) =
              [[k[c] EXCEPT !.left = k[c].period] EXCEPT !.next = 1 - k[c].next]
        BY <2>1, <3>1
      <4> QED
        BY <4>2, <4>3
    <3>5. Processed(k, c, elapsed).left > 0
      BY <3>2, <3>3
    <3> HIDE DEF Rec
    <3> QED
      BY <2>3, <3>3, <3>4, <3>5
  <2>4. CASE k[c].left # elapsed
    <3>1. Processed(k, c, elapsed) = [k[c] EXCEPT !.left = k[c].left - elapsed]
      BY <1>1, <2>2, <2>4 DEF Processed
    <3>2. k[c].left - elapsed \in 1 .. W - 1
      BY <2>1, <2>4
    <3> QED
      BY <2>1, <2>4, <3>1, <3>2
  <2> QED
    BY <2>3, <2>4
<1>3. clock' = [c \in Clocks |-> IF c \in on THEN Processed(k, c, elapsed) ELSE k[c]]
  BY DEF Process
<1>4. clock' \in Tables
  <2>1. \A c \in Clocks : k[c] \in Rec
    BY DEF Tables
  <2> QED
    BY <1>2, <1>3, <2>1 DEF Tables
<1>5. CASE on = {}
  BY <1>3, <1>4, <1>5 DEF Process
<1>6. CASE on # {}
  <2>1. PICK c \in on :
          /\ m_dwElapsedTime' = Processed(k, c, elapsed).left
          /\ \A d \in on : m_dwElapsedTime' <= Processed(k, d, elapsed).left
    BY <1>6 DEF Process
  <2>2. m_dwElapsedTime' \in 1 .. W - 1
    BY <1>2, <2>1
  <2> QED
    BY <1>2, <1>3, <1>4, <2>1, <2>2
<1> QED
  BY <1>5, <1>6

(* What it does to the resets.                                              *)
LEMMA ProcessResets ==
  ASSUME NEW k \in Tables, NEW on \in SUBSET Clocks, NEW elapsed \in 0 .. W - 1,
         TypeOK, Process(k, on, elapsed)
  PROVE  /\ m_pReset' \in [Clocks -> Resets]
         /\ iResetInstCount' \in Int
         /\ pRST' \in [Clocks -> Bit]
         /\ \A c \in Clocks : m_pReset'[c].on => m_pReset[c].on
         /\ \A c \in Clocks : m_pReset'[c].on =>
              /\ m_pReset'[c].cycles > 0 => m_pReset[c].cycles > 0 /\ pRST'[c] = pRST[c]
              /\ m_pReset'[c].cycles = 0 =>
                   pRST'[c] = IF m_pReset[c].cycles > 0 THEN 1 - pRST[c] ELSE pRST[c]
<1> USE ClockAssumption
<1> DEFINE S == Cycling(k, on, elapsed)
           E == {c \in S : ~ DoCycle(m_pReset[c]).on}
<1>1. /\ m_pReset' = [c \in Clocks |-> IF c \in S THEN DoCycle(m_pReset[c])
                                                   ELSE m_pReset[c]]
      /\ pRST' = [c \in Clocks |-> IF c \in S /\ m_pReset[c].cycles = 1
                                     THEN 1 - pRST[c] ELSE pRST[c]]
      /\ iResetInstCount' = iResetInstCount - Cardinality(E)
  BY DEF Process
<1>2. \A c \in Clocks : m_pReset[c] \in Resets /\ pRST[c] \in Bit
  BY DEF TypeOK
<1>3. \A c \in Clocks : c \in S => m_pReset[c].on
  BY DEF Cycling
<1>4. \A r \in Resets : /\ DoCycle(r) \in Resets
                        /\ r.cycles > 0 => /\ DoCycle(r).on = r.on
                                           /\ DoCycle(r).cycles = r.cycles - 1
                        /\ r.cycles = 0 => DoCycle(r).cycles = 0
  <2> TAKE r \in Resets
  <2>1. CASE r.cycles > 0
    <3>1. DoCycle(r) = [r EXCEPT !.cycles = r.cycles - 1]
      BY <2>1 DEF DoCycle
    <3> QED
      BY <2>1, <3>1 DEF Resets
  <2>2. CASE r.cycles = 0 /\ r.life > 0
    <3>1. DoCycle(r) = [r EXCEPT !.life = r.life - 1]
      BY <2>2 DEF DoCycle
    <3> QED
      BY <2>2, <3>1 DEF Resets
  <2>3. CASE r.cycles = 0 /\ r.life = 0
    <3>1. DoCycle(r) = NoReset
      BY <2>3 DEF DoCycle
    <3> QED
      BY <2>3, <3>1 DEF Resets, NoReset
  <2> QED
    BY <2>1, <2>2, <2>3 DEF Resets
<1>5. iResetInstCount' \in Int
  <2>1. E \subseteq Clocks
    BY DEF Cycling
  <2>2. IsFiniteSet(E)
    BY <2>1, FS_Subset
  <2> QED
    BY <1>1, <2>2, FS_CardinalityType DEF TypeOK
<1>6. m_pReset' \in [Clocks -> Resets]
  BY <1>1, <1>2, <1>4
<1>7. pRST' \in [Clocks -> Bit]
  BY <1>1, <1>2 DEF Bit
<1>8. ASSUME NEW c \in Clocks, m_pReset'[c].on
      PROVE  /\ m_pReset[c].on
             /\ m_pReset'[c].cycles > 0 => m_pReset[c].cycles > 0 /\ pRST'[c] = pRST[c]
             /\ m_pReset'[c].cycles = 0 =>
                  pRST'[c] = IF m_pReset[c].cycles > 0 THEN 1 - pRST[c] ELSE pRST[c]
  <2>1. m_pReset[c] \in Resets
    BY <1>2
  <2>2. CASE c \in S
    <3>1. m_pReset'[c] = DoCycle(m_pReset[c])
      BY <1>1, <2>2
    <3>2. pRST'[c] = IF m_pReset[c].cycles = 1 THEN 1 - pRST[c] ELSE pRST[c]
      BY <1>1, <2>2
    <3>3. m_pReset[c].cycles \in Nat
      BY <2>1 DEF Resets
    <3> QED
      BY <1>3, <1>4, <2>1, <2>2, <3>1, <3>2, <3>3
  <2>3. CASE c \notin S
    <3>1. m_pReset'[c] = m_pReset[c] /\ pRST'[c] = pRST[c]
      BY <1>1, <2>3
    <3>2. m_pReset[c].cycles \in Nat
      BY <2>1 DEF Resets
    <3> QED
      BY <1>8, <3>1, <3>2
  <2> QED
    BY <2>2, <2>3
<1> QED
  BY <1>5, <1>6, <1>7, <1>8

-------------------------------------------------------------------------------
(* The invariant at the start: there is no clock.                           *)
LEMMA InitInv == Init => IInv
BY ClockAssumption
   DEF Init, IInv, TypeOK, LeftIsDue, ResetPin, Tables, Resets, NewClock,
       NoReset, Bit

(* One step of each kind.  The steps that count time go through Process.    *)
LEMMA TokInv == IInv /\ Tok => IInv'
<1> SUFFICES ASSUME IInv, Tok PROVE IInv'
  OBVIOUS
<1> USE ClockAssumption
<1>1. TypeOK /\ LeftIsDue /\ ResetPin
  BY DEF IInv
<1>2. Process(clock, alive, m_dwElapsedTime) /\ alive' = alive
  BY DEF Tok
<1>3. /\ clock \in Tables
      /\ alive \in SUBSET Clocks
      /\ m_dwElapsedTime \in 0 .. W - 1
      /\ \A c \in alive : m_dwElapsedTime <= clock[c].left
  BY <1>1 DEF TypeOK, LeftIsDue
<1>4. /\ clock' \in Tables
      /\ m_dwElapsedTime' \in 1 .. W - 1
      /\ \A c \in alive :
           /\ m_dwElapsedTime' <= clock'[c].left
           /\ clock'[c].left = IF clock[c].left = m_dwElapsedTime
                                 THEN clock[c].period
                                 ELSE clock[c].left - m_dwElapsedTime
           /\ clock'[c].next = IF clock[c].left = m_dwElapsedTime
                                 THEN 1 - clock[c].next ELSE clock[c].next
      /\ \A c \in Clocks : clock'[c].reset_polarity = clock[c].reset_polarity
  BY <1>2, <1>3, ProcessClocks, Zenon
<1>5. /\ m_pReset' \in [Clocks -> Resets]
      /\ iResetInstCount' \in Int
      /\ pRST' \in [Clocks -> Bit]
      /\ \A c \in Clocks : m_pReset'[c].on => m_pReset[c].on
      /\ \A c \in Clocks : m_pReset'[c].on =>
           /\ m_pReset'[c].cycles > 0 =>
                m_pReset[c].cycles > 0 /\ pRST'[c] = pRST[c]
           /\ m_pReset'[c].cycles = 0 =>
                pRST'[c] = IF m_pReset[c].cycles > 0 THEN 1 - pRST[c] ELSE pRST[c]
  BY <1>1, <1>2, <1>3, ProcessResets, Zenon
<1>6. due' \in [Clocks -> Int]
  <2>1. \A c \in Clocks : clock[c].period \in Int /\ due[c] \in Int
    BY <1>1, <1>3 DEF TypeOK, Tables
  <2> QED
    BY <1>3, <2>1 DEF Tok
<1>7. TypeOK'
  BY <1>1, <1>2, <1>4, <1>5, <1>6 DEF TypeOK, Tok
<1>8. LeftIsDue'
  <2> SUFFICES ASSUME NEW c \in alive
               PROVE  /\ clock'[c].left = due'[c]
                      /\ 0 < m_dwElapsedTime' /\ m_dwElapsedTime' <= due'[c]
    BY <1>2 DEF LeftIsDue
  <2>1. clock[c].left = due[c] /\ c \in Clocks
    BY <1>1, <1>3 DEF LeftIsDue
  <2>2. due'[c] = IF due[c] = m_dwElapsedTime THEN clock[c].period
                  ELSE due[c] - m_dwElapsedTime
    BY <2>1 DEF Tok
  <2> QED
    BY <1>4, <2>1, <2>2
<1>9. ResetPin'
  <2> SUFFICES ASSUME NEW c \in alive, m_pReset'[c].on
               PROVE  pRST'[c] = IF m_pReset'[c].cycles > 0
                                   THEN clock'[c].reset_polarity
                                   ELSE 1 - clock'[c].reset_polarity
    BY <1>2 DEF ResetPin
  <2>1. c \in Clocks /\ m_pReset[c].on
    BY <1>3, <1>5
  <2>2. pRST[c] = IF m_pReset[c].cycles > 0 THEN clock[c].reset_polarity
                                            ELSE 1 - clock[c].reset_polarity
    BY <1>1, <2>1 DEF ResetPin
  <2>3. clock'[c].reset_polarity = clock[c].reset_polarity
    BY <1>4, <2>1
  <2>4. m_pReset'[c].cycles \in Nat /\ clock[c].reset_polarity \in Bit
    BY <1>3, <1>5, <2>1 DEF Resets, Tables
  <2> QED
    BY <1>5, <2>1, <2>2, <2>3, <2>4 DEF Bit
<1> QED
  BY <1>2, <1>5, <1>7, <1>8, <1>9 DEF IInv

(* Create and SetParameters put a clock in the table and refresh it: a      *)
(* clock that has no reset, so that the pins stay right.                    *)
LEMMA RefreshInv ==
  ASSUME IInv, NEW c \in Clocks, ~ m_pReset[c].on,
         NEW rec, [clock EXCEPT ![c] = rec] \in Tables,
         Refresh([clock EXCEPT ![c] = rec], alive \cup {c}),
         alive' = alive \cup {c},
         NEW d \in Int, due' = [due EXCEPT ![c] = d],
         d = IF rec.left = 0 THEN rec.period ELSE rec.left,
         turn' \in {"tik", "eval", "tok"},
         pCLK' \in [Clocks -> Bit]
  PROVE  IInv'
<1> USE ClockAssumption
<1> DEFINE k == [clock EXCEPT ![c] = rec]
           on == alive \cup {c}
<1>1. TypeOK /\ LeftIsDue /\ ResetPin
  BY DEF IInv
<1>2. /\ clock \in Tables /\ on \in SUBSET Clocks /\ 0 \in 0 .. W - 1
      /\ k[c] = rec
      /\ \A b \in Clocks \ {c} : k[b] = clock[b]
  BY <1>1 DEF TypeOK, Tables
<1>3. \A b \in on : 0 <= k[b].left
  BY <1>2 DEF Tables
<1>4. Process(k, on, 0)
  BY DEF Refresh
<1> HIDE DEF k
<1>5. k \in Tables
  BY DEF k
<1> HIDE DEF on
<1>6. /\ clock' \in Tables
      /\ m_dwElapsedTime' \in 1 .. W - 1
      /\ \A b \in on :
           /\ m_dwElapsedTime' <= clock'[b].left
           /\ clock'[b].left = IF k[b].left = 0 THEN k[b].period ELSE k[b].left - 0
           /\ clock'[b].next = IF k[b].left = 0 THEN 1 - k[b].next ELSE k[b].next
      /\ \A b \in Clocks : clock'[b].reset_polarity = k[b].reset_polarity
  BY <1>2, <1>3, <1>4, <1>5, ProcessClocks, Zenon
<1>7. /\ m_pReset' \in [Clocks -> Resets]
      /\ iResetInstCount' \in Int
      /\ pRST' \in [Clocks -> Bit]
      /\ \A b \in Clocks : m_pReset'[b].on => m_pReset[b].on
      /\ \A b \in Clocks : m_pReset'[b].on =>
           /\ m_pReset'[b].cycles > 0 =>
                m_pReset[b].cycles > 0 /\ pRST'[b] = pRST[b]
           /\ m_pReset'[b].cycles = 0 =>
                pRST'[b] = IF m_pReset[b].cycles > 0 THEN 1 - pRST[b] ELSE pRST[b]
  BY <1>1, <1>2, <1>4, <1>5, ProcessResets, Zenon
<1>8. due' \in [Clocks -> Int]
  BY <1>1 DEF TypeOK
<1>9. TypeOK'
  BY <1>2, <1>6, <1>7, <1>8 DEF TypeOK, on
<1>10. LeftIsDue'
  <2> SUFFICES ASSUME NEW b \in on
               PROVE  /\ clock'[b].left = due'[b]
                      /\ 0 < m_dwElapsedTime' /\ m_dwElapsedTime' <= due'[b]
    BY DEF LeftIsDue, on
  <2>1. b \in Clocks
    BY <1>2
  <2>2. CASE b = c
    <3>1. due'[b] = d
      BY <1>1, <2>2 DEF TypeOK
    <3>2. k[b].left \in Nat
      BY <1>5, <2>1 DEF Tables
    <3> QED
      BY <1>2, <1>6, <2>2, <3>1, <3>2
  <2>3. CASE b # c
    <3>1. b \in alive /\ due'[b] = due[b] /\ k[b] = clock[b]
      BY <1>1, <1>2, <2>1, <2>3 DEF TypeOK, on
    <3>2. clock[b].left = due[b] /\ due[b] > 0 /\ due[b] \in Int
      BY <1>1, <2>1, <3>1 DEF LeftIsDue, TypeOK
    <3> QED
      BY <1>6, <3>1, <3>2
  <2> QED
    BY <2>2, <2>3
<1>11. ResetPin'
  <2> SUFFICES ASSUME NEW b \in on, m_pReset'[b].on
               PROVE  pRST'[b] = IF m_pReset'[b].cycles > 0
                                   THEN clock'[b].reset_polarity
                                   ELSE 1 - clock'[b].reset_polarity
    BY DEF ResetPin, on
  <2>1. b \in alive /\ b \in Clocks /\ b # c /\ m_pReset[b].on
    BY <1>2, <1>7 DEF on
  <2>2. pRST[b] = IF m_pReset[b].cycles > 0 THEN clock[b].reset_polarity
                                            ELSE 1 - clock[b].reset_polarity
    BY <1>1, <2>1 DEF ResetPin
  <2>3. clock'[b].reset_polarity = clock[b].reset_polarity
    BY <1>2, <1>6, <2>1
  <2>4. m_pReset'[b].cycles \in Nat /\ clock[b].reset_polarity \in Bit
    BY <1>2, <1>7, <2>1 DEF Resets, Tables
  <2> QED
    BY <1>7, <2>1, <2>2, <2>3, <2>4 DEF Bit
<1>12. \A b \in Clocks \ alive' : ~ m_pReset'[b].on
  BY <1>7 DEF IInv
<1> QED
  BY <1>9, <1>10, <1>11, <1>12 DEF IInv
LEMMA CreateInv ==
  ASSUME IInv, NEW c \in Clocks, Create(c)
  PROVE  IInv'
<1> USE ClockAssumption
<1>1. ~ m_pReset[c].on
  BY DEF IInv, Create
<1>2. [clock EXCEPT ![c] = NewClock] \in Tables
  BY DEF IInv, TypeOK, Tables, NewClock, Bit
<1>3. /\ Refresh([clock EXCEPT ![c] = NewClock], alive \cup {c})
      /\ alive' = alive \cup {c}
      /\ due' = [due EXCEPT ![c] = DefaultPeriod]
      /\ turn' \in {"tik", "eval", "tok"}
      /\ pCLK' \in [Clocks -> Bit]
  BY DEF Create, IInv, TypeOK
<1>4. DefaultPeriod = IF NewClock.left = 0 THEN NewClock.period ELSE NewClock.left
  BY DEF NewClock
<1>5. DefaultPeriod \in Int
  OBVIOUS
<1> QED
  BY <1>1, <1>2, <1>3, <1>4, <1>5, RefreshInv

LEMMA SetParametersInv ==
  ASSUME IInv, NEW c \in Clocks, NEW p \in Params, SetParameters(c, p)
  PROVE  IInv'
<1> USE ClockAssumption
<1> DEFINE rec == [period |-> p.dwPeriod, left |-> (p.dwPeriod + p.dwPhase) % W,
                   next |-> p.bInitValue, clock_polarity |-> p.ClockPolarity,
                   reset_polarity |-> p.ResetPolarity]
<1>1. /\ p.dwPeriod \in 1 .. W - 1 /\ p.dwPhase \in Nat
      /\ p.bInitValue \in Bit /\ p.ClockPolarity \in Bit /\ p.ResetPolarity \in Bit
  BY DEF Bit
<1>2. (p.dwPeriod + p.dwPhase) % W = p.dwPeriod + p.dwPhase
  BY <1>1, ModSmall
<1>3. rec \in [period : 1 .. W - 1, left : 0 .. W - 1, next : Bit,
               clock_polarity : Bit, reset_polarity : Bit]
  BY <1>1, <1>2
<1>4. /\ p.dwPeriod + p.dwPhase \in Int
      /\ p.dwPeriod + p.dwPhase = IF rec.left = 0 THEN rec.period ELSE rec.left
  BY <1>1, <1>2
<1>5. /\ ~ m_pReset[c].on
      /\ Refresh([clock EXCEPT ![c] = rec], alive)
      /\ c \in alive /\ alive' = alive
      /\ due' = [due EXCEPT ![c] = p.dwPeriod + p.dwPhase]
      /\ turn' = turn
      /\ pCLK' = [pCLK EXCEPT ![c] = p.bInitValue]
  BY DEF SetParameters
<1> HIDE DEF rec
<1>6. [clock EXCEPT ![c] = rec] \in Tables
  BY <1>3 DEF IInv, TypeOK, Tables
<1>7. alive \cup {c} = alive
  BY <1>5
<1>8. turn' \in {"tik", "eval", "tok"} /\ pCLK' \in [Clocks -> Bit]
  BY <1>1, <1>5 DEF IInv, TypeOK
<1> QED
  BY <1>4, <1>5, <1>6, <1>7, <1>8, RefreshInv

(* The steps that leave the time of every clock alone.                      *)
LEMMA DoResetInv ==
  ASSUME IInv, NEW c \in Clocks, NEW n \in Cycles, DoReset(c, n)
  PROVE  IInv'
<1> USE ClockAssumption
<1> DEFINE r == [on |-> TRUE, cycles |-> IF n = 0 THEN 1 ELSE n, life |-> LifeCycle]
<1>1. TypeOK /\ LeftIsDue /\ ResetPin
  BY DEF IInv
<1>2. r \in Resets /\ r.cycles > 0
  BY DEF Resets
<1>3. /\ m_pReset' = [m_pReset EXCEPT ![c] = r]
      /\ pRST' = [pRST EXCEPT ![c] = clock[c].reset_polarity]
      /\ c \in alive
      /\ UNCHANGED <<turn, alive, clock, m_dwElapsedTime, pCLK, due>>
  BY DEF DoReset
<1> HIDE DEF r
<1>4. TypeOK'
  <2>1. iResetInstCount' \in Int
    BY <1>1 DEF DoReset, TypeOK
  <2>2. clock[c].reset_polarity \in Bit
    BY <1>1 DEF TypeOK, Tables
  <2> QED
    BY <1>1, <1>2, <1>3, <2>1, <2>2 DEF TypeOK
<1>5. LeftIsDue'
  BY <1>1, <1>3 DEF LeftIsDue
<1>6. ResetPin'
  BY <1>1, <1>2, <1>3 DEF ResetPin, TypeOK
<1>7. \A b \in Clocks \ alive' : ~ m_pReset'[b].on
  BY <1>1, <1>3 DEF IInv, TypeOK
<1> QED
  BY <1>4, <1>5, <1>6, <1>7 DEF IInv

LEMMA ReleaseInv ==
  ASSUME IInv, NEW c \in Clocks, Release(c)
  PROVE  IInv'
<1> USE ClockAssumption
<1>1. TypeOK /\ LeftIsDue /\ ResetPin
  BY DEF IInv
<1>2. /\ m_pReset' = [m_pReset EXCEPT ![c] = NoReset]
      /\ pRST' = [pRST EXCEPT ![c] = 0]
      /\ pCLK' = [pCLK EXCEPT ![c] = 0]
      /\ clock' = [clock EXCEPT ![c] = NewClock]
      /\ due' = [due EXCEPT ![c] = 0]
      /\ alive' = alive \ {c}
      /\ UNCHANGED <<turn, m_dwElapsedTime>>
  BY DEF Release
<1>3. TypeOK'
  <2>1. iResetInstCount' \in Int
    BY <1>1 DEF Release, TypeOK
  <2>2. NoReset \in Resets /\ ~ NoReset.on
    BY DEF NoReset, Resets
  <2>3. clock' \in Tables
    BY <1>1, <1>2 DEF TypeOK, Tables, NewClock, Bit
  <2> QED
    BY <1>1, <1>2, <2>1, <2>2, <2>3 DEF TypeOK, Bit
<1>4. \A b \in alive' : /\ b \in alive /\ b # c
                        /\ m_pReset'[b] = m_pReset[b] /\ pRST'[b] = pRST[b]
                        /\ clock'[b] = clock[b] /\ due'[b] = due[b]
  BY <1>1, <1>2 DEF TypeOK
<1>5. LeftIsDue'
  BY <1>1, <1>2, <1>4 DEF LeftIsDue
<1>6. ResetPin'
  BY <1>1, <1>4 DEF ResetPin
<1>7. \A b \in Clocks \ alive' : ~ m_pReset'[b].on
  BY <1>1, <1>2 DEF IInv, TypeOK, NoReset
<1> QED
  BY <1>3, <1>5, <1>6, <1>7 DEF IInv

LEMMA TikEvalInv == IInv /\ (Tik \/ Eval) => IInv'
<1> SUFFICES ASSUME IInv, Tik \/ Eval PROVE IInv'
  OBVIOUS
<1>1. /\ turn' \in {"tik", "eval", "tok"}
      /\ UNCHANGED <<alive, clock, m_dwElapsedTime, resetVars, due>>
  BY DEF Tik, Eval
<1>2. pCLK' \in [Clocks -> Bit]
  <2>1. \A c \in Clocks : clock[c].next \in Bit /\ pCLK[c] \in Bit
    BY DEF IInv, TypeOK, Tables
  <2>2. CASE Tik
    BY <2>1, <2>2 DEF Tik
  <2>3. CASE Eval
    BY <2>3 DEF Eval, IInv, TypeOK
  <2> QED
    BY <2>2, <2>3
<1> QED
  BY <1>1, <1>2 DEF IInv, TypeOK, LeftIsDue, ResetPin, resetVars

-------------------------------------------------------------------------------
(* The inductive invariant.                                                 *)
THEOREM Invariance == Spec => []IInv
<1>1. Init => IInv
  BY InitInv
<1>2. IInv /\ [Next]_vars => IInv'
  <2> SUFFICES ASSUME IInv, [Next]_vars PROVE IInv'
    OBVIOUS
  <2>1. CASE Clocking
    BY <2>1, TikEvalInv, TokInv DEF Clocking
  <2>2. ASSUME NEW c \in Clocks, Configure(c) PROVE IInv'
    BY <2>2, CreateInv, SetParametersInv, DoResetInv, ReleaseInv DEF Configure
  <2>3. CASE UNCHANGED vars
    BY <2>3 DEF vars, resetVars, IInv, TypeOK, LeftIsDue, ResetPin
  <2> QED
    BY <2>1, <2>2, <2>3 DEF Next
<1> QED
  BY <1>1, <1>2, PTL DEF Spec

(* The types of the state: no time left or elapsed leaves its uint32.       *)
THEOREM TypeCorrect == Spec => []TypeOK
<1>1. IInv => TypeOK
  BY DEF IInv
<1> QED
  BY <1>1, Invariance, PTL

(* What Tok is about to subtract passes no clock's time left, and that time *)
(* is the time to the clock's next edge.                                    *)
THEOREM CountsDown == Spec => []LeftIsDue
<1>1. IInv => LeftIsDue
  BY DEF IInv
<1> QED
  BY <1>1, Invariance, PTL

(* The reset pin is active exactly while the reset counts.                  *)
THEOREM PinFollowsReset == Spec => []ResetPin
<1>1. IInv => ResetPin
  BY DEF IInv
<1> QED
  BY <1>1, Invariance, PTL

(* Every edge comes when it is due, and simulation time passes none.        *)
THEOREM NoEdgeMissed == Spec => EdgesOnTime
<1> DEFINE OnTime == Tok => \A c \in alive :
             /\ m_dwElapsedTime <= due[c]
             /\ clock'[c].next # clock[c].next <=> m_dwElapsedTime = due[c]
<1>1. IInv /\ [Next]_vars => [OnTime]_vars
  <2> SUFFICES ASSUME IInv, Tok, NEW c \in alive
               PROVE  /\ m_dwElapsedTime <= due[c]
                      /\ clock'[c].next # clock[c].next <=> m_dwElapsedTime = due[c]
    OBVIOUS
  <2>1. /\ TypeOK
        /\ clock \in Tables
        /\ alive \in SUBSET Clocks
        /\ m_dwElapsedTime \in 0 .. W - 1
        /\ \A b \in alive : m_dwElapsedTime <= clock[b].left
        /\ clock[c].left = due[c]
    BY DEF IInv, TypeOK, LeftIsDue
  <2>2. Process(clock, alive, m_dwElapsedTime)
    BY DEF Tok
  <2>3. clock'[c].next = IF clock[c].left = m_dwElapsedTime THEN 1 - clock[c].next
                         ELSE clock[c].next
    BY <2>1, <2>2, ProcessClocks, Zenon
  <2>4. clock[c].next \in Bit
    BY <2>1 DEF Tables
  <2> QED
    BY <2>1, <2>3, <2>4 DEF Bit
<1> QED
  BY <1>1, Invariance, PTL DEF Spec, EdgesOnTime
===============================================================================
