------------------------------- MODULE SimClock -------------------------------
(***************************************************************************)
(* The clocks of the simulation and their resets:                          *)
(*   SimSystem/src/SimClock.cpp   the list of clocks, Tik and Tok          *)
(*   SimSystem/src/SimReset.cpp   the reset that a clock counts out        *)
(* as SimEngine::Clocking drives them: Tik, the evaluation, Tok.  All of   *)
(* it runs on one thread.  Simulation time jumps from edge to edge: Tok    *)
(* subtracts from every clock's time left what the last Tok, or the last   *)
(* Refresh, had found to be the least, in uint32 arithmetic (modulo W).    *)
(*                                                                         *)
(* Create, SetParameters, DoReset and Release are called by the design, in *)
(* its constructors, its initial blocks and its DPI code (SimHDL.cpp and   *)
(* testdrive_clock_bfm.sv): before the first Tik, or within Clocking, but  *)
(* never from inside Tok.  They give a clock its parameters before they    *)
(* reset it.                                                               *)
(***************************************************************************)
EXTENDS Integers, FiniteSets

CONSTANTS Clocks,          \* SimClock objects
          Params, Cycles,  \* the arguments of SetParameters and of DoReset
          DefaultPeriod,   \* 5000 ps
          LifeCycle,       \* 30 cycles that a SimReset outlives its reset
          W                \* 2^32

(* assert(dwPeriod != 0), and what no code ensures: that dwPeriod + dwPhase *)
(* does not wrap.                                                           *)
ASSUME ClockAssumption ==
  /\ IsFiniteSet(Clocks)
  /\ W \in Nat
  /\ DefaultPeriod \in 1 .. W - 1
  /\ Params \subseteq [dwPeriod : 1 .. W - 1, dwPhase : Nat, bInitValue : {0, 1},
                       ClockPolarity : {0, 1}, ResetPolarity : {0, 1}]
  /\ \A p \in Params : p.dwPeriod + p.dwPhase < W
  /\ Cycles \subseteq Nat
  /\ LifeCycle \in Nat

VARIABLES
  turn,              \* the place of the engine thread in Clocking
  alive,             \* the list of clocks
  clock,             \* their m_dwPeriod, m_dwLeftTime, m_NextClock, polarities
  m_dwElapsedTime,
  m_pReset,          \* whether a clock has a SimReset, and its two counters
  iResetInstCount,   \* __iResetInstCount
  pCLK, pRST,        \* the pins of the design
  due                \* history: the time that is left, by the period and the
                     \* phase alone, until the clock's next edge

resetVars == <<m_pReset, iResetInstCount, pRST>>
vars == <<turn, alive, clock, m_dwElapsedTime, resetVars, pCLK, due>>

-------------------------------------------------------------------------------
Bit == {0, 1}
NewClock ==
  [period |-> DefaultPeriod, left |-> 0, next |-> 0,
   clock_polarity |-> 1, reset_polarity |-> 0]
NoReset == [on |-> FALSE, cycles |-> 0, life |-> 0]

Init ==
  /\ turn = "tik"
  /\ alive = {}
  /\ clock = [c \in Clocks |-> NewClock]
  /\ m_dwElapsedTime = 0
  /\ m_pReset = [c \in Clocks |-> NoReset]
  /\ iResetInstCount = 0
  /\ pCLK = [c \in Clocks |-> 0]
  /\ pRST = [c \in Clocks |-> 0]
  /\ due = [c \in Clocks |-> 0]

-------------------------------------------------------------------------------
(* SimClock::ProcessTok on one clock of the table k.                        *)
Left(k, c, elapsed) == (k[c].left - elapsed) % W

(* Mutant: an edge comes when one tick is left.                             *)
TogglesEarly(k, c, elapsed) == Left(k, c, elapsed) <= 1

Toggles(k, c, elapsed) == Left(k, c, elapsed) = 0

Processed(k, c, elapsed) ==
  IF Toggles(k, c, elapsed)
    THEN [k[c] EXCEPT !.left = k[c].period, !.next = 1 - k[c].next]
    ELSE [k[c] EXCEPT !.left = Left(k, c, elapsed)]

(* Mutant: the object stays at the end of its life.                         *)
DoCycleKept(r) ==
  IF r.cycles > 0 THEN [r EXCEPT !.cycles = r.cycles - 1]
  ELSE IF r.life > 0 THEN [r EXCEPT !.life = r.life - 1]
  ELSE r

(* SimReset::DoCycle: the counters, and then the end of the object.         *)
DoCycle(r) ==
  IF r.cycles > 0 THEN [r EXCEPT !.cycles = r.cycles - 1]
  ELSE IF r.life > 0 THEN [r EXCEPT !.life = r.life - 1]
  ELSE NoReset

(* Its clocks that get a cycle in this Tok.                                 *)
Cycling(k, on, elapsed) ==
  {c \in on : /\ m_pReset[c].on
              /\ Toggles(k, c, elapsed)
              /\ 1 - k[c].next = k[c].clock_polarity}

(* Tok over the clocks on of the table k: each is processed, and the least  *)
(* time left is what the next Tok will subtract.                            *)
Process(k, on, elapsed) ==
  /\ clock' = [c \in Clocks |-> IF c \in on THEN Processed(k, c, elapsed) ELSE k[c]]
  /\ IF on = {}
       THEN m_dwElapsedTime' = DefaultPeriod
       ELSE \E c \in on :
              /\ m_dwElapsedTime' = Processed(k, c, elapsed).left
              /\ \A d \in on : m_dwElapsedTime' <= Processed(k, d, elapsed).left
  /\ LET S == Cycling(k, on, elapsed)
         E == {c \in S : ~ DoCycle(m_pReset[c]).on}
     IN /\ m_pReset' = [c \in Clocks |-> IF c \in S THEN DoCycle(m_pReset[c])
                                                    ELSE m_pReset[c]]
        /\ pRST' = [c \in Clocks |-> IF c \in S /\ m_pReset[c].cycles = 1
                                       THEN 1 - pRST[c] ELSE pRST[c]]
        /\ iResetInstCount' = iResetInstCount - Cardinality(E)

(* Mutant: the elapsed time of the last Tok is kept.                        *)
RefreshStale(k, on) ==
  /\ clock' = [c \in Clocks |-> IF c \in on THEN Processed(k, c, 0) ELSE k[c]]
  /\ UNCHANGED <<m_dwElapsedTime, resetVars>>

Refresh(k, on) == Process(k, on, 0)

-------------------------------------------------------------------------------
(* The constructor: the time left of zero makes Refresh toggle the clock at *)
(* once and give it its default period.                                     *)
Create(c) ==
  /\ turn # "tok"
  /\ c \notin alive
  /\ alive' = alive \cup {c}
  /\ Refresh([clock EXCEPT ![c] = NewClock], alive')
  /\ due' = [due EXCEPT ![c] = DefaultPeriod]
  /\ UNCHANGED <<turn, pCLK>>

SetParameters(c, p) ==
  /\ turn # "tok"
  /\ c \in alive
  /\ ~ m_pReset[c].on
  /\ Refresh([clock EXCEPT ![c] =
       [period |-> p.dwPeriod, left |-> (p.dwPeriod + p.dwPhase) % W,
        next |-> p.bInitValue, clock_polarity |-> p.ClockPolarity,
        reset_polarity |-> p.ResetPolarity]], alive)
  /\ pCLK' = [pCLK EXCEPT ![c] = p.bInitValue]
  /\ due' = [due EXCEPT ![c] = p.dwPeriod + p.dwPhase]
  /\ UNCHANGED <<turn, alive>>

(* Mutant: a reset that is under way is prolonged, its pin left alone.      *)
DoResetAgain(c, n) ==
  /\ turn # "tok"
  /\ c \in alive
  /\ m_pReset' = [m_pReset EXCEPT ![c] =
       [on |-> TRUE, cycles |-> IF n = 0 THEN 1 ELSE n, life |-> LifeCycle]]
  /\ IF m_pReset[c].on THEN UNCHANGED <<iResetInstCount, pRST>>
     ELSE /\ iResetInstCount' = iResetInstCount + 1
          /\ pRST' = [pRST EXCEPT ![c] = clock[c].reset_polarity]
  /\ UNCHANGED <<turn, alive, clock, m_dwElapsedTime, pCLK, due>>

(* DoReset, with the SimReset's constructor and Set.                        *)
DoReset(c, n) ==
  /\ turn # "tok"
  /\ c \in alive
  /\ m_pReset' = [m_pReset EXCEPT ![c] =
       [on |-> TRUE, cycles |-> IF n = 0 THEN 1 ELSE n, life |-> LifeCycle]]
  /\ iResetInstCount' = IF m_pReset[c].on THEN iResetInstCount
                                          ELSE iResetInstCount + 1
  /\ pRST' = [pRST EXCEPT ![c] = clock[c].reset_polarity]
  /\ UNCHANGED <<turn, alive, clock, m_dwElapsedTime, pCLK, due>>

(* The destructor, with that of the SimReset.  What is left of a clock that *)
(* is no more is set to its first values, for nobody reads it.              *)
Release(c) ==
  /\ turn # "tok"
  /\ c \in alive
  /\ alive' = alive \ {c}
  /\ m_pReset' = [m_pReset EXCEPT ![c] = NoReset]
  /\ iResetInstCount' = IF m_pReset[c].on THEN iResetInstCount - 1
                                          ELSE iResetInstCount
  /\ clock' = [clock EXCEPT ![c] = NewClock]
  /\ pCLK' = [pCLK EXCEPT ![c] = 0] /\ pRST' = [pRST EXCEPT ![c] = 0]
  /\ due' = [due EXCEPT ![c] = 0]
  /\ UNCHANGED <<turn, m_dwElapsedTime>>

-------------------------------------------------------------------------------
(* SimEngine::Clocking.                                                     *)
Tik ==
  /\ turn = "tik"
  /\ turn' = "eval"
  /\ pCLK' = [c \in Clocks |-> IF c \in alive THEN clock[c].next ELSE pCLK[c]]
  /\ UNCHANGED <<alive, clock, m_dwElapsedTime, resetVars, due>>

Eval ==
  /\ turn = "eval"
  /\ turn' = "tok"
  /\ UNCHANGED <<alive, clock, m_dwElapsedTime, resetVars, pCLK, due>>

Tok ==
  /\ turn = "tok"
  /\ turn' = "tik"
  /\ Process(clock, alive, m_dwElapsedTime)
  /\ due' = [c \in Clocks |->
       IF c \notin alive THEN due[c]
       ELSE IF due[c] = m_dwElapsedTime THEN clock[c].period
       ELSE due[c] - m_dwElapsedTime]
  /\ UNCHANGED <<alive, pCLK>>

Clocking == Tik \/ Eval \/ Tok

Configure(c) ==
  \/ Create(c) \/ Release(c)
  \/ \E p \in Params : SetParameters(c, p)
  \/ \E n \in Cycles : DoReset(c, n)

Next == Clocking \/ \E c \in Clocks : Configure(c)

Spec == Init /\ [][Next]_vars

(* The engine thread goes on while a reset keeps it awake: SimReset's       *)
(* Unlock() stays open to its end, and OnRun() answers busy.                *)
FairSpec == Spec /\ WF_vars(iResetInstCount > 0 /\ Clocking)

-------------------------------------------------------------------------------
Tables == [Clocks -> [period : 1 .. W - 1, left : 0 .. W - 1, next : Bit,
                      clock_polarity : Bit, reset_polarity : Bit]]
Resets == [on : BOOLEAN, cycles : Nat, life : Nat]

(* The types of the state.                                                  *)
TypeOK ==
  /\ turn \in {"tik", "eval", "tok"}
  /\ alive \subseteq Clocks
  /\ clock \in Tables
  /\ m_dwElapsedTime \in 0 .. W - 1
  /\ m_pReset \in [Clocks -> Resets]
  /\ iResetInstCount \in Int
  /\ pCLK \in [Clocks -> Bit]
  /\ pRST \in [Clocks -> Bit]
  /\ due \in [Clocks -> Int]

(* The time left of a clock is the time to its next edge, and what the next *)
(* Tok subtracts never passes it: no uint32 wraps (SimClock.cpp,            *)
(* ProcessTok), and as long as there is a clock the time does move, which   *)
(* SystemSim::Initialize waits for.                                         *)
LeftIsDue ==
  /\ \A c \in alive :
       /\ clock[c].left = due[c]
       /\ 0 < m_dwElapsedTime /\ m_dwElapsedTime <= due[c]

(* Simulation time never jumps over an edge, and each clock toggles exactly *)
(* when its edge is due, whatever the other clocks do, and whenever one is  *)
(* created, changed or released (SimClock.cpp, Tok and Refresh).            *)
EdgesOnTime ==
  [][Tok => \A c \in alive :
       /\ m_dwElapsedTime <= due[c]
       /\ clock'[c].next # clock[c].next <=> m_dwElapsedTime = due[c]]_vars

(* The reset pin is active as long as a reset has cycles to go and inactive *)
(* from then on, also when it is prolonged or restarted (SimReset.cpp, Set  *)
(* and DoCycle, which flips the pin it does not know the state of).         *)
ResetPin ==
  \A c \in alive : m_pReset[c].on =>
    pRST[c] = IF m_pReset[c].cycles > 0 THEN clock[c].reset_polarity
                                        ELSE 1 - clock[c].reset_polarity

(* The inductive invariant: with it, a clock that is no more has no reset.  *)
IInv ==
  /\ TypeOK /\ LeftIsDue /\ ResetPin
  /\ \A c \in Clocks \ alive : ~ m_pReset[c].on

(* Once the design leaves the clocks alone every reset ends, and with it    *)
(* the wait of SystemSim::Initialize for SimReset::IsResetCycle(); also     *)
(* when a clock is released in the middle of one.                           *)
ResetsEnd == <>[][Clocking]_vars => <>[](iResetInstCount = 0)
===============================================================================
