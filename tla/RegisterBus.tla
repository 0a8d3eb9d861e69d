----------------------------- MODULE RegisterBus ------------------------------
(***************************************************************************)
(* What RegRead and RegWrite promise: each call takes effect once, at one  *)
(* moment between its beginning and its return, on a plain array of        *)
(* registers that hardware masters write too.  BusSlave implements it.     *)
(***************************************************************************)
CONSTANTS Clients,      \* the software threads
          Regs, Data,   \* register addresses and their values
          NoData        \* the result of a write, and of no call yet

VARIABLES mem,          \* the registers
          call,         \* per client: the state, kind, addr and data of its call
          ret           \* per client: what its last call returned

busVars == <<mem, call, ret>>

BusInit ==
  /\ mem \in [Regs -> Data]
  /\ \A c \in Clients : call[c].state = "none"
  /\ ret = [c \in Clients |-> NoData]

Invoke(c) ==
  /\ call[c].state = "none"
  /\ call'[c].state = "pending"
  /\ ret' = [ret EXCEPT ![c] = NoData]
  /\ UNCHANGED mem

Take(c) ==
  /\ call[c].state = "pending"
  /\ call'[c].state = "done"
  /\ call'[c].kind = call[c].kind
  /\ call'[c].addr = call[c].addr
  /\ IF call[c].kind = "write"
       THEN mem' = [mem EXCEPT ![call[c].addr] = call[c].data]
       ELSE call'[c].data = mem[call[c].addr] /\ UNCHANGED mem
  /\ UNCHANGED ret

Return(c) ==
  /\ call[c].state = "done"
  /\ call'[c].state = "none"
  /\ ret' = [ret EXCEPT ![c] = IF call[c].kind = "read" THEN call[c].data ELSE NoData]
  /\ UNCHANGED mem

(* Nobody else's call changes.                                              *)
Only(c) == \A b \in Clients \ {c} : call'[b] = call[b]

HwWrite(r, d) ==
  /\ mem' = [mem EXCEPT ![r] = d]
  /\ UNCHANGED <<call, ret>>

BusNext ==
  \/ \E c \in Clients : (Invoke(c) \/ Take(c) \/ Return(c)) /\ Only(c)
  \/ \E r \in Regs, d \in Data : HwWrite(r, d)

BusSpec == BusInit /\ [][BusNext]_busVars
===============================================================================
