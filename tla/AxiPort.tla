-------------------------------- MODULE AxiPort --------------------------------
(***************************************************************************)
(* What one direction of an AXI master port promises to the design: bursts *)
(* are served in the order in which they were accepted, each beat once,    *)
(* and a burst ends with its last beat (its response, for a write) and not *)
(* before.  A reset takes away the burst in service, those that wait stay. *)
(* Maxi implements it, in both directions.                                 *)
(***************************************************************************)
EXTENDS Integers, Sequences

CONSTANTS Bursts, Beats,   \* the bursts, and the number of beats of each
          Last             \* what is left of a burst whose end comes next

VARIABLES open,            \* the bursts accepted and not ended: [tx, left]
          nRST             \* the reset in the last clock, active low

PortInit == open = <<>> /\ nRST = TRUE

(* The bursts after one clock of service.                                   *)
Progress ==
  IF open = <<>> THEN {<<>>}
  ELSE {open}
         \cup {[open EXCEPT ![1].left = @ - 1] : l \in {Last} \ {open[1].left}}
         \cup {Tail(open) : l \in {Last} \cap {open[1].left}}

Clock ==
  \E o \in Progress :
    \/ open' = o
    \/ \E t \in Bursts : open' = Append(o, [tx |-> t, left |-> Beats[t]])

Reset == open' = open \/ (open # <<>> /\ open' = Tail(open))

PortNext == (nRST' /\ Clock) \/ (~nRST' /\ Reset)

PortSpec == PortInit /\ [][PortNext]_<<open, nRST>>
================================================================================
