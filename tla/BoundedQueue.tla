----------------------------- MODULE BoundedQueue ------------------------------
(***************************************************************************)
(* What a FIFO between two clocks promises: items come out once each, in   *)
(* the order in which they went in, and no more than Capacity wait inside. *)
(* A reset empties it.  FiFoAsync implements it.                           *)
(***************************************************************************)
EXTENDS Naturals, Sequences

CONSTANTS DATA,         \* what can be written
          NoData,       \* nothing has been read yet
          Capacity      \* how many items fit

VARIABLES queue,        \* the items inside, the oldest first
          taken         \* the item that was read last

queueVars == <<queue, taken>>

QueueInit == queue = <<>> /\ taken = NoData

Put(d) ==
  /\ Len(queue) < Capacity
  /\ queue' = Append(queue, d)
  /\ UNCHANGED taken

Take ==
  /\ queue # <<>>
  /\ taken' = Head(queue)
  /\ queue' = Tail(queue)

(* The edges of the two clocks may coincide. *)
PutTake(d) ==
  /\ queue # <<>>
  /\ Len(queue) < Capacity
  /\ taken' = Head(queue)
  /\ queue' = Append(Tail(queue), d)

Clear == queue' = <<>> /\ UNCHANGED taken

QueueNext == (\E d \in DATA : Put(d) \/ PutTake(d)) \/ Take \/ Clear

QueueSpec == QueueInit /\ [][QueueNext]_queueVars
===============================================================================
