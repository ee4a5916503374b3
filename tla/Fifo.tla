-------------------------------- MODULE Fifo --------------------------------
(***************************************************************************)
(* What the buffers of the standard library promise: values come out in    *)
(* the order they went in, each once, and never more than Capacity wait.   *)
(***************************************************************************)
EXTENDS Naturals, Sequences

CONSTANTS
  Values,    \* what is stored
  Capacity,  \* how many values may wait
  Null       \* what out holds before the first read

VARIABLES
  items,  \* the values waiting, the oldest first
  out     \* the value the last read returned

vars == <<items, out>>

Init == items = <<>> /\ out = Null

Write(v) ==
  /\ Len(items) < Capacity
  /\ items' = Append(items, v)
  /\ UNCHANGED out

Read ==
  /\ items # <<>>
  /\ out' = Head(items)
  /\ items' = Tail(items)

Clear == items' = <<>> /\ UNCHANGED out

Next == (\E v \in Values : Write(v)) \/ Read \/ Clear

Spec == Init /\ [][Next]_vars
=============================================================================
