-------------------------------- MODULE Fifo --------------------------------
(***************************************************************************)
(* What the library expects of a queue: elements leave in the order they   *)
(* came, and a dequeue gives Nil when there is none.                       *)
(***************************************************************************)
EXTENDS Naturals, Sequences

CONSTANTS Value, Nil

VARIABLES
  items,   \* the elements, the one that came first at the front
  taken    \* what the last dequeue returned

Init == items = <<>> /\ taken = Nil

Enqueue(x) == items' = Append(items, x) /\ UNCHANGED taken

Dequeue ==
  \/ items = <<>> /\ taken' = Nil /\ UNCHANGED items
  \/ /\ items # <<>>
     /\ taken' = Head(items)
     /\ items' = Tail(items)

Next == (\E x \in Value : Enqueue(x)) \/ Dequeue

Spec == Init /\ [][Next]_<<items, taken>>
=============================================================================
