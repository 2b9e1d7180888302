-------------------------------- MODULE Lifo --------------------------------
(***************************************************************************)
(* What the library expects of a stack: a pop gives the element pushed     *)
(* last and not popped since, and Nil when there is none.                  *)
(***************************************************************************)
EXTENDS Naturals, Sequences

CONSTANTS Value, Nil

VARIABLES
  items,   \* the elements, the one pushed last at the end
  popped   \* what the last pop returned

Init == items = <<>> /\ popped = Nil

Push(x) == items' = Append(items, x) /\ UNCHANGED popped

Pop ==
  \/ items = <<>> /\ popped' = Nil /\ UNCHANGED items
  \/ /\ items # <<>>
     /\ popped' = items[Len(items)]
     /\ items' = SubSeq(items, 1, Len(items) - 1)

Next == (\E x \in Value : Push(x)) \/ Pop

Spec == Init /\ [][Next]_<<items, popped>>
=============================================================================
