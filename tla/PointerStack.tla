---------------------------- MODULE PointerStack ----------------------------
(***************************************************************************)
(* void_stack (queue.c): cells in a doubly linked line.  head is the cell  *)
(* of the top element, the cells above it are free, and the cell the stack *)
(* was created with never holds an element.  Only the pop field of cells   *)
(* that increase_stack adds is assigned: that of the first cell is what    *)
(* malloc left there, null or not.                                         *)
(***************************************************************************)
EXTENDS Naturals, Sequences

CONSTANTS
  Value,                \* what is pushed: pointers that are not null
  Nil,                  \* the null pointer
  Wild,                 \* a pointer that was never assigned
  STACK_INCREASE_SIZE,
  MaxCells              \* bound on the cells the line grows to

VARIABLES
  x,           \* the x fields of cells 0 .. last; cell k + 1 is pushed on k
  head,        \* stack->head
  pop_of_0,    \* the pop field of the first cell
  popped,      \* history: what the last pop returned
  warned,      \* history: stack_free warned that objects are in the stack
  freed        \* TRUE once stack_free returned

vars == <<x, head, pop_of_0, popped, warned, freed>>

last == Len(x) - 1

\* stack_init; the sequence x holds the fields from cell 0 on.
Init ==
  /\ x = [i \in 1 .. STACK_INCREASE_SIZE + 1 |-> Wild]
  /\ head = 0
  /\ pop_of_0 \in {Nil, Wild}
  /\ popped = Nil
  /\ warned = FALSE
  /\ freed = FALSE

\* An operation on a wild head is not defined and ends the execution here.
Usable == ~freed /\ head # Wild

pop_field(cell) == IF cell = 0 THEN pop_of_0 ELSE cell - 1

Push(e) ==
  /\ Usable
  /\ IF head = last
       THEN /\ Len(x) + STACK_INCREASE_SIZE <= MaxCells
            /\ x' = [i \in 1 .. Len(x) + STACK_INCREASE_SIZE |->
                       CASE i = head + 2 -> e
                         [] i <= Len(x)  -> x[i]
                         [] OTHER        -> Wild]
       ELSE x' = [x EXCEPT ![head + 2] = e]
  /\ head' = head + 1
  /\ UNCHANGED <<pop_of_0, popped, warned, freed>>

PopNull ==
  /\ Usable
  /\ pop_field(head) = Nil
  /\ popped' = Nil
  /\ UNCHANGED <<x, head, pop_of_0, warned, freed>>

Pop ==
  /\ Usable
  /\ pop_field(head) # Nil
  /\ popped' = x[head + 1]
  /\ head' = pop_field(head)
  /\ UNCHANGED <<x, pop_of_0, warned, freed>>

\* stack_free; it frees the cells from head up.
Free ==
  /\ Usable
  /\ warned' = (pop_field(head) # Nil)
  /\ freed' = TRUE
  /\ UNCHANGED <<x, head, pop_of_0, popped>>

Next ==
  \/ \E e \in Value : Push(e)
  \/ PopNull
  \/ Pop
  \/ Free

Spec == Init /\ [][Next]_vars
-----------------------------------------------------------------------------
\* "Warning: stack being free'd while objects are still in the stack."
\* (queue.c:87): said of stacks with objects in them.
WarningIsTrue == warned => head # 0
=============================================================================
