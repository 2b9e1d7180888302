----------------------------- MODULE ArrayStack -----------------------------
(***************************************************************************)
(* void_arr_stack (queue.c), the stack the library uses throughout: an     *)
(* array whose slot 0 stays unused, so that head is both the index of the  *)
(* top element and the number of elements.  A push grows the array by      *)
(* STACK_INCREASE_SIZE when head comes within two of its end; the array    *)
(* never shrinks and what was popped stays behind in it.                   *)
(***************************************************************************)
EXTENDS Naturals, Sequences

CONSTANTS
  Value,               \* what is pushed: pointers, or integers cast to them
  Nil,                 \* the null pointer
  STACK_INCREASE_SIZE,
  MaxSize              \* bound on the size the array grows to

ASSUME ArrayStackAssumption ==
  /\ STACK_INCREASE_SIZE \in Nat
  /\ STACK_INCREASE_SIZE >= 2
  /\ MaxSize \in Nat

VARIABLES
  head,    \* stack->head
  size,    \* stack->size
  mem,     \* stack->mem; malloc and realloc leave new slots unspecified
  popped   \* history: what the last pop returned

vars == <<head, size, mem, popped>>

Slots(n) == 0 .. n - 1

\* arr_stack_init, whose slots may hold anything.
Init ==
  /\ head = 0
  /\ size = STACK_INCREASE_SIZE
  /\ mem \in [Slots(STACK_INCREASE_SIZE) -> Value \cup {Nil}]
  /\ popped = Nil

\* A bug: realloc is asked for one slot too few.
GrownShort(m, g) ==
  [i \in Slots(size + STACK_INCREASE_SIZE - 1) |-> IF i < size THEN m[i] ELSE g]

\* increase_arr_stack: m is the array after realloc, g its new slots.
Grown(m, g) ==
  [i \in Slots(size + STACK_INCREASE_SIZE) |-> IF i < size THEN m[i] ELSE g]

\* A bug: the array grows when head is past its end.
PushLate(x) ==
  /\ head' = head + 1
  /\ head < size
  /\ mem' = [mem EXCEPT ![head + 1] = x]
  /\ UNCHANGED <<size, popped>>

\* arr_stack_push and arr_stack_push_uintmax.
Push(x) ==
  /\ head' = head + 1
  /\ \/ /\ head < size - 2
        /\ mem' = [mem EXCEPT ![head + 1] = x]
        /\ UNCHANGED size
     \/ /\ head >= size - 2
        /\ size + STACK_INCREASE_SIZE <= MaxSize
        /\ size' = size + STACK_INCREASE_SIZE
        /\ \E g \in Value \cup {Nil} : mem' = [Grown(mem, g) EXCEPT ![head + 1] = x]
  /\ UNCHANGED popped

\* arr_stack_pop and arr_stack_pop_uintmax.
PopEmpty ==
  /\ head = 0
  /\ popped' = Nil
  /\ UNCHANGED <<head, size, mem>>

\* A bug: head is decremented before the slot is read.
PopBelow ==
  /\ head # 0
  /\ popped' = mem[head - 1]
  /\ head' = head - 1
  /\ UNCHANGED <<size, mem>>

Pop ==
  /\ head # 0
  /\ popped' = mem[head]
  /\ head' = head - 1
  /\ UNCHANGED <<size, mem>>

Next ==
  \/ \E x \in Value : Push(x)
  \/ PopEmpty
  \/ Pop

Spec == Init /\ [][Next]_vars
-----------------------------------------------------------------------------
\* The array has size slots, which hold values.
TypeOK ==
  /\ head \in Nat
  /\ size \in Nat
  /\ mem \in [Slots(size) -> Value \cup {Nil}]
  /\ popped \in Value \cup {Nil}

\* The slot of the top element, and the one the next push writes, exist: no
\* sequence of pushes and pops writes or reads outside the array.
InBounds ==
  /\ size >= STACK_INCREASE_SIZE
  /\ head < size
  /\ head + 2 <= size

\* The slots above slot 0 hold the elements; growing and reusing slots that
\* pops left behind never loses or changes one.
Elements == INSTANCE Lifo WITH items <- [i \in 1 .. head |-> mem[i]]

IsLifo == Elements!Spec
=============================================================================
