------------------------- MODULE ArrayStack_proofs --------------------------
(***************************************************************************)
(* Proofs about ArrayStack, for any growth step of at least two, any bound *)
(* on the size and any values.                                             *)
(***************************************************************************)
EXTENDS ArrayStack, SequenceTheorems, TLAPS

StackInv == TypeOK /\ InBounds

\* The elements of the abstract stack.
Items == [i \in 1 .. head |-> mem[i]]

LEMMA GrownType ==
  ASSUME TypeOK, NEW g \in Value \cup {Nil}
  PROVE  /\ Grown(mem, g) \in [Slots(size + STACK_INCREASE_SIZE) -> Value \cup {Nil}]
         /\ \A i \in Slots(size) : Grown(mem, g)[i] = mem[i]
BY ArrayStackAssumption DEF TypeOK, Grown, Slots

\* What a push does, whether it grows the array or not: the slot written
\* exists and those below it keep what they hold.
LEMMA PushWrites ==
  ASSUME StackInv, NEW x \in Value, Push(x)
  PROVE  /\ StackInv'
         /\ head' = head + 1
         /\ mem'[head'] = x
         /\ \A i \in 1 .. head : mem'[i] = mem[i]
<1> USE ArrayStackAssumption
<1>1. head \in Nat /\ size \in Nat /\ head < size /\ size >= STACK_INCREASE_SIZE
  BY DEF StackInv, TypeOK, InBounds
<1>2. CASE /\ head < size - 2
           /\ mem' = [mem EXCEPT ![head + 1] = x]
           /\ UNCHANGED size
  BY <1>1, <1>2 DEF Push, StackInv, TypeOK, InBounds, Slots
<1>3. ASSUME size' = size + STACK_INCREASE_SIZE, NEW g \in Value \cup {Nil},
             mem' = [Grown(mem, g) EXCEPT ![head + 1] = x]
      PROVE  /\ StackInv'
             /\ mem'[head + 1] = x
             /\ \A i \in 1 .. head : mem'[i] = mem[i]
  <2>1. /\ Grown(mem, g) \in [Slots(size + STACK_INCREASE_SIZE) -> Value \cup {Nil}]
        /\ \A i \in Slots(size) : Grown(mem, g)[i] = mem[i]
    BY GrownType DEF StackInv
  <2>2. /\ head + 1 \in Slots(size + STACK_INCREASE_SIZE)
        /\ 1 .. head \subseteq Slots(size)
    BY <1>1 DEF Slots
  <2>3. mem' \in [Slots(size') -> Value \cup {Nil}]
    BY <1>3, <2>1
  <2>4. head' = head + 1 /\ popped' = popped
    BY DEF Push
  <2>5. TypeOK'
    BY <1>1, <1>3, <2>3, <2>4 DEF StackInv, TypeOK
  <2>6. InBounds'
    BY <1>1, <1>3, <2>4 DEF InBounds
  <2> QED BY <1>1, <1>3, <2>1, <2>2, <2>5, <2>6 DEF StackInv
<1> QED BY <1>2, <1>3 DEF Push

LEMMA PopKeeps ==
  ASSUME StackInv, Pop
  PROVE  StackInv' /\ popped' = mem[head] /\ head' = head - 1 /\ mem' = mem
<1>1. mem[head] \in Value \cup {Nil}
  BY DEF StackInv, TypeOK, InBounds, Slots
<1> QED BY <1>1 DEF Pop, StackInv, TypeOK, InBounds

LEMMA StackInit == Init => StackInv
BY ArrayStackAssumption DEF Init, StackInv, TypeOK, InBounds, Slots

LEMMA StackStep == StackInv /\ [Next]_vars => StackInv'
<1> SUFFICES ASSUME StackInv, [Next]_vars
             PROVE  StackInv'
  OBVIOUS
<1>1. CASE \E x \in Value : Push(x)
  BY <1>1, PushWrites
<1>2. CASE PopEmpty
  BY <1>2 DEF PopEmpty, StackInv, TypeOK, InBounds
<1>3. CASE Pop
  BY <1>3, PopKeeps
<1>4. CASE UNCHANGED vars
  BY <1>4 DEF vars, StackInv, TypeOK, InBounds
<1> QED BY <1>1, <1>2, <1>3, <1>4 DEF Next

LEMMA StackInvariant == Spec => []StackInv
BY StackInit, StackStep, PTL DEF Spec

\* The fields of the stack keep their types (arr_stack_push, arr_stack_pop).
THEOREM StackTypeCorrect == Spec => []TypeOK
<1>1. StackInv => TypeOK
  BY DEF StackInv
<1> QED BY <1>1, StackInvariant, PTL

\* No push or pop touches a slot outside the array, at any growth.
THEOREM StackStaysInBounds == Spec => []InBounds
<1>1. StackInv => InBounds
  BY DEF StackInv
<1> QED BY <1>1, StackInvariant, PTL
-----------------------------------------------------------------------------
(***************************************************************************)
(* The array implements Lifo.                                              *)
(***************************************************************************)
LEMMA ItemsAreSequence ==
  ASSUME StackInv
  PROVE  /\ Items \in Seq(Value \cup {Nil})
         /\ Len(Items) = head
         /\ DOMAIN Items = 1 .. head
         /\ \A i \in 1 .. head : Items[i] = mem[i]
<1>1. head \in Nat /\ \A i \in 1 .. head : mem[i] \in Value \cup {Nil}
  BY DEF StackInv, TypeOK, InBounds, Slots
<1> QED BY <1>1 DEF Items

LEMMA SlotExists ==
  ASSUME NEW h \in Nat, NEW n \in Nat, h + 2 <= n, NEW i \in 1 .. h
  PROVE  i \in 0 .. n - 1
OBVIOUS

LEMMA PushAppends ==
  ASSUME StackInv, NEW x \in Value, Push(x)
  PROVE  Items' = Append(Items, x)
<1> DEFINE S == Value \cup {Nil}
           A == Append(Items, x)
<1>1. /\ StackInv' /\ head' = head + 1 /\ mem'[head'] = x
      /\ \A i \in 1 .. head : mem'[i] = mem[i]
  BY PushWrites
<1>2. head \in Nat /\ x \in S
  BY DEF StackInv, TypeOK
<1>3. /\ Items \in Seq(S) /\ Len(Items) = head
      /\ \A i \in 1 .. head : Items[i] = mem[i]
  BY ItemsAreSequence
<1>4. /\ Items' \in Seq(S) /\ Len(Items') = head + 1
      /\ \A i \in 1 .. head + 1 : Items'[i] = mem'[i]
  <2>1. Items' = [i \in 1 .. head + 1 |-> mem'[i]]
    BY <1>1 DEF Items
  <2>2. \A i \in 1 .. head + 1 : mem'[i] \in S
    <3>1. /\ mem' \in [0 .. size' - 1 -> S]
          /\ size' \in Nat /\ head' + 2 <= size'
      BY <1>1 DEF StackInv, TypeOK, InBounds, Slots
    <3>2. head' \in Nat /\ head' = head + 1
      BY <1>1, <1>2
    <3>3. \A i \in 1 .. head' : i \in 0 .. size' - 1
      BY <3>1, <3>2, SlotExists
    <3> QED BY <3>1, <3>2, <3>3
  <2> QED BY <1>2, <2>1, <2>2
<1>5. /\ A \in Seq(S) /\ Len(A) = head + 1
      /\ \A i \in 1 .. head : A[i] = Items[i]
      /\ A[head + 1] = x
  BY <1>2, <1>3, AppendProperties
<1>6. \A i \in 1 .. head + 1 : Items'[i] = A[i]
  BY <1>1, <1>2, <1>3, <1>4, <1>5
<1> QED BY <1>4, <1>5, <1>6, SeqEqual

LEMMA PopShortens ==
  ASSUME StackInv, Pop
  PROVE  /\ Items # <<>>
         /\ popped' = Items[Len(Items)]
         /\ Items' = SubSeq(Items, 1, Len(Items) - 1)
<1> DEFINE S == Value \cup {Nil}
           A == SubSeq(Items, 1, head - 1)
<1>1. StackInv' /\ popped' = mem[head] /\ head' = head - 1 /\ mem' = mem
  BY PopKeeps
<1>2. head \in Nat \ {0}
  BY DEF StackInv, TypeOK, Pop
<1>3. /\ Items \in Seq(S) /\ Len(Items) = head
      /\ \A i \in 1 .. head : Items[i] = mem[i] /\ mem[i] \in S
  BY ItemsAreSequence DEF StackInv, TypeOK, InBounds, Slots
<1>4. Items' = [i \in 1 .. head - 1 |-> mem[i]]
  BY <1>1 DEF Items
<1>5. \A i \in 1 .. head - 1 : Items[i] \in S
  BY <1>2, <1>3
<1>6. /\ A \in Seq(S) /\ Len(A) = head - 1
      /\ \A i \in 1 .. head - 1 : A[i] = Items[i]
  <2>1. /\ A \in Seq(S)
        /\ Len(A) = IF 1 <= head - 1 THEN (head - 1) - 1 + 1 ELSE 0
        /\ \A i \in 1 .. (head - 1) - 1 + 1 : A[i] = Items[1 + i - 1]
    <3>1. head - 1 \in Int
      BY <1>2
    <3> QED BY <3>1, <1>5, SubSeqProperties
  <2> QED BY <1>2, <2>1
<1>7. A = [i \in 1 .. head - 1 |-> mem[i]]
  <2>1. A \in [1 .. head - 1 -> S]
    BY <1>6, LenProperties
  <2> QED BY <1>2, <1>3, <1>6, <2>1
<1>8. Items # <<>>
  BY <1>2, <1>3, EmptySeq
<1>9. popped' = Items[Len(Items)]
  BY <1>1, <1>2, <1>3
<1> QED BY <1>3, <1>4, <1>7, <1>8, <1>9

LEMMA StartsAsLifo == Init => Elements!Init
<1> SUFFICES ASSUME Init
             PROVE  Elements!Init
  OBVIOUS
<1>1. StackInv /\ head = 0
  BY StackInit DEF Init
<1>2. Items = <<>>
  BY <1>1, ItemsAreSequence, EmptySeq
<1> QED BY <1>2 DEF Init, Items, Elements!Init

LEMMA StepsAsLifo ==
  StackInv /\ [Next]_vars => [Elements!Next]_<<[i \in 1 .. head |-> mem[i]], popped>>
<1> SUFFICES ASSUME StackInv, [Next]_vars
             PROVE  [Elements!Next]_<<[i \in 1 .. head |-> mem[i]], popped>>
  OBVIOUS
<1>1. ASSUME NEW x \in Value, Push(x)
      PROVE  Elements!Push(x)
  BY <1>1, PushAppends DEF Items, Push, Elements!Push
<1>2. CASE PopEmpty
  <2>1. Items = <<>>
    BY <1>2, ItemsAreSequence, EmptySeq DEF PopEmpty
  <2> QED BY <1>2, <2>1 DEF PopEmpty, Items, Elements!Pop, Elements!Next
<1>3. CASE Pop
  BY <1>3, PopShortens DEF Items, Elements!Pop, Elements!Next
<1>4. CASE UNCHANGED vars
  BY <1>4 DEF vars
<1> QED BY <1>1, <1>2, <1>3, <1>4 DEF Next, Elements!Next

\* A pop gives what was pushed last and not popped since, whatever growth
\* and reuse of slots lies between (queue.c:137-159).
THEOREM StackIsLifo == Spec => IsLifo
<1>1. Init => Elements!Init
  BY StartsAsLifo
<1>2. StackInv /\ [Next]_vars => [Elements!Next]_<<[i \in 1 .. head |-> mem[i]], popped>>
  BY StepsAsLifo
<1> QED BY <1>1, <1>2, StackInvariant, PTL DEF Spec, IsLifo, Elements!Spec
=============================================================================
