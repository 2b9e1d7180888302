---------------------------- MODULE PointerQueue ----------------------------
(***************************************************************************)
(* void_queue (queue.c): a ring of cells that is never shrunk.  The        *)
(* elements are in the cells after head up to tail; an enqueue that finds  *)
(* no free cell first splices new ones in between tail and head.           *)
(***************************************************************************)
EXTENDS Naturals, Sequences, FiniteSets

CONSTANTS
  Value,                \* what is enqueued: pointers that are not null
  Nil,                  \* the null pointer
  QUEUE_INCREASE_SIZE,
  MaxCells              \* bound on the cells the ring grows to

ASSUME PointerQueueAssumption ==
  /\ QUEUE_INCREASE_SIZE \in Nat \ {0}
  /\ MaxCells \in Nat
  /\ Nil \notin Value

VARIABLES
  next,   \* the next field of the cells allocated, by cell
  x,      \* their x field; malloc leaves it unspecified, which Nil stands for
  head,   \* queue->head
  tail,   \* queue->tail
  taken   \* history: what the last dequeue returned

vars == <<next, x, head, tail, taken>>

Cells == DOMAIN next

\* queue_init: cells 0 to QUEUE_INCREASE_SIZE in a ring.
Init ==
  /\ next = [i \in 0 .. QUEUE_INCREASE_SIZE |->
               IF i = QUEUE_INCREASE_SIZE THEN 0 ELSE i + 1]
  /\ x = [i \in 0 .. QUEUE_INCREASE_SIZE |-> Nil]
  /\ head = 0
  /\ tail = 0
  /\ taken = Nil

\* A bug: the last new cell points back to tail.
IncreasedNextAtTail ==
  LET n == Cardinality(Cells)
      last == n + QUEUE_INCREASE_SIZE - 1
  IN  [[i \in 0 .. last |-> IF i \in Cells THEN next[i] ELSE i + 1]
         EXCEPT ![tail] = n, ![last] = tail]

\* increase_queue: the ring after new cells went in behind tail.
IncreasedNext ==
  LET n == Cardinality(Cells)
      last == n + QUEUE_INCREASE_SIZE - 1
  IN  [[i \in 0 .. last |-> IF i \in Cells THEN next[i] ELSE i + 1]
         EXCEPT ![tail] = n, ![last] = head]

Enqueue(e) ==
  LET full == next[tail] = head
      nxt  == IF full THEN IncreasedNext ELSE next
      slot == nxt[tail]
  IN  /\ full => Cardinality(Cells) + QUEUE_INCREASE_SIZE <= MaxCells
      /\ next' = nxt
      /\ tail' = slot
      /\ x' = [[i \in DOMAIN nxt |-> IF i \in Cells THEN x[i] ELSE Nil]
                 EXCEPT ![slot] = e]
      /\ UNCHANGED <<head, taken>>

DequeueEmpty ==
  /\ head = tail
  /\ taken' = Nil
  /\ UNCHANGED <<next, x, head, tail>>

\* A bug: the element of head is returned, not that of the cell after it.
DequeueHead ==
  /\ head # tail
  /\ head' = next[head]
  /\ taken' = x[head]
  /\ UNCHANGED <<next, x, tail>>

Dequeue ==
  /\ head # tail
  /\ head' = next[head]
  /\ taken' = x[next[head]]
  /\ UNCHANGED <<next, x, tail>>

Next ==
  \/ \E e \in Value : Enqueue(e)
  \/ DequeueEmpty
  \/ Dequeue

Spec == Init /\ [][Next]_vars
-----------------------------------------------------------------------------
\* The cells reached from a cell in k steps, 0 <= k <= number of cells.
Walk(from) ==
  LET cell[k \in 0 .. Cardinality(Cells)] ==
        IF k = 0 THEN from ELSE next[cell[k - 1]]
  IN  cell

\* The cells stay one ring: from head every cell is reached and the walk ends
\* at head again, so that queue_free, which cuts the ring at head and frees
\* along it, frees each cell once.
OneRing ==
  LET n == Cardinality(Cells)
  IN  /\ {Walk(head)[k] : k \in 0 .. n - 1} = Cells
      /\ Walk(head)[n] = head

Length == CHOOSE k \in 0 .. Cardinality(Cells) - 1 : Walk(head)[k] = tail

Elements == INSTANCE Fifo WITH
  items <- [k \in 1 .. Length |-> x[Walk(head)[k]]]

\* Elements leave in the order they came, however the ring wrapped and grew.
IsFifo == Elements!Spec
=============================================================================
