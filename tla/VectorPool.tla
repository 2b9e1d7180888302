----------------------------- MODULE VectorPool -----------------------------
(***************************************************************************)
(* Where vectors come from and go to (aig_vectors.c): one stack of free    *)
(* vectors per size, filled NUM_VECS_TO_CREATE at a time, an inuse flag in *)
(* each vector, and two counters that machine_state_free compares to say   *)
(* whether vectors were leaked.                                            *)
(*                                                                         *)
(* A program holds the vectors it was given and releases each at most once;*)
(* the library's own operations are such programs.  A vector is the number *)
(* of its allocation; values are left out.                                 *)
(***************************************************************************)
EXTENDS Integers, Sequences, FiniteSets

CONSTANTS
  Sizes,               \* sizes of vector a program asks for
  NUM_VECS_TO_CREATE,
  REALLOC_DELTA,
  InitialStacks,       \* vectorStack_size set by machine_state_init
  MaxVectors           \* bound on the vectors allocated

ASSUME VectorPoolAssumption ==
  /\ Sizes \subseteq Nat \ {0}
  /\ NUM_VECS_TO_CREATE \in Nat \ {0}
  /\ REALLOC_DELTA \in Nat \ {0}
  /\ InitialStacks \in Nat
  /\ MaxVectors \in Nat

VARIABLES
  vectors,           \* the size and inuse fields of each vector allocated
  vectorStack_size,
  vectorStack,       \* for each size below that, the stack of free vectors
  vecs_allocated,
  vecs_in_stack,
  held,              \* the vectors the program holds
  freed,             \* TRUE once machine_state_free emptied the stacks
  warning            \* the number of vectors it said were not released

vars == <<vectors, vectorStack_size, vectorStack, vecs_allocated,
          vecs_in_stack, held, freed, warning>>

Init ==
  /\ vectors = <<>>
  /\ vectorStack_size = InitialStacks
  /\ vectorStack = [n \in 0 .. InitialStacks - 1 |-> <<>>]
  /\ vecs_allocated = 0
  /\ vecs_in_stack = 0
  /\ held = {}
  /\ freed = FALSE
  /\ warning = 0

\* The table of stacks, made longer when it has none for size n.
Stacks(n) == IF n >= vectorStack_size THEN n + REALLOC_DELTA ELSE vectorStack_size
Resized(n) ==
  [i \in 0 .. Stacks(n) - 1 |-> IF i < vectorStack_size THEN vectorStack[i] ELSE <<>>]

\* A bug: the number of vectors to create taken for their size.
alloc_vector_many(n) == [size |-> NUM_VECS_TO_CREATE, inuse |-> 0]

alloc_vector(n) == [size |-> n, inuse |-> 0]

\* The vector on top of the stack for size n becomes the program's, with the
\* inuse flag given; an empty stack is filled first.
Take(n, inuse) ==
  LET new == IF Resized(n)[n] = <<>> THEN NUM_VECS_TO_CREATE ELSE 0
      s   == Resized(n)[n] \o [i \in 1 .. new |-> Len(vectors) + i]
      top == s[Len(s)]
      all == vectors \o [i \in 1 .. new |-> alloc_vector(n)]
  IN  /\ ~freed
      /\ Len(all) <= MaxVectors
      /\ all[top].inuse = 0
      /\ vectorStack_size' = Stacks(n)
      /\ vectorStack' = [Resized(n) EXCEPT ![n] = SubSeq(s, 1, Len(s) - 1)]
      /\ vectors' = [all EXCEPT ![top].inuse = inuse]
      /\ vecs_allocated' = vecs_allocated + new
      /\ vecs_in_stack' = vecs_in_stack + new - 1
      /\ held' = held \cup {top}
      /\ UNCHANGED <<freed, warning>>

vec_get(n) == Take(n, 1)

\* vec_dup overwrites every field of the new vector with vec_copy, inuse too.
vec_dup(src) == Take(vectors[src].size, vectors[src].inuse)

\* A bug: the inuse flag stays set.
vec_release_in_use(v) ==
  /\ ~freed
  /\ vectors[v].inuse = 1
  /\ vectorStack' = [vectorStack EXCEPT ![vectors[v].size] = Append(@, v)]
  /\ vecs_in_stack' = vecs_in_stack + 1
  /\ held' = held \ {v}
  /\ UNCHANGED <<vectors, vectorStack_size, vecs_allocated, freed, warning>>

vec_release(v) ==
  /\ ~freed
  /\ vectors[v].inuse = 1
  /\ vectors' = [vectors EXCEPT ![v].inuse = 0]
  /\ vectorStack' = [vectorStack EXCEPT ![vectors[v].size] = Append(@, v)]
  /\ vecs_in_stack' = vecs_in_stack + 1
  /\ held' = held \ {v}
  /\ UNCHANGED <<vectorStack_size, vecs_allocated, freed, warning>>

\* A bug: the counters are subtracted the wrong way round.
FreeVectorsSwapped ==
  /\ ~freed
  /\ freed' = TRUE
  /\ warning' = vecs_in_stack - vecs_allocated
  /\ vectorStack' = [n \in {} |-> <<>>]
  /\ UNCHANGED <<vectors, vectorStack_size, vecs_allocated, vecs_in_stack, held>>

\* The end of machine_state_free: compare the counters and free the stacks.
FreeVectors ==
  /\ ~freed
  /\ freed' = TRUE
  /\ warning' = vecs_allocated - vecs_in_stack
  /\ vectorStack' = [n \in {} |-> <<>>]
  /\ UNCHANGED <<vectors, vectorStack_size, vecs_allocated, vecs_in_stack, held>>

Next ==
  \/ \E n \in Sizes : vec_get(n)
  \/ \E v \in held : vec_dup(v) \/ vec_release(v)
  \/ FreeVectors

Spec == Init /\ [][Next]_vars
-----------------------------------------------------------------------------
\* The vectors are numbered, and the table has a stack for every size up to
\* the one it was last grown for.
TypeOK ==
  /\ vectors \in Seq([size : Sizes, inuse : {0, 1}])
  /\ vectorStack_size \in Nat
  /\ ~freed => vectorStack \in [0 .. vectorStack_size - 1 -> Seq(1 .. Len(vectors))]
  /\ vecs_allocated \in Nat
  /\ vecs_in_stack \in Int
  /\ held \subseteq 1 .. Len(vectors)
  /\ freed \in BOOLEAN
  /\ warning \in Int

\* The places of the table where vector v is.
Slots(v) == {p \in UNION {{<<n, i>> : i \in 1 .. Len(vectorStack[n])} : n \in DOMAIN vectorStack} :
               vectorStack[p[1]][p[2]] = v}

\* A vector is in use and the program's, or is not and is in exactly one
\* place, on the stack of its own size.  So the assertions in vec_get and
\* vec_release hold, no vector is given out twice or with the wrong size,
\* and a vector's stack exists when it is released.
EachVectorOnce ==
  ~freed =>
    \A v \in 1 .. Len(vectors) :
      IF v \in held
        THEN vectors[v].inuse = 1 /\ Slots(v) = {}
        ELSE /\ vectors[v].inuse = 0
             /\ \E p \in Slots(v) : Slots(v) = {p} /\ p[1] = vectors[v].size

\* "Vectors were not released" (pcode_definitions.c:98): the counters differ
\* by the number of vectors the program has not released, and the warning
\* gives that number.
LeakReportIsExact ==
  /\ vecs_allocated - vecs_in_stack = Cardinality(held)
  /\ freed => warning = Cardinality(held)
=============================================================================
