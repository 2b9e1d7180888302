--------------------------- MODULE SymbolicMemory ---------------------------
(***************************************************************************)
(* The symbolically addressed memory (sMemory, memory.c).  A memory is a   *)
(* node with the stores made to it, on top of nothing, of the one memory   *)
(* it is a copy of, or of the two it is the if-then-else of.  Copies and   *)
(* merges share nodes, so memories form a directed acyclic graph.  Loads   *)
(* memoize their result in the nodes they visit, sMemory_free and garbage  *)
(* collection mark the nodes they visit with the same memoized_flag, and   *)
(* each of these starts a new value of CurrsMemFlag.                       *)
(*                                                                         *)
(* The graph and the flag are one record, heap, that the operators named   *)
(* after the functions take and return.  The actions are those of a        *)
(* program and of conditional_branch (pcode_definitions.c) on them, with   *)
(* sMemory_auto_compress as machine_state_init sets it.                    *)
(***************************************************************************)
EXTENDS Literals, Sequences, SequencesExt, FiniteSetsExt

CONSTANTS
  ByteModulus,     \* number of values of a byte
  AddressModulus,  \* 2^address_size
  Condition,       \* literals a program may branch on
  Vectors,         \* address vectors a program may use
  Words,           \* words it may store: byte vectors, least significant first
  LoadSizes,       \* and the number of bytes it may load
  NULL,            \* no node
  Gone,            \* what a freed node refers to
  Nothing,         \* contents of an address that was never stored to
  MaxNodes,        \* bound on the nodes in use
  MaxOps,          \* bound on the operations a program performs
  MaxFrames        \* bound on nested forks

Byte    == 0 .. ByteModulus - 1
Address == 0 .. AddressModulus - 1
Node    == 1 .. MaxNodes

\* sMemoryCell and sMemory, without the probes and the bookkeeping of the array.
Cell == [address : [Valuation -> Address], value : [Valuation -> Byte]]

sMemory ==
  [cells : Seq(Cell), c : Literal, sMemT : Node \cup {NULL}, sMemF : Node \cup {NULL},
   memoized_flag : Nat, memoized_value : [Valuation -> Byte], writtenTo : Literal]

ASSUME SymbolicMemoryAssumption ==
  /\ Valuation # {}
  /\ ByteModulus \in Nat \ {0}
  /\ AddressModulus \in Nat \ {0}
  /\ MaxNodes \in Nat \ {0}
  /\ Condition \subseteq Literal
  /\ Vectors \subseteq [Valuation -> Address]
  /\ Words \subseteq Seq([Valuation -> Byte])
  /\ LoadSizes \subseteq Nat \ {0}
  /\ NULL \notin Node
  /\ Gone \notin sMemory
  /\ Nothing \notin Byte

VARIABLES
  heap,          \* [nodes, sMemInitStack, CurrsMemFlag]
  memory,        \* ms->memory.sMem
  branch_error,  \* ms->branch_error
  frames,        \* activations of conditional_branch that forked
  loaded,        \* what the last load returned: its bytes and, of the last
                 \* of them, the address and what writtenTo says of it
  ops            \* operations the program performed, bounded by MaxOps

vars == <<heap, memory, branch_error, frames, loaded, ops>>

vec_equal(x, y) == {v \in Valuation : x[v] = y[v]}
vec_plus(x, k)  == [v \in Valuation |-> (x[v] + k) % AddressModulus]
vec_zero_byte   == vec_getConstant(0)

Live(h)  == {n \in Node : h.nodes[n] # Gone}
Children(h, n) == {h.nodes[n].sMemT, h.nodes[n].sMemF} \ {NULL}

\* The nodes that can be reached from n, n among them.
Below(h) ==
  LET below[n \in Node] ==
        {n} \cup UNION {below[m] : m \in IF n \in Live(h) THEN Children(h, n) ELSE {}}
  IN  below
-----------------------------------------------------------------------------
(***************************************************************************)
(* Creating, merging and freeing memories.                                 *)
(***************************************************************************)
NewNode(h) == Min(Node \ Live(h))

\* sMemory_init, with the fields sMemory_copy and sMemory_ite assign to.
sMemory_init(h, c, t, f) ==
  [h EXCEPT
     !.nodes[NewNode(h)] = [cells |-> <<>>, c |-> c, sMemT |-> t, sMemF |-> f,
                            memoized_flag |-> 0, memoized_value |-> vec_zero_byte,
                            writtenTo |-> Const0],
     !.sMemInitStack = @ \cup {NewNode(h)}]

sMemory_copy(h, m) == sMemory_init(h, Const1, m, NULL)

\* A bug: the node is deleted, what only it refers to is not.
sMemory_free_shallow(h, m) ==
  LET used == UNION {Below(h)[r] : r \in h.sMemInitStack \ {m}}
  IN  [h EXCEPT
         !.nodes = [n \in Node |-> IF n \in {m} \ used THEN Gone ELSE h.nodes[n]],
         !.sMemInitStack = @ \ {m},
         !.CurrsMemFlag = @ + 1]

\* Mark what other memories still use, delete the rest of what m used.
sMemory_free(h, m) ==
  LET others  == h.sMemInitStack \ {m}
      used    == UNION {Below(h)[r] : r \in others}
      flag    == h.CurrsMemFlag + 1
      deleted == Below(h)[m] \ used
  IN  [nodes |-> [n \in Node |->
                    IF n \in deleted THEN Gone
                    ELSE IF n \in used \cap Live(h)
                      THEN [h.nodes[n] EXCEPT !.memoized_flag = flag]
                    ELSE h.nodes[n]],
       sMemInitStack |-> others,
       CurrsMemFlag  |-> flag]

\* The merged memory is the new node; it keeps what t and f refer to in use.
sMemory_ite(h, c, t, f) ==
  CASE c = Const0 -> sMemory_free(h, t)
    [] c = Const1 -> sMemory_free(h, f)
    [] OTHER      -> sMemory_free(sMemory_free(sMemory_init(h, c, t, f), t), f)

IteNode(h, c, t, f) ==
  CASE c = Const0 -> f
    [] c = Const1 -> t
    [] OTHER      -> NewNode(h)
-----------------------------------------------------------------------------
(***************************************************************************)
(* Stores.                                                                 *)
(***************************************************************************)
\* sMemory_removeByte: drop the newest cell stored to this very address.
removeByte(cells, address) ==
  LET same == {i \in DOMAIN cells : cells[i].address = address}
  IN  IF same = {} THEN cells ELSE RemoveAt(cells, Max(same))

storeByte(cells, address, byte) ==
  Append(removeByte(cells, address), [address |-> address, value |-> byte])

\* The byte of a word that goes k bytes after its address.
ByteAt(word, big_endian, k) == IF big_endian THEN word[Len(word) - k] ELSE word[k + 1]

\* sMemory_store_le and sMemory_store_be: byte after byte, upwards.
StoreWord(cells, address, word, big_endian) ==
  LET stored[k \in 0 .. Len(word)] ==
        IF k = 0 THEN cells
        ELSE storeByte(stored[k - 1], vec_plus(address, k - 1),
                       ByteAt(word, big_endian, k - 1))
  IN  stored[Len(word)]
-----------------------------------------------------------------------------
(***************************************************************************)
(* Loads.  The calls sMemory_loadByte makes of itself are written as       *)
(* functions on nodes: within one load a node is computed once, and a      *)
(* later visit finds its memo.                                             *)
(***************************************************************************)
\* A bug: the loop over the cells that starts at 1.
MatchingButFirst(cells, address) ==
  UNION {vec_equal(address, cells[i].address) : i \in DOMAIN cells \ {1}}

\* sMemory_loadLocal and sMem_stackMerge on the node's own cells: the newest
\* that matches wins, and where none does the value is base.
Matching(cells, address) == UNION {vec_equal(address, cells[i].address) : i \in DOMAIN cells}
Perfect(cells, address)  == \E i \in DOMAIN cells : vec_equal(address, cells[i].address) = Const1

stackMerge(cells, address, base) ==
  [v \in Valuation |->
     LET hits == {i \in DOMAIN cells : cells[i].address[v] = address[v]}
     IN  IF hits = {} THEN base[v] ELSE cells[Max(hits)].value[v]]

Memoized(h, n) == h.nodes[n].memoized_flag = h.CurrsMemFlag

\* The value sMemory_loadByte returns for each node.
ByteValue(h, address) ==
  LET val[n \in Live(h)] ==
        LET m == h.nodes[n]
        IN  IF Memoized(h, n)
              THEN m.memoized_value
              ELSE stackMerge(m.cells, address,
                     CASE Perfect(m.cells, address) -> vec_zero_byte
                       [] ~Perfect(m.cells, address) /\ m.sMemT = NULL -> vec_zero_byte
                       [] ~Perfect(m.cells, address) /\ m.sMemT # NULL /\ m.sMemF = NULL
                            -> val[m.sMemT]
                       [] OTHER -> vec_ite(m.c, val[m.sMemT], val[m.sMemF]))
  IN  val

\* The literal it leaves in writtenTo.  The merge of an if-then-else node
\* takes the node's condition for one of the comparisons with an address.
ByteWritten(h, address) ==
  LET written[n \in Live(h)] ==
        LET m == h.nodes[n]
            local == Matching(m.cells, address)
        IN  CASE Memoized(h, n) -> m.writtenTo
              [] ~Memoized(h, n) /\ Perfect(m.cells, address) -> Const1
              [] ~Memoized(h, n) /\ ~Perfect(m.cells, address) /\ m.sMemT = NULL -> local
              [] ~Memoized(h, n) /\ ~Perfect(m.cells, address)
                   /\ m.sMemT # NULL /\ m.sMemF = NULL
                   -> HashOr(local, written[m.sMemT])
              [] OTHER -> HashOr(HashMux(m.c, written[m.sMemT], written[m.sMemF]),
                                 HashOr(m.c, local))
  IN  written

\* The nodes whose value it computes anew.
Visited(h, address) ==
  LET visited[n \in Live(h)] ==
        CASE Memoized(h, n) -> {}
          [] ~Memoized(h, n) /\ Perfect(h.nodes[n].cells, address) -> {n}
          [] OTHER -> {n} \cup UNION {visited[m] : m \in Children(h, n)}
  IN  visited

\* A bug: a load that trusts the memos of the one before.
SameFlag(h) == h

NextFlag(h) == [h EXCEPT !.CurrsMemFlag = @ + 1]

loadByte(h, m, address) ==
  LET val == ByteValue(h, address)
      written == ByteWritten(h, address)
      visited == Visited(h, address)[m]
  IN  [h EXCEPT !.nodes =
         [n \in Node |->
            IF n \in visited
              THEN [h.nodes[n] EXCEPT !.memoized_flag = h.CurrsMemFlag,
                                      !.memoized_value = val[n],
                                      !.writtenTo = written[n]]
              ELSE h.nodes[n]]]

\* sMemory_load_le, and sMemory_load_be that starts at the last byte and goes
\* down: least significant byte first, with a new flag for each byte.
LoadWord(h, m, address, size, big_endian) ==
  LET at(k) == vec_plus(address, IF big_endian THEN size - k ELSE k - 1)
      done[k \in 0 .. size] ==
        IF k = 0
          THEN [heap |-> h, bytes |-> <<>>]
          ELSE LET g == NextFlag(done[k - 1].heap)
               IN  [heap  |-> loadByte(g, m, at(k)),
                    bytes |-> Append(done[k - 1].bytes, ByteValue(g, at(k))[m])]
  IN  [heap |-> done[size].heap, bytes |-> done[size].bytes, last |-> at(size)]
-----------------------------------------------------------------------------
(***************************************************************************)
(* The program and conditional_branch at work on the memory.               *)
(***************************************************************************)
Init ==
  /\ heap = sMemory_init([nodes |-> [n \in Node |-> Gone], sMemInitStack |-> {},
                          CurrsMemFlag |-> 0], Const1, NULL, NULL)
  /\ memory = 1
  /\ branch_error = 0
  /\ frames = <<>>
  /\ loaded = [bytes |-> <<>>, address |-> NULL, writtenTo |-> Const1]
  /\ ops = 0

Operate == ops < MaxOps /\ ops' = ops + 1

Store(address, word, big_endian) ==
  /\ Operate
  /\ heap' = [heap EXCEPT !.nodes[memory].cells =
                StoreWord(@, address, word, big_endian)]
  /\ UNCHANGED <<memory, branch_error, frames, loaded>>

Load(address, size, big_endian) ==
  /\ Operate
  /\ LET load == LoadWord(heap, memory, address, size, big_endian)
     IN  /\ heap' = load.heap
         /\ loaded' = [bytes |-> load.bytes, address |-> load.last,
                       writtenTo |-> load.heap.nodes[memory].writtenTo]
  /\ UNCHANGED <<memory, branch_error, frames>>

Fail ==
  /\ Operate
  /\ branch_error = 0
  /\ branch_error' = 1
  /\ UNCHANGED <<heap, memory, frames, loaded>>

Top == frames[Len(frames)]

\* A bug: the true side goes on with the memory itself.
ForkInPlace(c) ==
  /\ Operate
  /\ branch_error = 0
  /\ Len(frames) < MaxFrames
  /\ Cardinality(Node \ Live(heap)) >= 2
  /\ heap' = sMemory_copy(heap, memory)
  /\ frames' = Append(frames, [c |-> c, side |-> TRUE, orig |-> memory, copy_t |-> memory,
                               other |-> NewNode(heap), t_error |-> 0])
  /\ UNCHANGED <<memory, branch_error, loaded>>

\* Two copies are taken; memories_stack has the one that waits.
Fork(c) ==
  /\ Operate
  /\ branch_error = 0
  /\ Len(frames) < MaxFrames
  /\ Cardinality(Node \ Live(heap)) >= 2
  /\ LET t == NewNode(heap)
         h == sMemory_copy(heap, memory)
         f == NewNode(h)
     IN  /\ heap' = sMemory_copy(h, memory)
         /\ memory' = t
         /\ frames' = Append(frames, [c |-> c, side |-> TRUE, orig |-> memory,
                                      copy_t |-> t, other |-> f, t_error |-> 0])
  /\ UNCHANGED <<branch_error, loaded>>

\* other is the copy for the false side, then the result of the true one.
TrueSideDone ==
  /\ frames # <<>> /\ Top.side
  /\ memory' = Top.other
  /\ frames' = [frames EXCEPT ![Len(frames)] =
                  [@ EXCEPT !.side = FALSE, !.other = memory, !.t_error = branch_error]]
  /\ branch_error' = 0
  /\ UNCHANGED <<heap, loaded, ops>>

FalseSideDone ==
  /\ frames # <<>> /\ ~Top.side
  /\ frames' = SubSeq(frames, 1, Len(frames) - 1)
  /\ UNCHANGED <<loaded, ops>>

KeepNeither ==
  /\ FalseSideDone
  /\ branch_error = 1 /\ Top.t_error = 1
  /\ heap' = sMemory_free(sMemory_free(heap, Top.other), memory)
  /\ memory' = Top.orig
  /\ UNCHANGED branch_error

KeepFalse ==
  /\ FalseSideDone
  /\ branch_error = 0 /\ Top.t_error = 1
  /\ heap' = sMemory_free(sMemory_free(heap, Top.orig), Top.other)
  /\ UNCHANGED <<memory, branch_error>>

KeepTrue ==
  /\ FalseSideDone
  /\ branch_error = 1 /\ Top.t_error = 0
  /\ heap' = sMemory_free(sMemory_free(heap, Top.orig), memory)
  /\ memory' = Top.other
  /\ branch_error' = 0

Merge ==
  /\ FalseSideDone
  /\ branch_error = 0 /\ Top.t_error = 0
  /\ LET h == sMemory_free(heap, Top.orig)
     IN  /\ Live(h) # Node
         /\ heap' = sMemory_ite(h, Top.c, Top.other, memory)
         /\ memory' = IteNode(h, Top.c, Top.other, memory)
  /\ UNCHANGED branch_error

\* machine_state_update_probes, when conditional_branch collects garbage: it
\* marks every node of the memory in use and of those on memories_stack.
\* sMemory_compress does nothing as long as sMemory_auto_compress is set.
Walked == {memory} \cup {IF frames[k].side THEN frames[k].other ELSE frames[k].copy_t :
                           k \in 1 .. Len(frames)}

CollectGarbage ==
  /\ Operate
  /\ branch_error = 0
  /\ Walked \subseteq Live(heap)
  /\ LET seen == UNION {Below(heap)[m] : m \in Walked}
         flag == heap.CurrsMemFlag + 1
     IN  heap' = [heap EXCEPT
                    !.CurrsMemFlag = flag,
                    !.nodes = [n \in Node |->
                                 IF n \in seen
                                   THEN [heap.nodes[n] EXCEPT !.memoized_flag = flag]
                                   ELSE heap.nodes[n]]]
  /\ UNCHANGED <<memory, branch_error, frames, loaded>>

Next ==
  \/ \E address \in Vectors, big_endian \in BOOLEAN :
       \/ \E word \in Words : Store(address, word, big_endian)
       \/ \E size \in LoadSizes : Load(address, size, big_endian)
  \/ Fail
  \/ \E c \in Condition : Fork(c)
  \/ TrueSideDone
  \/ KeepNeither
  \/ KeepFalse
  \/ KeepTrue
  \/ Merge
  \/ CollectGarbage

Spec == Init /\ [][Next]_vars
-----------------------------------------------------------------------------
(***************************************************************************)
(* Properties.                                                             *)
(***************************************************************************)
\* The memories conditional_branch and the machine state hold.
Held == {memory} \cup UNION {{frames[k].orig, frames[k].other} : k \in 1 .. Len(frames)}

\* The graph has exactly the nodes that a memory in use is made of:
\* sMemory_free never deletes a node another memory still refers to, and
\* leaves none behind that no memory refers to.
NodesAreThoseInUse ==
  /\ heap.sMemInitStack = Held
  /\ Live(heap) = UNION {Below(heap)[m] : m \in Held}

\* The memory being stored to is part of no other memory, so that a store
\* cannot be seen through a copy or a merge.
StoresAreNotShared ==
  \A n \in Live(heap) : memory \notin Children(heap, n)

\* What a memory holds, by valuation and address.
Contents(h) ==
  LET arr[n \in Node] ==
        LET m == h.nodes[n]
            local(v, a) == {i \in DOMAIN m.cells : m.cells[i].address[v] = a}
        IN  IF m = Gone THEN [v \in Valuation |-> [a \in Address |-> Gone]]
            ELSE [v \in Valuation |-> [a \in Address |->
                    IF local(v, a) # {} THEN m.cells[Max(local(v, a))].value[v]
                    ELSE IF m.sMemT = NULL THEN Nothing
                    ELSE IF m.sMemF = NULL \/ v \in m.c THEN arr[m.sMemT][v][a]
                    ELSE arr[m.sMemF][v][a]]]
  IN  arr

Memory == Contents(heap)

\* The valuations under which the memory has been stored to at the address.
StoredAt(m, address) == {v \in Valuation : Memory[m][v][address[v]] # Nothing}

\* writtenTo admits every byte that was stored: a load never raises a false
\* read-before-write alarm.
WritesAreReported ==
  [][loaded' # loaded => StoredAt(memory, loaded'.address) \subseteq loaded'.writtenTo]_vars

\* "Read-before-write error" (vectype.h:68): writtenTo admits no other byte.
WrittenToIsExact ==
  [][loaded' # loaded => loaded'.writtenTo \subseteq StoredAt(memory, loaded'.address)]_vars

Promise == INSTANCE ArrayMemory WITH
  current <- Memory[memory],
  failed  <- branch_error = 1,
  open    <- [k \in 1 .. Len(frames) |->
                [c |-> frames[k].c, side |-> frames[k].side,
                 orig |-> Memory[frames[k].orig], other |-> Memory[frames[k].other],
                 t_failed |-> frames[k].t_error = 1]],
  loaded  <- loaded.bytes

\* Shared nodes, lazy merges, memos and flags are all invisible: loads and
\* stores behave as on arrays that are copied at a fork and merged by value.
BehavesAsArrays == Promise!Spec
=============================================================================
