------------------------- MODULE ConditionalBranch --------------------------
(***************************************************************************)
(* conditional_branch (pcode_definitions.c) and the machine state it runs  *)
(* on: the register memory, the heap offset, the stack of path conditions  *)
(* (constcheck.c), the stack of memories that garbage collection walks,    *)
(* branch_error and stackframe_depth.                                      *)
(*                                                                         *)
(* conditional_branch calls back into the program (t_branch, t_cut,        *)
(* f_branch, f_cut) and the program calls conditional_branch, so a state   *)
(* has a stack of activations, frames.  A step is a store, an allocation   *)
(* or a failing assert of the program, or one stretch of conditional_branch*)
(* from a call or the return of a callback to the next callback or return. *)
(* Which step the program takes next is left open.                         *)
(*                                                                         *)
(* A memTuple pairs a cMemory and an sMemory that are always copied, kept  *)
(* and freed together: a handle stands for the pair, its cells are those   *)
(* of the cMemory.  The registers and the heap offset the library functions*)
(* use are one cell wide here.  Vectors that are duplicated are data.      *)
(***************************************************************************)
EXTENDS CMemory, Sequences

CONSTANTS
  Handle,          \* addresses malloc can give to a memory
  Freed,           \* what a handle that is not allocated refers to
  NoHandle,        \* a local variable of type memTuple not yet assigned
  HeapStart,       \* heap_offset given to machine_state_init
  Esp,             \* offset of the stack pointer (0x10)
  Eax,             \* offset of the return register (0x0)
  InitDepth,       \* stackframe_depth set by machine_state_init (20)
  DepthModulus,    \* 2^64, the width of stackframe_depth
  SatLimited,      \* TRUE if set_sat_solver_limits set a limit
  Condition,       \* the conditions a program may branch on
  Stores,          \* the store instructions of a program
  Moves,           \* its instructions that load from and store to registers
  MallocSizes,     \* the sizes a program may ask for, as vectors
  Pops,            \* what a library function adds to the stack pointer
  Unwritten,       \* of a run on one valuation: a byte it has not written,
  GivenUp,         \* and the run itself once it is given up
  MaxOps,          \* bound on the operations a program performs
  MaxFrames        \* bound on nested activations of conditional_branch

ASSUME BranchAssumption ==
  /\ Valuation # {}
  /\ HeapStart \in Byte
  /\ {Esp, Eax} \subseteq Offset
  /\ Esp # Eax
  /\ DepthModulus \in Nat \ {0}
  /\ InitDepth \in 0 .. DepthModulus - 1
  /\ SatLimited \in BOOLEAN
  /\ Condition \subseteq Literal
  /\ \A st \in Stores :
       /\ st.address \in Nat /\ st.size \in Nat /\ st.big_endian \in BOOLEAN
       /\ st.address >= base_address
       /\ st.bytes \in [0 .. st.size - 1 -> ByteVec]
  /\ \A mv \in Moves :
       /\ {mv.from, mv.to, mv.size} \subseteq Nat
       /\ {mv.from_big_endian, mv.big_endian} \subseteq BOOLEAN
       /\ mv.from >= base_address /\ mv.to >= base_address
  /\ MallocSizes \subseteq ByteVec
  /\ Pops \subseteq Nat
  /\ MaxOps \in Nat
  /\ MaxFrames \in Nat
  /\ NoHandle \notin Handle
  /\ Freed \notin Block
  /\ Handle # {}

\* A run that was given up has no registers, and no byte is unwritten by value.
ASSUME ConcreteAssumption ==
  /\ Unwritten \notin Byte \cup Offset
  /\ GivenUp \notin [cell : [Offset -> Byte \cup {Unwritten}], heap : Byte]

VARIABLES
  memory,            \* ms->memory, a handle
  blocks,            \* what each handle refers to
  heap_offset,       \* ms->heap_offset
  conditions_stack,  \* ms->conditions_stack, as the literals asserted true
  memories_stack,    \* ms->memories_stack, the handles in the tuples it points to
  branch_error,      \* ms->branch_error
  stackframe_depth,  \* ms->stackframe_depth
  frames,            \* activations of conditional_branch, the innermost last
  halted,            \* TRUE once an assertion or exit ended the process
  ops,               \* operations the program performed, bounded by MaxOps
  lost               \* history: valuations given up by an undecided SAT call

vars == <<memory, blocks, heap_offset, conditions_stack, memories_stack,
          branch_error, stackframe_depth, frames, halted, ops, lost>>

(***************************************************************************)
(* Activations.  kind is the case conditional_branch is in: "direct" for a *)
(* constant condition, "pruned" for one the path conditions decide and     *)
(* "forked" when both sides are followed; side is the value of the         *)
(* condition on the side being executed and stage the callback.            *)
(***************************************************************************)
Frame ==
  [kind   : {"direct", "pruned", "forked"},
   cond   : Literal,
   side   : BOOLEAN,
   stage  : {"branch", "cut"},
   c_head : Nat,                       \* conditions_stack->head when called
   m_head : Nat,                       \* memories_stack->head when called
   orig   : Handle \cup {NoHandle},    \* memories
   copy_t : Handle \cup {NoHandle},    \* mem_copy_t
   copy_f : Handle \cup {NoHandle},    \* mem_copy_f
   t_result : Handle \cup {NoHandle},  \* t_branch_result
   orig_heap : ByteVec,                \* orig_heap_offset
   t_heap : ByteVec,                   \* t_branch_heap_offset
   t_error : {0, 1}]                   \* t_branch_error

Top  == frames[Len(frames)]
Pop(s) == SubSeq(s, 1, Len(s) - 1)

\* The valuations that satisfy every condition pushed so far.
Path == {v \in Valuation :
           \A i \in 1 .. Len(conditions_stack) : v \in conditions_stack[i]}

Live == {h \in Handle : blocks[h] # Freed}

Init ==
  /\ \E h \in Handle :
       /\ memory = h
       /\ blocks = [g \in Handle |-> IF g = h THEN cMemory_init ELSE Freed]
  /\ heap_offset = vec_getConstant(HeapStart)
  /\ conditions_stack = <<>>
  /\ memories_stack = <<>>
  /\ branch_error = 0
  /\ stackframe_depth = InitDepth
  /\ frames = <<>>
  /\ halted = FALSE
  /\ ops = 0
  /\ lost = {}
-----------------------------------------------------------------------------
(***************************************************************************)
(* Operations of the program.                                              *)
(***************************************************************************)
StoreInto(cMem, st) ==
  IF st.big_endian
    THEN cMemory_store_be(cMem, st.address, st.bytes, st.size)
    ELSE cMemory_store_le(cMem, st.address, st.bytes, st.size)

Operate == ~halted /\ ops < MaxOps /\ ops' = ops + 1

Store(st) ==
  /\ Operate
  /\ InBounds(st.address, st.size)
  /\ blocks' = [blocks EXCEPT ![memory] = StoreInto(@, st)]
  /\ UNCHANGED <<memory, heap_offset, conditions_stack, memories_stack,
                 branch_error, stackframe_depth, frames, halted, lost>>

\* A store outside the block ends the process.
StoreOutside(st) ==
  /\ Operate
  /\ ~InBounds(st.address, st.size)
  /\ halted' = TRUE
  /\ UNCHANGED <<memory, blocks, heap_offset, conditions_stack, memories_stack,
                 branch_error, stackframe_depth, frames, lost>>

\* What a move stores.
Loaded(cMem, mv) ==
  [address |-> mv.to, size |-> mv.size, big_endian |-> mv.big_endian,
   bytes |-> IF mv.from_big_endian
               THEN cMemory_load_be(cMem, mv.from, mv.size)
               ELSE cMemory_load_le(cMem, mv.from, mv.size)]

MoveInBounds(mv) == InBounds(mv.from, mv.size) /\ InBounds(mv.to, mv.size)

\* A load and the store of what was loaded.
Move(mv) ==
  /\ Operate
  /\ MoveInBounds(mv)
  /\ blocks' = [blocks EXCEPT ![memory] = StoreInto(@, Loaded(@, mv))]
  /\ UNCHANGED <<memory, heap_offset, conditions_stack, memories_stack,
                 branch_error, stackframe_depth, frames, halted, lost>>

\* A load outside the block ends the process too.
MoveOutside(mv) ==
  /\ Operate
  /\ ~MoveInBounds(mv)
  /\ halted' = TRUE
  /\ UNCHANGED <<memory, blocks, heap_offset, conditions_stack, memories_stack,
                 branch_error, stackframe_depth, frames, lost>>

\* A bug: vec_add with a carry out of the last bit.
vec_add_unwrapped(x, y) == [v \in Valuation |-> x[v] + y[v]]

\* vec_add, on every valuation at once; it wraps.
vec_add(x, y) == [v \in Valuation |-> (x[v] + y[v]) % ByteModulus]

\* The prologue of every library function: the stack pointer moves by n.
PopReturn(cMem, n) ==
  [cMem EXCEPT ![Esp] = [value |-> vec_add(@.value, vec_getConstant(n)),
                      writtenTo |-> Const1]]

\* plib_malloc: return the heap offset and move it by the size asked for.
Malloc(size, n) ==
  /\ Operate
  /\ blocks' = [blocks EXCEPT ![memory] =
                  [PopReturn(@, n) EXCEPT ![Eax] =
                     [value |-> heap_offset, writtenTo |-> Const1]]]
  /\ heap_offset' = vec_add(heap_offset, size)
  /\ UNCHANGED <<memory, conditions_stack, memories_stack, branch_error,
                 stackframe_depth, frames, halted, lost>>

\* plib_free and plib_unknownFunction pop their arguments and do no more.
LibraryCall(n) ==
  /\ Operate
  /\ blocks' = [blocks EXCEPT ![memory] = PopReturn(@, n)]
  /\ UNCHANGED <<memory, heap_offset, conditions_stack, memories_stack,
                 branch_error, stackframe_depth, frames, halted, lost>>

\* plib___assert_fail on a path that is feasible ends the process ...
AssertFails(n) ==
  /\ Operate
  /\ 0 \in CondCheckUnsat(Path, SatLimited)
  /\ blocks' = [blocks EXCEPT ![memory] = PopReturn(@, n)]
  /\ halted' = TRUE
  /\ UNCHANGED <<memory, heap_offset, conditions_stack, memories_stack,
                 branch_error, stackframe_depth, frames, lost>>

\* ... and on any other it ends the path.
AssertUnreachable(n) ==
  /\ Operate
  /\ CondCheckUnsat(Path, SatLimited) \cap {1, -1} # {}
  /\ blocks' = [blocks EXCEPT ![memory] = PopReturn(@, n)]
  /\ branch_error' = 1
  /\ lost' = lost \cup Path
  /\ UNCHANGED <<memory, heap_offset, conditions_stack, memories_stack,
                 stackframe_depth, frames, halted>>
-----------------------------------------------------------------------------
(***************************************************************************)
(* conditional_branch up to its first callback, case by case.  A literal   *)
(* the AIG did not simplify to a constant may still be constant, so only   *)
(* the first case looks at that.                                           *)
(***************************************************************************)
Call == Operate /\ Len(frames) < MaxFrames

BranchSkipped ==
  /\ Call
  /\ branch_error = 1
  /\ UNCHANGED <<memory, blocks, heap_offset, conditions_stack, memories_stack,
                 branch_error, stackframe_depth, frames, halted, lost>>

NewFrame(kind, c, side) ==
  [kind |-> kind, cond |-> c, side |-> side, stage |-> "branch",
   c_head |-> Len(conditions_stack), m_head |-> Len(memories_stack),
   orig |-> NoHandle, copy_t |-> NoHandle, copy_f |-> NoHandle,
   t_result |-> NoHandle,
   orig_heap |-> heap_offset, t_heap |-> heap_offset, t_error |-> 0]

BranchConstant(c) ==
  /\ Call
  /\ branch_error = 0
  /\ c \in {Const0, Const1}
  /\ frames' = Append(frames, NewFrame("direct", c, c = Const1))
  /\ UNCHANGED <<memory, blocks, heap_offset, conditions_stack, memories_stack,
                 branch_error, stackframe_depth, halted, lost>>

\* A bug: the condition pushed is the one asked about, not its complement.
is_node_constant_unnegated(node, value) ==
  {IF r = 1 THEN 1 ELSE 0 :
     r \in CondCheckUnsat(Path \cap LitIs(node, value), SatLimited)}

\* The answers is_node_constant(node, value) can give: is node = value forced?
is_node_constant(node, value) ==
  {IF r = 1 THEN 1 ELSE 0 :
     r \in CondCheckUnsat(Path \cap LitIs(node, ~value), SatLimited)}

\* The path conditions force c to be side.
Decided(c, side) ==
  IF side
    THEN 0 \in is_node_constant(c, FALSE) /\ 1 \in is_node_constant(c, TRUE)
    ELSE 1 \in is_node_constant(c, FALSE)

BranchPruned(c, side) ==
  /\ Call
  /\ branch_error = 0
  /\ Decided(c, side)
  /\ 0 \in CondCheckUnsat(Path \cap LitIs(c, side), SatLimited)
  /\ conditions_stack' = Append(conditions_stack, LitIs(c, side))
  /\ frames' = Append(frames, NewFrame("pruned", c, side))
  /\ UNCHANGED <<memory, blocks, heap_offset, memories_stack, branch_error,
                 stackframe_depth, halted, lost>>

\* The forced side is infeasible too, or the solver gave up on it.
BranchInfeasible(c, side) ==
  /\ Call
  /\ branch_error = 0
  /\ Decided(c, side)
  /\ CondCheckUnsat(Path \cap LitIs(c, side), SatLimited) \cap {1, -1} # {}
  /\ branch_error' = 1
  /\ lost' = lost \cup Path
  /\ UNCHANGED <<memory, blocks, heap_offset, conditions_stack, memories_stack,
                 stackframe_depth, frames, halted>>

\* Both sides are possible: copy the memory twice and follow the true side.
BranchForked(c) ==
  /\ Call
  /\ branch_error = 0
  /\ 0 \in is_node_constant(c, FALSE)
  /\ 0 \in is_node_constant(c, TRUE)
  /\ stackframe_depth' = (stackframe_depth - 1) % DepthModulus
  /\ \E t \in Handle \ Live : \E f \in Handle \ (Live \cup {t}) :
       /\ blocks' = [blocks EXCEPT ![t] = blocks[memory], ![f] = blocks[memory]]
       /\ memory' = t
       /\ memories_stack' = Append(memories_stack, f)
       /\ frames' = Append(frames, [NewFrame("forked", c, TRUE) EXCEPT
                                      !.orig = memory, !.copy_t = t, !.copy_f = f])
  /\ conditions_stack' = Append(conditions_stack, LitIs(c, TRUE))
  /\ UNCHANGED <<heap_offset, branch_error, halted, lost>>
-----------------------------------------------------------------------------
(***************************************************************************)
(* conditional_branch from the return of a callback on.                    *)
(***************************************************************************)
InStage(stage) == ~halted /\ frames # <<>> /\ Top.stage = stage

\* A bug: the early return that forgets pop_condition.
ReturnWithoutPop ==
  /\ frames' = Pop(frames)
  /\ UNCHANGED <<memory, blocks, heap_offset, conditions_stack, memories_stack,
                 branch_error, stackframe_depth, halted, ops, lost>>

\* What a one-sided activation does before it returns.
ReturnOneSided ==
  /\ frames' = Pop(frames)
  /\ conditions_stack' = IF Top.kind = "pruned" THEN Pop(conditions_stack)
                                                ELSE conditions_stack
  /\ UNCHANGED <<memory, blocks, heap_offset, memories_stack, branch_error,
                 stackframe_depth, halted, ops, lost>>

\* The branch callback returned and the cut callback is called.
BranchToCut ==
  /\ InStage("branch")
  /\ Top.kind = "forked" \/ branch_error = 0
  /\ frames' = [frames EXCEPT ![Len(frames)].stage = "cut"]
  /\ UNCHANGED <<memory, blocks, heap_offset, conditions_stack, memories_stack,
                 branch_error, stackframe_depth, halted, ops, lost>>

\* A bug: a fork whose true side failed is left as well.
SkipCutAndFalseSide ==
  /\ InStage("branch")
  /\ branch_error = 1
  /\ ReturnOneSided

\* A one-sided activation skips the cut callback after an error.
SkipCut ==
  /\ InStage("branch")
  /\ Top.kind # "forked" /\ branch_error = 1
  /\ ReturnOneSided

ReturnAfterCut ==
  /\ InStage("cut")
  /\ Top.kind # "forked"
  /\ ReturnOneSided

\* Switch to the false side, leaving aside branch_error and the heap offset.
SwitchSides ==
  /\ InStage("cut")
  /\ Top.kind = "forked" /\ Top.side
  /\ frames' = [frames EXCEPT ![Len(frames)] =
                  [@ EXCEPT !.side = FALSE, !.stage = "branch",
                            !.t_result = memory, !.t_heap = heap_offset,
                            !.t_error = branch_error]]
  /\ conditions_stack' = Append(Pop(conditions_stack), LitIs(Top.cond, FALSE))
  /\ memories_stack' = Append(Pop(memories_stack), Top.copy_t)
  /\ memory' = Top.copy_f
  /\ UNCHANGED <<blocks, stackframe_depth, halted, ops, lost>>

\* Bugs: the false side starts from the true side's heap offset, or error.
TrueSideDoneKeepsHeap  == SwitchSides /\ branch_error' = 0 /\ UNCHANGED heap_offset
TrueSideDoneKeepsError ==
  SwitchSides /\ heap_offset' = Top.orig_heap /\ UNCHANGED branch_error

\* The true side is done: remember its result and follow the false side.
TrueSideDone ==
  /\ SwitchSides
  /\ branch_error' = 0
  /\ heap_offset' = Top.orig_heap

free(handles) == [h \in Handle |-> IF h \in handles THEN Freed ELSE blocks[h]]

\* Both sides are done: what happens to the stacks whatever memory is kept.
FalseSideDone ==
  /\ InStage("cut")
  /\ Top.kind = "forked" /\ ~Top.side
  /\ frames' = Pop(frames)
  /\ conditions_stack' = Pop(conditions_stack)
  /\ memories_stack' = Pop(memories_stack)
  /\ stackframe_depth' = (stackframe_depth + 1) % DepthModulus
  /\ UNCHANGED <<halted, ops, lost>>

KeepNeither ==
  /\ FalseSideDone
  /\ branch_error = 1 /\ Top.t_error = 1
  /\ blocks' = free({Top.t_result, memory})
  /\ memory' = Top.orig
  /\ heap_offset' = Top.orig_heap
  /\ UNCHANGED branch_error

\* A bug: the memory the conditional started from is not freed.
KeepFalseLeaks ==
  /\ FalseSideDone
  /\ branch_error = 0 /\ Top.t_error = 1
  /\ blocks' = free({Top.t_result})
  /\ UNCHANGED <<memory, heap_offset, branch_error>>

KeepFalse ==
  /\ FalseSideDone
  /\ branch_error = 0 /\ Top.t_error = 1
  /\ blocks' = free({Top.orig, Top.t_result})
  /\ UNCHANGED <<memory, heap_offset, branch_error>>

\* A bug: the memory of the true side is kept with the other's heap offset.
KeepTrueMixed ==
  /\ FalseSideDone
  /\ branch_error = 1 /\ Top.t_error = 0
  /\ blocks' = free({Top.orig, memory})
  /\ memory' = Top.t_result
  /\ branch_error' = 0
  /\ UNCHANGED heap_offset

KeepTrue ==
  /\ FalseSideDone
  /\ branch_error = 1 /\ Top.t_error = 0
  /\ blocks' = free({Top.orig, memory})
  /\ memory' = Top.t_result
  /\ heap_offset' = Top.t_heap
  /\ branch_error' = 0

\* A bug: the result of the true side is freed and still merged into.
MergeIntoFreed ==
  /\ FalseSideDone
  /\ branch_error = 0 /\ Top.t_error = 0
  /\ blocks' = free({Top.t_result, memory})
  /\ memory' = Top.t_result
  /\ heap_offset' = vec_ite(Top.cond, Top.t_heap, heap_offset)
  /\ UNCHANGED branch_error

Merge ==
  /\ FalseSideDone
  /\ branch_error = 0 /\ Top.t_error = 0
  /\ LET t == Top.t_result
     IN  /\ blocks' = [free({Top.orig, memory}) EXCEPT
                         ![t] = cMemory_ite(Top.cond, blocks[t], blocks[memory])]
         /\ memory' = t
  /\ heap_offset' = vec_ite(Top.cond, Top.t_heap, heap_offset)
  /\ UNCHANGED branch_error
-----------------------------------------------------------------------------
Next ==
  \/ \E st \in Stores : Store(st) \/ StoreOutside(st)
  \/ \E mv \in Moves : Move(mv) \/ MoveOutside(mv)
  \/ \E n \in Pops :
       \/ \E size \in MallocSizes : Malloc(size, n)
       \/ LibraryCall(n)
       \/ AssertFails(n)
       \/ AssertUnreachable(n)
  \/ BranchSkipped
  \/ \E c \in Condition :
       \/ BranchConstant(c)
       \/ BranchForked(c)
       \/ \E side \in BOOLEAN : BranchPruned(c, side) \/ BranchInfeasible(c, side)
  \/ BranchToCut
  \/ SkipCut
  \/ ReturnAfterCut
  \/ TrueSideDone
  \/ KeepNeither
  \/ KeepFalse
  \/ KeepTrue
  \/ Merge

Spec == Init /\ [][Next]_vars

\* The return of a callback, after which conditional_branch goes on.
Return ==
  \/ BranchToCut \/ SkipCut \/ ReturnAfterCut \/ TrueSideDone
  \/ KeepNeither \/ KeepFalse \/ KeepTrue \/ Merge

\* A program whose callbacks return, as a C function does that has no endless
\* loop.
FairSpec == Spec /\ WF_vars(Return)
-----------------------------------------------------------------------------
(***************************************************************************)
(* Properties.                                                             *)
(***************************************************************************)
\* The variables have the types of the fields of machine_state they model.
TypeOK ==
  /\ memory \in Handle
  /\ blocks \in [Handle -> Block \cup {Freed}]
  /\ heap_offset \in ByteVec
  /\ conditions_stack \in Seq(Literal)
  /\ memories_stack \in Seq(Handle)
  /\ branch_error \in {0, 1}
  /\ stackframe_depth \in 0 .. DepthModulus - 1
  /\ frames \in Seq(Frame)
  /\ halted \in BOOLEAN
  /\ ops \in Nat
  /\ lost \in Literal

Forked == {k \in 1 .. Len(frames) : frames[k].kind = "forked"}

\* The memory of an activation's other side: still to run, or its result.
Pending(f) == IF f.side THEN f.copy_f ELSE f.t_result

\* Every memory has exactly one owner, ms->memory or a local of one open
\* activation, and nothing else is allocated: conditional_branch never frees
\* a memory twice, keeps a freed one, shares one between sides or leaks one.
OneOwner ==
  /\ Live = {memory} \cup {frames[k].orig : k \in Forked}
                     \cup {Pending(frames[k]) : k \in Forked}
  /\ \A k \in Forked :
       /\ frames[k].orig # Pending(frames[k])
       /\ memory \notin {frames[k].orig, Pending(frames[k])}
       /\ \A j \in Forked \ {k} :
            {frames[k].orig, Pending(frames[k])}
              \cap {frames[j].orig, Pending(frames[j])} = {}

\* How far the stacks are up when activation k starts; after the last, now.
CondHead(k) == IF k > Len(frames) THEN Len(conditions_stack) ELSE frames[k].c_head
MemHead(k)  == IF k > Len(frames) THEN Len(memories_stack) ELSE frames[k].m_head

\* The stacks hold exactly what the open activations pushed, in their order:
\* the path conditions say which side each one is on, memories_stack has the
\* copy for the other side, and stackframe_depth counts the forks.  Hence a
\* path is run under its own conditions, whatever its callbacks did, and the
\* assertion on m_head holds.
StacksBalanced ==
  /\ CondHead(1) = 0
  /\ MemHead(1) = 0
  /\ \A k \in 1 .. Len(frames) :
       /\ CondHead(k + 1) = CondHead(k) + IF frames[k].kind = "direct" THEN 0 ELSE 1
       /\ MemHead(k + 1) = MemHead(k) + IF frames[k].kind = "forked" THEN 1 ELSE 0
       /\ frames[k].kind # "direct" =>
            conditions_stack[frames[k].c_head + 1] = LitIs(frames[k].cond, frames[k].side)
       /\ frames[k].kind = "forked" =>
            memories_stack[frames[k].m_head + 1] =
              IF frames[k].side THEN frames[k].copy_f ELSE frames[k].copy_t
  /\ stackframe_depth = (InitDepth - Len(memories_stack)) % DepthModulus

\* The valuations on the true side of activation k.
PathBefore(k) ==
  {v \in Valuation : \A i \in 1 .. CondHead(k) : v \in conditions_stack[i]}

\* A path is only ever ended by an error when no valuation is left on it, or
\* the solver did not decide whether one is: no valuation is dropped because
\* branch_error leaked from the other side or from an inner conditional.
ErrorsOnlyWhereLost ==
  /\ branch_error = 1 => Path \subseteq lost
  /\ \A k \in Forked :
       ~frames[k].side /\ frames[k].t_error = 1
         => PathBefore(k) \cap frames[k].cond \subseteq lost

\* With no limit on the solver no valuation is given up at all: every path
\* that is entered is feasible and branch_error is never set.
NothingLost == ~SatLimited => lost = {} /\ branch_error = 0 /\ Path # {}

Follows(n, side) ==
  n <= Len(frames) /\ frames[n].kind = "forked" /\ frames[n].side = side

\* If callbacks return and the process does not end, every fork gets to its
\* false side, also when the true side ended in an error, and every
\* conditional returns: whatever errors the conditionals inside it set and
\* cleared, one of the ways to go on applies.
BranchesComplete ==
  \A n \in 1 .. MaxFrames :
    /\ Follows(n, TRUE) ~> Follows(n, FALSE) \/ halted
    /\ Len(frames) >= n ~> Len(frames) < n \/ halted

\* The activations that are executing the side v is not on.
Elsewhere(v) == {k \in Forked : (v \in frames[k].cond) # frames[k].side}
Outermost(S) == CHOOSE k \in S : \A j \in S : k <= j

\* Where the registers and heap offset of the run on v are kept.
Home(v) ==
  IF Elsewhere(v) = {} THEN memory ELSE Pending(frames[Outermost(Elsewhere(v))])
HomeHeap(v) ==
  IF Elsewhere(v) = {}
    THEN heap_offset[v]
    ELSE LET f == frames[Outermost(Elsewhere(v))]
         IN  IF f.side THEN f.orig_heap[v] ELSE f.t_heap[v]

Written(v, i) == v \in blocks[Home(v)][i].writtenTo

\* The byte a store instruction writes at offset i on valuation v.
StoredByte(st, i, v) ==
  LET k == i - (st.address - base_address)
  IN  IF InBounds(st.address, st.size) /\ k \in 0 .. st.size - 1
        THEN st.bytes[IF st.big_endian THEN (st.size - 1) - k ELSE k][v]
        ELSE Unwritten

\* The offset of the byte that a move copies to offset i.
CopiedFrom(mv, i) ==
  LET k == i - (mv.to - base_address)
      j == IF mv.from_big_endian = mv.big_endian THEN k ELSE (mv.size - 1) - k
  IN  IF MoveInBounds(mv) /\ k \in 0 .. mv.size - 1
        THEN (mv.from - base_address) + j
        ELSE Unwritten

\* The run on v and the conditionals it is inside of.
ConcreteRun(v) ==
  IF v \in lost
    THEN GivenUp
    ELSE [cell |-> [i \in Offset |-> IF Written(v, i) THEN blocks[Home(v)][i].value[v]
                                                    ELSE Unwritten],
          heap |-> HomeHeap(v)]

NowAndTodo(f) ==
  [now  |-> LitIs(f.cond, f.side),
   todo |-> IF f.kind = "forked" /\ ~f.side THEN {} ELSE LitIs(f.cond, ~f.side)]

runs   == [v \in Valuation |-> ConcreteRun(v)]
opened == [k \in 1 .. Len(frames) |-> NowAndTodo(frames[k])]

Concrete == INSTANCE ConcreteRuns WITH run <- runs, open <- opened

\* Symbolic execution is right: on every valuation not given up it computes
\* the registers and the heap offset of the run of the program on those
\* inputs.  A store or allocation on one side never shows on the other and a
\* merge changes nothing that a run wrote.
RunsConcretely == Concrete!Spec
-----------------------------------------------------------------------------
(***************************************************************************)
(* What the source says and the code does not do.                          *)
(***************************************************************************)
\* The memories that machine_state_update_probes reads, and updates the
\* probes of, when a call of conditional_branch collects garbage.
GcWalk == {memory} \cup {memories_stack[i] : i \in 1 .. Len(memories_stack)}

\* "Update probes for all literals in memory" (aig_vectors.c:1709): whenever
\* conditional_branch may collect garbage, the memories it walks exist.
GcWalksLiveMemory == ~halted /\ branch_error = 0 => GcWalk \subseteq Live

\* "assert reached symbolically, however, no concrete inputs cause this
\* assert" (pcode_definitions.c:967): said of infeasible paths only.
AssertVerdictIsRight ==
  [][(\E n \in Pops : AssertUnreachable(n)) => Path = {}]_vars
=============================================================================
