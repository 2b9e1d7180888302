# Verification of c_symsim in TLA+

c_symsim is a C library for the symbolic simulation of machine code. A program that has been
translated to calls of the library runs once for all inputs: registers and memory hold vectors of
literals of an and-inverter graph (AIG), conditionals call back into the program for each side that
is possible, and a SAT solver (ABC's sweeper) says which sides are. The modules here model the parts
of the library that keep state, say what each promises, and check and prove that the code keeps it.

## The system

| Part | Source | State | Operations |
|---|---|---|---|
| Conditional branches | `pcode_definitions.c` 710-918, `constcheck.c` | `memory`, `heap_offset`, `conditions_stack`, `memories_stack`, `branch_error`, `stackframe_depth`, the C stack | `conditional_branch` and its four callbacks, `push_condition`, `pop_condition`, `is_node_constant`, `are_conditions_unsat` |
| Library functions | `pcode_definitions.c` 920-988 | registers, `heap_offset`, `branch_error` | `plib_malloc`, `plib_free`, `plib___assert_fail`, `plib_unknownFunction` |
| cMemory (registers) | `memory.c` 1-253 | a block of cells with a value and `writtenTo` | init, copy, free, load, store (both byte orders), `cMemory_ite` |
| sMemory (symbolic addresses) | `memory.c` 255-1006 | a graph of nodes shared by copies and merges, `CurrsMemFlag`, `sMemInitStack` | init, copy, free, load, store, `sMemory_ite`, compress |
| Array stack | `queue.c` 112-165 | `head`, `size`, `mem` | push, pop, growth |
| Pointer queue, pointer stack | `queue.c` 1-110 | linked cells | enqueue, dequeue, push, pop, free |
| Vector pool | `aig_vectors.c` 1-131 | a table of stacks, `inuse` flags, two counters | `vec_get`, `vec_dup`, `vec_release` |
| Bit-vector operations | `aig_vectors.c` 400-1677, `pcode_definitions.c` 138-708 | none | arithmetic, shifts, comparisons, each concrete and symbolic |
| Probes and garbage collection | `aig_vectors.c` 200-290, 1708-1820 | probes of every literal kept | `garbage_collect_ntk` |
| Machine state lifecycle | `pcode_definitions.c` 1-136 | everything above, `abc_started` | `machine_state_init`, `machine_state_free` |

The parts interact by calls on one `machine_state`. The program calls `conditional_branch`, which
calls the program back (`t_branch`, `t_cut`, `f_branch`, `f_cut`), which stores, allocates, asserts
and branches again. `conditional_branch` copies the memory for each side, swaps `ms->memory` between
the calls, and keeps or merges what comes back. Every call may first collect garbage, which reads the
memories that `memories_stack` points to. Everything is built of vectors from the pool and of array stacks.

There are no threads. What is hard is re-entrancy and ownership: the state a callback leaves
behind is what the caller goes on with, errors travel in a single flag, memories are freed by
whoever ends a fork, nodes are shared between memories, memos are valid for one flag value only,
the solver may give up, and stacks and tables grow at limits that tests do not reach. The list of
hazards, with lines, is in `PROJECT.json`.

## The modules

**`Aig`** models what the library uses of ABC. A literal is the set of input valuations on
which it is true. The solver (`CondCheckUnsat`) is exact, or, when a limit is set, may also answer -1.
`push_condition` asserts `LitIs(node, value)`. **`Literals`** adds vectors as functions from valuations to numbers,
which is all that the modules about memory and control need to know of them; the modules about vector
operations have vectors as the code does.

**`CMemory`** has the blocks of byte cells as values, with `cMemory_store_le`, `cMemory_store_be`,
`cMemory_load_le`, `cMemory_load_be` and `cMemory_ite` as operators.

**`ConditionalBranch`** is the core. `memory` is `ms->memory` as a handle, `blocks` what malloc'd
handles refer to (`Freed` if they are not allocated), `frames` the activations of
`conditional_branch` with its locals, and the other variables are fields of `machine_state`. A
memTuple is one handle: its cMemory and sMemory are always copied, kept and freed together. The
program is left open: at any time it may store, call a library function, branch on any condition
or return from the callback. Actions:

| Code | Action |
|---|---|
| `cMemory_store_le/be`, in and out of bounds | `Store`, `StoreOutside` |
| `cMemory_load_le/be` and the store of what was loaded | `Move`, `MoveOutside` |
| `plib_malloc`; `plib_free` and `plib_unknownFunction` | `Malloc`; `LibraryCall` |
| `plib___assert_fail` | `AssertFails`, `AssertUnreachable` |
| line 722, `branch_error` set | `BranchSkipped` |
| 731-744, constant condition | `BranchConstant` |
| 751-799, condition decided by the path | `BranchPruned`, `BranchInfeasible` |
| 800-828, both sides possible | `BranchForked` |
| the branch callback returns | `BranchToCut`, `SkipCut` |
| the cut callback returns, one side | `ReturnAfterCut` |
| 833-851, true side done | `TrueSideDone` |
| 856-915, false side done | `KeepNeither`, `KeepFalse`, `KeepTrue`, `Merge` |

`lost` is a history variable: the valuations of paths that were ended because the solver did not
decide. `ops`, `MaxOps` and `MaxFrames` bound the runs; the proofs hold for any value of them.

**`ConcreteRuns`** is the specification of symbolic execution: for each valuation of the inputs a
separate run of the program with its own registers and heap offset; a store or a move changes the runs on
the path being executed and no other; a conditional sends each run one way. A byte copied from one that
was never written has a value afterwards, as in the library, but no promised one. `RunsConcretely` in
`ConditionalBranch` says that the code implements it. The mapping finds, for each valuation, the
memory its run is kept in (`Home`): the current one, or the copy or result that waits in the
outermost activation that is executing the other side.

**`SymbolicMemory`** models `sMemory`. The graph is a record `heap` with the nodes, the roots in
use (`sMemInitStack`) and `CurrsMemFlag`; `sMemory_init`, `sMemory_copy`, `sMemory_free`,
`sMemory_ite`, `storeByte`, `loadByte` are operators on it. Recursion of `sMemory_loadByte` is
split in three functions on nodes: the value, `writtenTo`, and the nodes visited, whose memos it
sets. The actions are those of a program (`Store`, `Load`, `Fail`) and of `conditional_branch` as
far as it concerns this memory (`Fork`, `TrueSideDone`, `Keep...`, `Merge`, `CollectGarbage`).
`sMemory_auto_compress` is 1, as `machine_state_init` sets it, and nothing clears it; `sMemory_compress`
then returns at once. What a recursive function of the code computes for a node is a function whose domain is the nodes in use, since
it is only called on those.

**`ArrayMemory`** is its specification: a memory is an array per valuation; a conditional copies
arrays and joins them by value. `BehavesAsArrays` states the refinement.

**`ArrayStack`**, **`PointerQueue`**, **`PointerStack`** model the three containers of `queue.c`;
**`Lifo`** and **`Fifo`** are the sequences they stand for. **`VectorPool`** models where vectors
come from and go to, with the growth of the table of stacks.

**`BitVectors`** has the vector operations of `aig_vectors.c` as operators. A vector is a record as
`bitvector` is: `size`, `isSymbolic`, the word `conWord` with whatever an operation left above the
bits that count, and the literals `symWord`. Each operation has its case on words, its case on
literals and the folding of a symbolic result whose literals are all constant. **`PcodeOperations`** has the p-code
operations of `pcode_definitions.c` 138-708 over them.

**`WordArithmetic`** says, without reference to the code, what such operations mean on numbers.
**`VectorProgram`** is a program of these operations: two-address code over a few registers that starts
from constants and inputs, follows branches (`Assume`), merges (`IfThenElse`), compares under the path
(`IfEqual`, the load of a symbolic address) and asks the solver to make a vector concrete (`Concretize`).
`values` holds, for each valuation, the number each register should have; `Denotes` says that the vectors do. The first
conjuncts of an action are the operation's assertions. Conjuncts named `...IsRight` exclude the operands on which the
code does not compute the operation:

| Guard | What the code does |
|---|---|
| `SignIsRight` | `int_sextend` of a positive number reads the bits of the word above the size, which need not be 0 |
| `MultIsRight` | `vec_mult` takes a bit of `tmp_vec` from an earlier round, when a symbolic bit of the multiplier is below a constant 1 |
| `SDivIsRight` | the least number divided by -1 does not fit the word, which is undefined in C |
| `SRemIsRight` | the symbolic remainder by a constant 0 is 0, not the dividend |
| `SRightIsRight` | a symbolic number that fits a word is shifted right by a concrete amount of its size or more: no literal is looked at, and `vec_sym_to_con` asserts that the copies of the sign are constant (`SignedShiftAsserts`) |
| `SCarryIsRight`, `SBorrowIsRight` | the sign of the sum is taken from sums of whole words; the least number has no negation |
| `RotateIsRight` | a vector wider than a word is refused by an assertion; a concrete amount is used with all bits of its word; a symbolic one shifts an `int` by the index of each of its bits, which is undefined for 32 of them or more (`RotationFitsInt`) |
| `RotateLeftIsRight` | also: a concrete amount leaves the literals that should wrap around in place; a symbolic one rotates by `size - 2^i`, which wraps modulo 2^64 when the amount can exceed the size |

Each of them but those that stand for undefined behaviour (`SDivIsRight`, the width of a symbolic rotation) and for failing assertions (`SRightIsRight`, the size in `RotateIsRight`) was tried: without it TLC finds `Denotes` violated.
The binaries the library was written for do not reach these operands, as far as its tests show, and no text of
the repository says what should happen there, so they are guards and not findings. The exception is `int_sextend`, whose
documented meaning is a finding below.

**`MCConditionalBranch`**, **`MCSymbolicMemory`**, **`MCVectorProgram`** give constants for TLC. The operators
commented "A bug" change one definition as a slip in the code would; no action uses them. They
are there to show that the properties would notice.

## What is checked

| Run | Properties | Shows |
|---|---|---|
| `Branch.cfg` | `TypeOK`, `OneOwner`, `StacksBalanced`, `NothingLost`, `RunsConcretely` | with an exact solver, nested conditionals own memories once, balance the stacks, lose no input and compute what the single runs compute |
| `BranchLimited.cfg` | `OneOwner`, `ErrorsOnlyWhereLost`, `RunsConcretely`, `BranchesComplete` | the same with a solver that may give up at any call, so that sides fail and all four ends of a fork occur; and every fork runs both sides and returns |
| `Memory.cfg` | `NodesAreThoseInUse`, `StoresAreNotShared`, `BehavesAsArrays`, `WritesAreReported` | the shared, lazy, memoized graph behaves as arrays and is freed exactly |
| `ArrayStack.cfg` | `TypeOK`, `InBounds`, `IsLifo` | no access outside the array, at any growth |
| `PointerQueue.cfg` | `OneRing`, `IsFifo` | the ring grows at any position without losing or reordering elements |
| `BitVectors.cfg` | `Verified`, `Denotes` | any two operations in a row, on any mixture of constant, symbolic, narrow and wide vectors, compute what the p-code operations mean on words, where their assertions and the `...IsRight` guards hold |
| `VectorPool.cfg` | `TypeOK`, `EachVectorOnce`, `LeakReportIsExact` | no vector is given out twice, and the leak warning counts right |

Violations, each a disagreement between the code and what it says:

| Run | Property | What happens |
|---|---|---|
| `BranchGc.cfg` | `GcWalksLiveMemory` | `memories_stack` has `mem_copy_t` during the false side, although a fork in the true side may have freed it; a collection then reads it |
| `BitVectorsSigned.cfg` | `SignExtends` | the sum of two concrete vectors keeps its carry in the word; `int_sextend` takes it for bits of the number |
| `BranchAssert.cfg` | `AssertVerdictIsRight` | an undecided check of an assertion is reported as "no concrete inputs cause this assert" |
| `MemoryReadBeforeWrite.cfg` | `WrittenToIsExact` | the condition of a merge counts as a write, so some reads before a write are not reported |
| `PointerStackFree.cfg` | `WarningIsTrue` | the `pop` field of the first cell is never assigned |

`WritesAreReported` is the direction of `writtenTo` that does hold: it never denies a byte that was written.
`cMemory_ite` has the same weakness as sMemory: a byte that only one side wrote counts as written on both.

**Bounds.** Two one-bit inputs give four valuations, so two independent conditions and their
combinations with constants. Two nested activations with five handles are the least in which an
inner fork replaces the memory an outer one holds; four operations allow two branches with a
store, an allocation or an assertion on either side. Cells are one register wide, and `ByteModulus` 4 makes
additions wrap; `mcMoves` copies the two bytes of a register pair in the same and in the other order. For the memory, one-bit addresses that are constant or an input make cells alias on some
inputs only, and words of two bytes wrap around the address space; ten nodes are enough for two nested forks and their
merges. The stack, the queue and the pool's table grow in steps of 2: the stack three times, the queue twice and at every position, the table once. Each size of vector is allocated two at a time, at most six in all. Handles are symmetric: nothing
tells them apart. Deadlock is not checked because every program stops at its bound of operations.

Vectors have 2, 3, 4 and 6 bits with words of 4 and bytes of 2: narrower than a word, not a whole number of bytes,
a word, and wider than one. An `int` has 6 bits, so the bound on symbolic rotations excludes the widest amounts and admits those that exceed every size. Two operations in a row are enough for an operation to meet what another left in
the unused bits of a word, a result that was folded, or a path that decides a condition.

**Fairness.** `BranchesComplete` is the only liveness property and assumes `WF_vars(Return)`: once control is in a callback of
`conditional_branch`, the callback returns, and what the function then does up to the next callback is straight-line code. This
is what holds of a program whose callbacks do not loop for ever; a program that does gets no promise from the library
either. Nothing is assumed of the operations in a callback: the program may do none of them. The property rules out
that an error set or cleared inside a conditional leaves an outer one without a way to go on, or makes it leave
without its false side. Handles stay symmetric in this run: neither the fairness nor the property mentions one, and no behaviour has
a cycle of different states, since each operation is counted and each return shortens what is left to do. All other properties hold without fairness.

## What is proved

TLAPS checks all proofs; they hold for every set of inputs, every program, any number of nested
conditionals and any bound. The assumptions are the named ones of the modules, that constants have their types and that there is something
to run on: `CMemoryAssumption` and `BranchAssumption` (at least one valuation and one handle), `ConcreteAssumption` (`Unwritten` and `GivenUp`
are none of the values they stand beside), `ArrayStackAssumption`, `VectorPoolAssumption`, `PointerQueueAssumption`,
`BitVectorsAssumption` (words and bytes have bits, a byte no more than a word), `VectorProgramAssumption` (the vectors a program starts from are vectors), and
`SymbolicMemoryAssumption` (at least one valuation and one node, loads of at least one byte, and `NULL`, `Gone` and `Nothing` are no node, no memory and no
byte). TLC evaluates each of them on the constants of its runs.

- `ConditionalBranch_proofs`: `TypeCorrect` (`Spec => []TypeOK`) and `OneOwnerAlways`
  (`Spec => []OneOwner`). `OneOwner` alone is not inductive: that a fork's locals are handles and
  not yet unassigned is not part of it. `OwnerInv` adds `Handles`, and states ownership as
  `Distinct` (no two owners have the same memory) and `NoLeak` (every live memory has an owner),
  which each ending of a fork changes in a way the provers can follow. One lemma per action
  that touches memories; the others leave them alone (`SameOwners`).
  `StacksBalancedAlways` is in the same module. Its invariant adds `HeadsOrdered`: an activation's place on the
  stacks is below those of activations started later, so a pop on top never touches it. All steps are a push
  (`PushBalanced`), a pop (`PopBalanced`), a turn to the other side (`TurnBalanced`) or leave the stacks alone.
  `ModStep` is the fact about `%` behind the unsigned counter.
  `ErrorsOnlyWhereLostAlways` and `NothingLostAlways` are there too. The invariant `PathInv` says
  where each activation's inputs went: a forked one whose true side failed lost its true inputs, a
  pruned one has no input on the other side. `FeasibleInv`, for an exact solver, says that both sides of every open fork are feasible.
  `RunsConcretelyAlways` (`Spec => RunsConcretely`), the result the others lead to: `ConditionalBranch`
  implements `ConcreteRuns`. `RunInv` says where the run on an input is: it is on the path exactly when it is on the side
  of every open activation, and otherwise it is `Away`, waiting in the one activation that is the outermost to execute the other
  side. It needs `StackInv`, since the path is what the stack of conditions says, and `PathInv`, for activations that
  push nothing or push what the path implies. `HomesKnown` turns that into the block each run is kept in, and `OwnerInv` says those
  blocks are different, so that a write to the current one (`WriteRuns`) moves the runs on the path and no other.
  `StoreRun`, `MoveRun`, `PopReturnRun` and `IteRun` say what the operators of `CMemory` do to the run on one input. Then there is a lemma per kind of step:
  operations (`StoreRefines` ...), a conditional starts (`OneSidedEnters`, `ForkEnters`), turns (`CutRests`, `SideSwitches`) and
  ends (`OneSidedLeaves`, `ForkLeaves`, which the four ways to end a fork share). An input that no kept memory holds
  is a given-up one: that is where `PathInv` excludes that `KeepTrue` drops a run of the false side.
- `ArrayStack_proofs`: `StackTypeCorrect`, `StackStaysInBounds` and `StackIsLifo`, the refinement of `Lifo`, for every growth
  step of at least two: with a step of one, the unsigned `size - 2` that decides when to grow would wrap around on a new stack.
- `VectorPool_proofs`: `PoolTypeCorrect`, `EachVectorIsOnce`, `LeakReportIsAlwaysExact`. `PoolInv` says of each vector, by its
  `inuse` field, that it is held (`Holding`) or on the stack of its size (`OnlyFree`, `AllThere`), on no stack twice (`NoneTwice`), and relates
  the two counters to the held ones (`Counted`). The growth of the table and of one stack are lemmas of their own (`ResizePool`, `FillPool`).
- `PointerQueue_proofs`: `CellsAreOneRing` (`Spec => []OneRing`) and `QueueIsFifo` (`Spec => IsFifo`), for any growth step. The ring is the walk along `next`, a
  recursive function on numbers of steps. `RingInv` is `OneRing` with the types it needs: the walk from `head` meets every cell once and comes back. A
  growth happens when `tail` is the last cell of that walk and puts the new ones behind it (`RingGrows`), so that the elements, which are read on the
  walk, stay where they were; a dequeue starts the walk one cell later (`RingTurns`).
- `SymbolicMemory_proofs`: `MemoryIsWellFormed` (`Spec => []Inv`), `FreeingIsExact` (`Spec => []NodesAreThoseInUse`) and `StoresStayPrivate`
  (`Spec => []StoresAreNotShared`). Neither property is inductive. `Inv` adds that the graph of the nodes in use has no cycle, that no node has a newer flag than
  `CurrsMemFlag`, and `Structure`: the memories that are held are all different; those stored to now or later are a part of no memory; and the
  memory a fork started from is a part of what came of the fork but of nothing older, so that ending the fork does not leave a memory in use
  that refers to it. `Below` is recursive on the graph; `BelowIsReach` shows that it is the least set closed
  under children, and the lemmas about init, copy, free and merge say how this set changes (`InitAddsNode`, `FreeKeepsOthers`, `TwoCopies`).
- `BehavesAsArrays_proofs`: `SharedNodesAreArrays` (`Spec => BehavesAsArrays`): `SymbolicMemory` implements `ArrayMemory`. And `StoredBytesAreReported`
  (`Spec => WritesAreReported`). What a memory holds (`Contents`) is determined by the nodes below it
  (`ContentsOfPart`). So it survives marks, memos, new nodes and the deletion of others, which is every action but a store, and a store changes one
  array only because `StoresAreNotShared`. `NewestAfterStore` is the argument for `removeByte`: with symbolic addresses, the newest
  matching cell is the byte stored last although an older cell at the same address was removed from among cells that may alias it. `ByteIsRead` is
  the argument for the memos: a load starts a flag that no node has, so every memo it meets is its own. `CopyContents` and `MergeContents` are
  the two kinds of inner nodes. Then there is a lemma per action (`StoreImplements`, `LoadImplements`, `ForkImplements`, ...).

- `VectorProgram_proofs`: `VectorsAreVerified` (`Spec => []Verified`), for any width of a word and of a byte, vectors of any size, and any number
  of operations. It is inductive once the registers are known to be a function (`Verifies`); the content is in the operations. `Sized(x, n)` is "passes `vec_verify` and has
  `n` bits", and there is a lemma for each operation that its result is `Sized`. What it has to exclude is a concrete result that is too wide for a word
  (`vec_extract`, where only the assertion in `vec_sym_to_con` does; `pINT_SDIV`, which has no case for wide vectors) and a literal that is read outside its operand (the parts, shifts and
  rotations, `vec_joinArray`). For the loops over bits a lemma each says that the function that carries the state of the loop exists, steps as the loop does and keeps its type
  (`CarryIs`, `BorrowIs`, `GreaterIs`, `MultiplyIs`, `DivisionIs`, `RightShifterIs` ...), all from `Recursion`.
- `VectorValues_proofs`: `VectorsDenote` (`Spec => []Denotes`), for words and bytes of any width and vectors of any size, on operands that meet the assertions and the `...IsRight` guards (so rotations are of at most a word, and by symbolic amounts of fewer bits than an `int`): the network of literals, the word and the folded
  result of every operation are the number that `WordArithmetic` says. `Computes` is the inductive invariant: `Denotes`, with `Verifies` of the module before and a path that is
  a set of valuations. A step is one theorem about its operation, for one valuation (`AddValue`, `MultValue`, ...); `ComputedDenotes` puts it in the register.
  The steps that change no number are there as well: the solver makes a literal constant only where the path does not tell it apart (`SolvedBit`, `ConcretizeValue`), and a branch only makes the path smaller.
  The theorem of an operation has as hypotheses its assertions and what its `...IsRight` guards say: `SignedQuotientValue` and `SignedRemainderValue` that the quotient fits a word (`QuotientFits`), `SignedShiftRightValue` that
  the sign is constant where the shift assumes it, `RotateRightValue` that `1<<i` is an `int`. So where the guards hold the result does not depend on the sizes TLC happens to try. The shifts need no bound on the
  amount: they stop computing `1<<i` once it is above the size, which it is before it stops being an `int` for every vector of fewer than 2^30 bits, and wider ones are not considered.

  The arithmetic starts from `2^n`, of which the provers know nothing: it counts the subsets of `1 .. n` (`FS_SUBSET`), so it doubles from `n` to
  `n + 1` (`PowerDouble`, by a bijection) and turns sums to products (`PowerSum`). `Number(s, n, v)` is the number that `n` literals are. It determines them (`NumberSame`), it
  splits at any bit (`NumberSplit`), and the quotient and remainder by a power of two are the literals above and below a bit (`PieceNumber`, `NumberLow`): that is
  what all moves of bits come from. `ModUnique` is behind every `% 2^n`: quotient and remainder are the only ones there are. Then there is a lemma for the state of each loop after `i` rounds:
  the adder and the borrow have the sum of the low bits and one carry, `Greater` has compared the bits seen (`ComparedFrom`), a round of `vec_mult` adds a partial product and leaves in `tmp_vec` bits
  that agree with `ret` where they are used again (`Multiplied`), a round of the long division keeps `a = b * q + r` with a remainder below the divisor (`Divided`), and a stage of a barrel shifter
  moves by the low bits of the amount seen (`RightShifterBits` ...). The operations on words are proved beside: what their word has above the size is allowed to be anything, as `Value` takes it modulo `2^n`.
  Where it does matter the hypotheses say so (`SignRight`). For signed operations `SignedNumber` and `SignedWordValue` say that the literals and the extended word are the same number in two's complement;
  `CarriesDiffer` is why two carries that differ are an overflow.

**Induction.** An induction theorem that takes a predicate as a parameter cannot be used with the installed provers, so
inductions are by least elements: a set of numbers has a least one (`LeastElement`, from the well-foundedness of `<`), and a set
of nodes in use has one without a child in the set (`WellFounded`, part of the invariant). A step that is proved "by induction" takes such an element of
the set of counterexamples. That a function defined by recursion on the graph satisfies its definition, which TLA+ does not give, is proved the same way
(`GraphRecursion`; for the loops over bits `Recursion`): a node without a solution, all of whose children have one, would get one from them.

Only model-checked:

- `BranchesComplete`, the liveness property, which needs fairness and `ENABLED`.
- The five properties that are violated: there is nothing to prove.

## What is not modelled

Probes, and garbage collection beyond what it reads: the sweep in `garbage_collect_ntk` is commented out, so that
the probes have no use. `sMemory_compress` when `sMemory_auto_compress` is cleared, which nothing does. Arrays of words
(`sMemory_loadWord` and the loads through an array of values), loads that may read before a write is reported (`_rbw`), printing,
several machine states at once, ABC and the demos. What a call reads through a freed memory is not followed further: the run shows
that it does. A register's vector is split and joined in `BitVectors`; in `ConditionalBranch` registers are bytes already.

## Plan

1. (done) `Aig`, `Literals`, `CMemory`, `ConcreteRuns`, `ConditionalBranch`: the core, with its proofs; loads; liveness of conditionals.
2. (done) `ArrayMemory`, `SymbolicMemory`; containers; `VectorPool`.
3. (done) `BitVectors`, `PcodeOperations`, `VectorProgram` against `WordArithmetic`.
4. Lifecycle of several machine states. Probes, should the code enable the sweep of the collector again: today no
   literal is renumbered, so nothing can be stale.
5. (done) Proofs: ownership, stacks, errors and the refinement of `ConcreteRuns`; the array stack and the vector pool; the queue;
   the graph of sMemory and its refinement of arrays.
6. (done) Proof of `Verified`, operation by operation.
7. (done) Proof of `Denotes`: the operations one by one, then programs of them.
8. Proofs about what (4) adds.
