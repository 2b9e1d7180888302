---------------------- MODULE ConditionalBranch_proofs ----------------------
(***************************************************************************)
(* Proofs about ConditionalBranch, for every set of inputs, every program  *)
(* and any depth of nesting: types, the ownership of memories, the stacks  *)
(* of conditions and memories, and errors.  A path is only ended by an     *)
(* error when nothing is left of it, or the SAT solver did not say; with   *)
(* an unlimited solver no path is lost and none without inputs is executed.*)
(***************************************************************************)
EXTENDS ConditionalBranch, SequenceTheorems, TLAPS

(***************************************************************************)
(* What the operators on vectors, cells and blocks return.                 *)
(***************************************************************************)
LEMMA ConstantType ==
  ASSUME NEW x \in Byte
  PROVE  vec_getConstant(x) \in ByteVec
BY DEF vec_getConstant, ByteVec

LEMMA AddType ==
  ASSUME NEW x \in ByteVec, NEW y \in [Valuation -> Nat]
  PROVE  vec_add(x, y) \in ByteVec
<1> SUFFICES ASSUME NEW v \in Valuation
             PROVE  (x[v] + y[v]) % ByteModulus \in Byte
  BY DEF vec_add, ByteVec
<1>1. x[v] \in Nat /\ y[v] \in Nat
  BY CMemoryAssumption DEF ByteVec, Byte
<1> QED BY <1>1, CMemoryAssumption DEF Byte

LEMMA IteVecType ==
  ASSUME NEW c \in Literal, NEW x \in ByteVec, NEW y \in ByteVec
  PROVE  vec_ite(c, x, y) \in ByteVec
BY DEF vec_ite, ByteVec

LEMMA InitBlockType == cMemory_init \in Block
<1>1. 0 \in Byte
  BY CMemoryAssumption DEF Byte
<1>2. vec_getConstant(0) \in ByteVec
  BY <1>1, ConstantType
<1> QED BY <1>2 DEF cMemory_init, Block, Cell, Const0, Literal

LEMMA StoreType ==
  ASSUME NEW cMem \in Block, NEW st \in Stores
  PROVE  StoreInto(cMem, st) \in Block
<1>1. /\ st.size \in Nat /\ st.address \in Nat /\ base_address \in Nat
      /\ st.bytes \in [0 .. st.size - 1 -> ByteVec]
  BY BranchAssumption, CMemoryAssumption
<1>2. ASSUME NEW bytes \in [0 .. st.size - 1 -> ByteVec]
      PROVE  StoreBytes(cMem, st.address, bytes, st.size) \in Block
  BY <1>1, <1>2 DEF StoreBytes, Block, Cell, Const1, Literal
<1>3. [k \in 0 .. st.size - 1 |-> st.bytes[(st.size - 1) - k]]
        \in [0 .. st.size - 1 -> ByteVec]
  BY <1>1
<1> QED BY <1>1, <1>2, <1>3 DEF StoreInto, cMemory_store_le, cMemory_store_be

LEMMA MoveType ==
  ASSUME NEW cMem \in Block, NEW mv \in Moves, MoveInBounds(mv)
  PROVE  StoreInto(cMem, Loaded(cMem, mv)) \in Block
<1> DEFINE st == Loaded(cMem, mv)
<1>1. /\ st.size \in Nat /\ st.address \in Nat /\ base_address \in Nat
      /\ st.size = mv.size /\ st.address = mv.to /\ cMem_size \in Nat
  BY BranchAssumption, CMemoryAssumption DEF Loaded
<1>2. \A k \in 0 .. mv.size - 1 :
        /\ (mv.from - base_address) + k \in Offset
        /\ (mv.from - base_address) + ((mv.size - 1) - k) \in Offset
  <2>1. mv.from \in Nat /\ mv.size \in Nat /\ mv.from >= base_address
    BY BranchAssumption
  <2>2. (mv.from - base_address) + mv.size <= cMem_size
    BY DEF MoveInBounds, InBounds
  <2> QED BY <1>1, <2>1, <2>2 DEF Offset
<1>3. st.bytes \in [0 .. st.size - 1 -> ByteVec]
  BY <1>1, <1>2 DEF Loaded, cMemory_load_le, cMemory_load_be, Block, Cell
<1> HIDE DEF st
<1>4. ASSUME NEW bytes \in [0 .. st.size - 1 -> ByteVec]
      PROVE  StoreBytes(cMem, st.address, bytes, st.size) \in Block
  BY <1>1, <1>4 DEF StoreBytes, Block, Cell, Const1, Literal
<1>5. [k \in 0 .. st.size - 1 |-> st.bytes[(st.size - 1) - k]]
        \in [0 .. st.size - 1 -> ByteVec]
  BY <1>1, <1>3
<1>6. StoreInto(cMem, st) \in Block
  BY <1>1, <1>3, <1>4, <1>5 DEF StoreInto, cMemory_store_le, cMemory_store_be
<1> QED BY <1>6 DEF st

LEMMA WriteCellType ==
  ASSUME NEW cMem \in Block, NEW i \in Offset, NEW x \in ByteVec
  PROVE  [cMem EXCEPT ![i] = [value |-> x, writtenTo |-> Const1]] \in Block
BY DEF Block, Cell, Const1, Literal

LEMMA PopReturnType ==
  ASSUME NEW cMem \in Block, NEW n \in Pops
  PROVE  PopReturn(cMem, n) \in Block
<1>1. Esp \in Offset /\ n \in Nat
  BY BranchAssumption
<1>2. cMem[Esp].value \in ByteVec
  BY <1>1 DEF Block, Cell
<1>3. vec_getConstant(n) \in [Valuation -> Nat]
  BY <1>1 DEF vec_getConstant
<1>4. vec_add(cMem[Esp].value, vec_getConstant(n)) \in ByteVec
  BY <1>2, <1>3, AddType
<1> QED BY <1>1, <1>4, WriteCellType DEF PopReturn

LEMMA IteBlockType ==
  ASSUME NEW c \in Literal, NEW cMemT \in Block, NEW cMemF \in Block
  PROVE  cMemory_ite(c, cMemT, cMemF) \in Block
<1>1. ASSUME NEW T \in Cell, NEW F \in Cell
      PROVE  IteCell(c, T, F) \in Cell
  <2>1. vec_ite(c, T.value, F.value) \in ByteVec
    BY <1>1, IteVecType DEF Cell
  <2>2. HashMux(c, T.writtenTo, F.writtenTo) \in Literal
    BY <1>1 DEF HashMux, Cell, Literal
  <2> QED BY <1>1, <2>1, <2>2 DEF IteCell, Cell
<1> QED BY <1>1 DEF cMemory_ite, Block

LEMMA LitIsType ==
  ASSUME NEW c \in Literal, NEW side \in BOOLEAN
  PROVE  LitIs(c, side) \in Literal
BY DEF LitIs, LitNot, Literal

(***************************************************************************)
(* The stack without its last element.                                     *)
(***************************************************************************)
LEMMA PopProperties ==
  ASSUME NEW S, NEW s \in Seq(S), s # <<>>
  PROVE  /\ Pop(s) \in Seq(S)
         /\ Len(s) \in Nat \ {0}
         /\ Len(Pop(s)) = Len(s) - 1
         /\ \A i \in 1 .. Len(s) - 1 : Pop(s)[i] = s[i]
<1>1. Len(s) \in Nat \ {0}
  BY EmptySeq
<1>2. \A i \in 1 .. Len(s) : s[i] \in S
  BY ElementOfSeq
<1> DEFINE n == Len(s) - 1
<1>3. n \in Nat
  BY <1>1
<1>4. \A i \in 1 .. n : s[i] \in S
  BY <1>1, <1>2
<1>5. /\ SubSeq(s, 1, n) \in Seq(S)
      /\ Len(SubSeq(s, 1, n)) = n
      /\ \A i \in 1 .. n : SubSeq(s, 1, n)[i] = s[i]
  <2> HIDE DEF n
  <2>1. /\ SubSeq(s, 1, n) \in Seq(S)
        /\ Len(SubSeq(s, 1, n)) = IF 1 <= n THEN n - 1 + 1 ELSE 0
        /\ \A i \in 1 .. n - 1 + 1 : SubSeq(s, 1, n)[i] = s[1 + i - 1]
    BY <1>3, <1>4, SubSeqProperties
  <2> QED BY <1>3, <2>1
<1> QED BY <1>1, <1>5 DEF Pop
LEMMA PopType ==
  ASSUME NEW S, NEW s \in Seq(S)
  PROVE  Pop(s) \in Seq(S)
<1>1. CASE s = <<>>
  <2>1. Len(s) - 1 = -1
    BY <1>1
  <2>2. Pop(s) = <<>>
    BY <2>1, SubSeqEmpty DEF Pop
  <2> QED BY <2>2
<1>2. CASE s # <<>>
  BY <1>2, PopProperties
<1> QED BY <1>1, <1>2
-----------------------------------------------------------------------------
(***************************************************************************)
(* Type correctness and ownership.  Neither is inductive alone: a store    *)
(* needs ms->memory to be allocated, and that the memories conditional_    *)
(* branch goes back to were assigned is a matter of which case it is in.   *)
(***************************************************************************)
Handles ==
  \A k \in Forked : /\ frames[k].orig \in Handle
                    /\ frames[k].copy_t \in Handle
                    /\ Pending(frames[k]) \in Handle

\* OneOwner, memory by memory.
Distinct ==
  /\ memory \in Live
  /\ \A k \in Forked : /\ frames[k].orig \in Live
                       /\ Pending(frames[k]) \in Live
                       /\ frames[k].orig # memory
                       /\ Pending(frames[k]) # memory
                       /\ frames[k].orig # Pending(frames[k])
  /\ \A j, k \in Forked :
       j # k => /\ frames[j].orig # frames[k].orig
                /\ frames[j].orig # Pending(frames[k])
                /\ Pending(frames[j]) # Pending(frames[k])

NoLeak ==
  \A h \in Live : \/ h = memory
                 \/ \E k \in Forked : h = frames[k].orig \/ h = Pending(frames[k])

OwnerInv == TypeOK /\ Handles /\ Distinct /\ NoLeak

LEMMA OwnerInvImpliesOneOwner == OwnerInv => OneOwner
<1> SUFFICES ASSUME OwnerInv
             PROVE  OneOwner
  OBVIOUS
<1>1. Live \subseteq {memory} \cup {frames[k].orig : k \in Forked}
                              \cup {Pending(frames[k]) : k \in Forked}
  BY DEF OwnerInv, NoLeak
<1>2. {memory} \cup {frames[k].orig : k \in Forked}
                \cup {Pending(frames[k]) : k \in Forked} \subseteq Live
  BY DEF OwnerInv, Distinct
<1>3. ASSUME NEW k \in Forked, NEW j \in Forked \ {k}
      PROVE  {frames[k].orig, Pending(frames[k])}
               \cap {frames[j].orig, Pending(frames[j])} = {}
  BY <1>3 DEF OwnerInv, Distinct
<1>4. \A k \in Forked : /\ frames[k].orig # Pending(frames[k])
                       /\ memory \notin {frames[k].orig, Pending(frames[k])}
  BY DEF OwnerInv, Distinct
<1> QED BY <1>1, <1>2, <1>3, <1>4 DEF OneOwner

LEMMA LiveBlocks ==
  ASSUME OwnerInv
  PROVE  /\ memory \in Handle /\ memory \in Live
         /\ \A h \in Live : blocks[h] \in Block
BY DEF OwnerInv, TypeOK, Distinct, Live

LEMMA TopFrame ==
  ASSUME TypeOK, frames # <<>>
  PROVE  /\ Len(frames) \in Nat \ {0}
         /\ Len(frames) \in 1 .. Len(frames)
         /\ Top = frames[Len(frames)]
         /\ Top \in Frame
<1>1. frames \in Seq(Frame)
  BY DEF TypeOK
<1>2. Len(frames) \in Nat \ {0}
  BY <1>1, EmptySeq
<1>3. Len(frames) \in 1 .. Len(frames)
  BY <1>2
<1> QED BY <1>1, <1>2, <1>3, ElementOfSeq DEF Top

\* The frames of two states that have the same forked activations, owning
\* the same memories.
LEMMA OwnersKept ==
  ASSUME OwnerInv, memory' = memory, Live' = Live, Forked' = Forked,
         \A k \in Forked : /\ frames'[k].orig = frames[k].orig
                           /\ frames'[k].copy_t = frames[k].copy_t
                           /\ Pending(frames'[k]) = Pending(frames[k])
  PROVE  Handles' /\ Distinct' /\ NoLeak'
<1>1. Handles'
  BY DEF OwnerInv, Handles
<1>2. Distinct'
  BY DEF OwnerInv, Distinct
<1>3. NoLeak'
  BY DEF OwnerInv, NoLeak
<1> QED BY <1>1, <1>2, <1>3

\* A step that only writes to the memory in use.
LEMMA WriteKeepsOwners ==
  ASSUME OwnerInv, NEW cMem \in Block, blocks' = [blocks EXCEPT ![memory] = cMem],
         memory' = memory, frames' = frames
  PROVE  blocks' \in [Handle -> Block \cup {Freed}] /\ Handles' /\ Distinct' /\ NoLeak'
<1>1. memory \in Handle /\ memory \in Live
  BY LiveBlocks
<1>2. blocks' \in [Handle -> Block \cup {Freed}]
  BY <1>1 DEF OwnerInv, TypeOK
<1>3. Live' = Live
  BY <1>1, BranchAssumption DEF Live, OwnerInv, TypeOK
<1>4. Forked' = Forked
  BY DEF Forked
<1> QED BY <1>2, <1>3, <1>4, OwnersKept

\* A step that leaves the memories and the activations alone.
LEMMA IdleKeepsOwners ==
  ASSUME OwnerInv, UNCHANGED <<memory, blocks, frames>>
  PROVE  Handles' /\ Distinct' /\ NoLeak'
<1>1. Live' = Live /\ Forked' = Forked
  BY DEF Live, Forked
<1> QED BY <1>1, OwnersKept

LEMMA NewFrameType ==
  ASSUME TypeOK, NEW kind \in {"direct", "pruned", "forked"},
         NEW c \in Literal, NEW side \in BOOLEAN
  PROVE  NewFrame(kind, c, side) \in Frame
<1>1. /\ heap_offset \in ByteVec
      /\ Len(conditions_stack) \in Nat
      /\ Len(memories_stack) \in Nat
  BY LenProperties DEF TypeOK
<1> QED BY <1>1 DEF NewFrame, Frame

\* Starting an activation that follows one side only.
LEMMA PushKeepsOwners ==
  ASSUME OwnerInv, NEW kind \in {"direct", "pruned"},
         NEW c \in Literal, NEW side \in BOOLEAN,
         frames' = Append(frames, NewFrame(kind, c, side)),
         UNCHANGED <<memory, blocks>>
  PROVE  frames' \in Seq(Frame) /\ Handles' /\ Distinct' /\ NoLeak'
<1> DEFINE f == NewFrame(kind, c, side)
<1>1. f \in Frame /\ f.kind # "forked"
  BY NewFrameType DEF OwnerInv, NewFrame
<1>2. frames \in Seq(Frame)
  BY DEF OwnerInv, TypeOK
<1> HIDE DEF f
<1>3. /\ frames' \in Seq(Frame)
      /\ Len(frames') = Len(frames) + 1
      /\ \A i \in 1 .. Len(frames) : frames'[i] = frames[i]
      /\ frames'[Len(frames) + 1] = f
  BY <1>1, <1>2, AppendProperties DEF f
<1>4. Len(frames) \in Nat
  BY <1>2, LenProperties
<1>5. Forked' = Forked
  BY <1>1, <1>3, <1>4 DEF Forked
<1>6. \A k \in Forked : frames'[k] = frames[k]
  BY <1>3 DEF Forked
<1>7. Live' = Live
  BY DEF Live
<1> QED BY <1>3, <1>5, <1>6, <1>7, OwnersKept DEF Pending

\* The forked activations below the last one when that one returns.
LEMMA PopFrames ==
  ASSUME TypeOK, frames # <<>>, frames' = Pop(frames)
  PROVE  /\ frames' \in Seq(Frame)
         /\ Len(frames') = Len(frames) - 1
         /\ Forked' = Forked \ {Len(frames)}
         /\ \A k \in 1 .. Len(frames) - 1 : frames'[k] = frames[k]
<1>1. frames \in Seq(Frame)
  BY DEF TypeOK
<1>2. /\ frames' \in Seq(Frame)
      /\ Len(frames) \in Nat \ {0}
      /\ Len(frames') = Len(frames) - 1
      /\ \A k \in 1 .. Len(frames) - 1 : frames'[k] = frames[k]
  BY <1>1, PopProperties
<1>3. Forked' = Forked \ {Len(frames)}
  BY <1>2 DEF Forked
<1> QED BY <1>2, <1>3

\* The return of an activation that followed one side only.
LEMMA PopKeepsOwners ==
  ASSUME OwnerInv, frames # <<>>, Top.kind # "forked", frames' = Pop(frames),
         UNCHANGED <<memory, blocks>>
  PROVE  frames' \in Seq(Frame) /\ Handles' /\ Distinct' /\ NoLeak'
<1>1. TypeOK
  BY DEF OwnerInv
<1>2. /\ frames' \in Seq(Frame)
      /\ Forked' = Forked \ {Len(frames)}
      /\ \A k \in 1 .. Len(frames) - 1 : frames'[k] = frames[k]
  BY <1>1, PopFrames
<1>3. /\ Len(frames) \in Nat \ {0}
      /\ Top = frames[Len(frames)]
  BY <1>1, TopFrame
<1>4. Len(frames) \notin Forked
  BY <1>3 DEF Forked
<1>5. Forked' = Forked
  BY <1>2, <1>4
<1>6. \A k \in Forked : k \in 1 .. Len(frames) - 1
  BY <1>3, <1>4 DEF Forked
<1>7. \A k \in Forked : frames'[k] = frames[k]
  BY <1>2, <1>6
<1>8. Live' = Live
  BY DEF Live
<1> QED BY <1>2, <1>5, <1>7, <1>8, OwnersKept DEF Pending

\* The last activation with some of its fields changed.
LEMMA ChangeTop ==
  ASSUME TypeOK, frames # <<>>, NEW f \in Frame,
         frames' = [frames EXCEPT ![Len(frames)] = f]
  PROVE  /\ frames' \in Seq(Frame)
         /\ Len(frames') = Len(frames)
         /\ frames'[Len(frames)] = f
         /\ \A k \in 1 .. Len(frames) : k # Len(frames) => frames'[k] = frames[k]
<1>1. frames \in Seq(Frame) /\ Len(frames) \in 1 .. Len(frames)
  BY TopFrame DEF TypeOK
<1> QED BY <1>1, ExceptSeq

\* Copying the memory twice: the original and the copy for the false side
\* become the new activation's, the copy for the true side ms->memory.
LEMMA ForkKeepsOwners ==
  ASSUME OwnerInv, NEW c \in Condition, BranchForked(c)
  PROVE  OwnerInv'
<1>0. PICK t \in Handle \ Live, f \in Handle \ Live :
           /\ f # t
           /\ blocks' = [blocks EXCEPT ![t] = blocks[memory], ![f] = blocks[memory]]
           /\ memory' = t
           /\ memories_stack' = Append(memories_stack, f)
           /\ frames' = Append(frames, [NewFrame("forked", c, TRUE) EXCEPT
                                          !.orig = memory, !.copy_t = t, !.copy_f = f])
  BY DEF BranchForked
<1> DEFINE g == [NewFrame("forked", c, TRUE) EXCEPT
                   !.orig = memory, !.copy_t = t, !.copy_f = f]
<1>1. TypeOK /\ Handles /\ Distinct /\ NoLeak
  BY DEF OwnerInv
<1>2. memory \in Handle /\ memory \in Live /\ blocks[memory] \in Block
  BY LiveBlocks
<1>3. c \in Literal
  BY BranchAssumption
<1>4. NewFrame("forked", c, TRUE) \in Frame
  BY <1>1, <1>3, NewFrameType
<1>5. /\ g \in Frame
      /\ g.kind = "forked" /\ g.side = TRUE
      /\ g.orig = memory /\ g.copy_t = t /\ g.copy_f = f
  BY <1>2, <1>4 DEF NewFrame, Frame
<1>6. frames' = Append(frames, g)
  BY <1>0
<1> HIDE DEF g
<1>7. frames \in Seq(Frame) /\ Len(frames) \in Nat
  BY <1>1, LenProperties DEF TypeOK
<1> DEFINE n == Len(frames) + 1
<1>8. /\ frames' \in Seq(Frame)
      /\ Len(frames') = n
      /\ \A i \in 1 .. Len(frames) : frames'[i] = frames[i]
      /\ frames'[n] = g
  BY <1>5, <1>6, <1>7, AppendProperties
<1>9. Forked' = Forked \cup {n} /\ n \notin Forked
  BY <1>5, <1>7, <1>8 DEF Forked
<1>10. \A k \in Forked : frames'[k] = frames[k]
  BY <1>8 DEF Forked
<1>11. Pending(frames'[n]) = f
  BY <1>5, <1>8 DEF Pending
<1>12. \A k \in Forked : Pending(frames'[k]) = Pending(frames[k])
  BY <1>10 DEF Pending
<1>13. blocks' \in [Handle -> Block \cup {Freed}] /\ Live' = Live \cup {t, f}
  BY <1>0, <1>1, <1>2, BranchAssumption DEF TypeOK, Live
<1> HIDE DEF n
<1>14. TypeOK'
  <2>1. conditions_stack' \in Seq(Literal)
    BY <1>1, <1>3, LitIsType, AppendProperties DEF TypeOK, BranchForked
  <2>2. memories_stack' \in Seq(Handle)
    BY <1>0, <1>1, AppendProperties DEF TypeOK
  <2>3. stackframe_depth' \in 0 .. DepthModulus - 1
    BY <1>1, BranchAssumption DEF TypeOK, BranchForked
  <2>4. ops' \in Nat /\ UNCHANGED <<heap_offset, branch_error, halted, lost>>
    BY <1>1 DEF TypeOK, BranchForked, Call, Operate
  <2> QED BY <1>0, <1>1, <1>8, <1>13, <2>1, <2>2, <2>3, <2>4 DEF TypeOK
<1>15. Handles'
  <2>1. ASSUME NEW k \in Forked'
        PROVE  /\ frames'[k].orig \in Handle
               /\ frames'[k].copy_t \in Handle
               /\ Pending(frames'[k]) \in Handle
    <3>1. CASE k = n
      BY <3>1, <1>0, <1>2, <1>5, <1>8, <1>11
    <3>2. CASE k \in Forked
      BY <3>2, <1>1, <1>10, <1>12 DEF Handles
    <3> QED BY <2>1, <3>1, <3>2, <1>9
  <2> QED BY <2>1 DEF Handles
<1>16. Distinct'
  <2>1. frames'[n].orig = memory /\ Pending(frames'[n]) = f
    BY <1>5, <1>8, <1>11
  <2>2. memory' \in Live' /\ memory' = t /\ memory' \notin Live
    BY <1>0, <1>13
  <2>3. ASSUME NEW k \in Forked'
        PROVE  /\ frames'[k].orig \in Live'
               /\ Pending(frames'[k]) \in Live'
               /\ frames'[k].orig # memory'
               /\ Pending(frames'[k]) # memory'
               /\ frames'[k].orig # Pending(frames'[k])
    <3>1. CASE k = n
      BY <3>1, <2>1, <2>2, <1>0, <1>2, <1>13
    <3>2. CASE k \in Forked
      <4>1. /\ frames[k].orig \in Live /\ Pending(frames[k]) \in Live
            /\ frames[k].orig # Pending(frames[k])
        BY <3>2, <1>1 DEF Distinct
      <4>2. frames'[k] = frames[k] /\ Pending(frames'[k]) = Pending(frames[k])
        BY <3>2, <1>10, <1>12
      <4> QED BY <4>1, <4>2, <2>2, <1>13
    <3> QED BY <2>3, <3>1, <3>2, <1>9
  <2>4. ASSUME NEW j \in Forked', NEW k \in Forked', j # k
        PROVE  /\ frames'[j].orig # frames'[k].orig
               /\ frames'[j].orig # Pending(frames'[k])
               /\ Pending(frames'[j]) # Pending(frames'[k])
    <3>1. CASE j \in Forked /\ k \in Forked
      BY <2>4, <3>1, <1>1, <1>10, <1>12 DEF Distinct
    <3>2. CASE j = n /\ k \in Forked
      BY <3>2, <2>1, <1>0, <1>1, <1>10, <1>12 DEF Distinct
    <3>3. CASE j \in Forked /\ k = n
      BY <3>3, <2>1, <1>0, <1>1, <1>10, <1>12 DEF Distinct
    <3> QED BY <2>4, <3>1, <3>2, <3>3, <1>9
  <2> QED BY <2>2, <2>3, <2>4 DEF Distinct
<1>17. NoLeak'
  <2>1. n \in Forked' /\ frames'[n].orig = memory /\ Pending(frames'[n]) = f
    BY <1>5, <1>8, <1>9, <1>11
  <2> SUFFICES ASSUME NEW h \in Live'
               PROVE  \/ h = memory'
                      \/ \E k \in Forked' : h = frames'[k].orig \/ h = Pending(frames'[k])
    BY DEF NoLeak
  <2>2. CASE h = t
    BY <2>2, <1>0
  <2>3. CASE h = f \/ h = memory
    BY <2>3, <2>1
  <2>4. CASE h \in Live /\ h # memory
    BY <2>4, <1>1, <1>9, <1>10, <1>12 DEF NoLeak
  <2> QED BY <2>2, <2>3, <2>4, <1>13
<1> QED BY <1>14, <1>15, <1>16, <1>17 DEF OwnerInv

\* The other side's turn: ms->memory and the activation's copy_f, its
\* Pending memory, trade places.
LEMMA SwitchKeepsOwners ==
  ASSUME OwnerInv, TrueSideDone
  PROVE  OwnerInv'
<1> DEFINE n == Len(frames)
           g == [Top EXCEPT !.side = FALSE, !.stage = "branch",
                            !.t_result = memory, !.t_heap = heap_offset,
                            !.t_error = branch_error]
<1>1. TypeOK /\ Handles /\ Distinct /\ NoLeak
  BY DEF OwnerInv
<1>2. frames # <<>> /\ Top.kind = "forked" /\ Top.side
  BY DEF TrueSideDone, SwitchSides, InStage
<1>3. /\ n \in Nat \ {0} /\ n \in 1 .. n
      /\ Top = frames[n] /\ Top \in Frame
  BY <1>1, <1>2, TopFrame
<1>4. n \in Forked /\ Pending(frames[n]) = Top.copy_f
  BY <1>2, <1>3 DEF Forked, Pending
<1>5. /\ g \in Frame /\ g.kind = "forked" /\ ~g.side /\ g.t_result = memory
      /\ g.orig = frames[n].orig /\ g.copy_t = frames[n].copy_t
  BY <1>1, <1>2, <1>3 DEF Frame, TypeOK
<1>6. frames' = [frames EXCEPT ![n] = g]
  BY DEF TrueSideDone, SwitchSides, Top
<1> HIDE DEF g
<1>7. /\ frames' \in Seq(Frame)
      /\ Len(frames') = n
      /\ frames'[n] = g
      /\ \A k \in 1 .. n : k # n => frames'[k] = frames[k]
  BY <1>1, <1>2, <1>5, <1>6, ChangeTop
<1>8. memory' = Top.copy_f /\ Live' = Live
  BY DEF TrueSideDone, SwitchSides, Live
<1> HIDE DEF n
<1>9. Forked' = Forked
  BY <1>4, <1>5, <1>7 DEF Forked, n
<1>10. /\ \A k \in Forked : k # n => frames'[k] = frames[k]
       /\ \A k \in Forked : frames'[k].orig = frames[k].orig
       /\ \A k \in Forked : k # n => Pending(frames'[k]) = Pending(frames[k])
       /\ Pending(frames'[n]) = memory
       /\ memory' = Pending(frames[n])
  BY <1>4, <1>5, <1>7, <1>8 DEF Forked, n, Pending
<1>11. TypeOK'
  <2>1. conditions_stack' \in Seq(Literal)
    <3>1. Pop(conditions_stack) \in Seq(Literal)
      BY <1>1, PopType DEF TypeOK
    <3>2. LitIs(Top.cond, FALSE) \in Literal
      BY <1>3, LitIsType DEF Frame
    <3> QED BY <3>1, <3>2, AppendProperties DEF TrueSideDone, SwitchSides
  <2>2. memories_stack' \in Seq(Handle)
    <3>1. Pop(memories_stack) \in Seq(Handle)
      BY <1>1, PopType DEF TypeOK
    <3>2. Top.copy_t \in Handle
      BY <1>1, <1>3, <1>4 DEF Handles
    <3> QED BY <3>1, <3>2, AppendProperties DEF TrueSideDone, SwitchSides
  <2>3. memory' \in Handle
    BY <1>1, <1>4, <1>8 DEF Handles
  <2>4. heap_offset' \in ByteVec /\ branch_error' = 0
    BY <1>3 DEF TrueSideDone, SwitchSides, Frame
  <2>5. UNCHANGED <<blocks, stackframe_depth, halted, ops, lost>>
    BY DEF TrueSideDone, SwitchSides
  <2> QED BY <1>1, <1>7, <2>1, <2>2, <2>3, <2>4, <2>5 DEF TypeOK
<1>12. Handles'
  BY <1>1, <1>4, <1>5, <1>7, <1>9, <1>10 DEF Handles, TypeOK
<1>13. Distinct'
  BY <1>1, <1>4, <1>8, <1>9, <1>10 DEF Distinct
<1>14. NoLeak'
  BY <1>1, <1>4, <1>8, <1>9, <1>10 DEF NoLeak
<1> QED BY <1>11, <1>12, <1>13, <1>14 DEF OwnerInv

\* The end of a forked activation: of its three memories, ms->memory, its
\* original and the true side's result, one is kept.
LEMMA JoinKeepsOwners ==
  ASSUME OwnerInv, frames # <<>>, Top.kind = "forked", ~Top.side,
         frames' = Pop(frames),
         memory' \in {memory, Top.orig, Top.t_result},
         Live' = (Live \ {memory, Top.orig, Top.t_result}) \cup {memory'}
  PROVE  frames' \in Seq(Frame) /\ Handles' /\ Distinct' /\ NoLeak'
<1> DEFINE n == Len(frames)
<1>1. TypeOK /\ Handles /\ Distinct /\ NoLeak
  BY DEF OwnerInv
<1>2. n \in Nat \ {0} /\ n \in 1 .. n /\ Top = frames[n]
  BY <1>1, TopFrame
<1>3. /\ frames' \in Seq(Frame)
      /\ Forked' = Forked \ {n}
      /\ \A k \in 1 .. n - 1 : frames'[k] = frames[k]
  BY <1>1, PopFrames
<1>4. n \in Forked /\ Pending(frames[n]) = Top.t_result
  BY <1>2 DEF Forked, Pending
<1> HIDE DEF n
<1>5. \A k \in Forked' : k \in Forked /\ k # n /\ frames'[k] = frames[k]
  BY <1>2, <1>3 DEF Forked, n
<1>6. \A k \in Forked' : Pending(frames'[k]) = Pending(frames[k])
  BY <1>5 DEF Pending
<1>7. Handles'
  BY <1>1, <1>5, <1>6 DEF Handles
<1>8. Distinct'
  <2>1. /\ Top.orig # memory /\ Top.t_result # memory /\ Top.orig # Top.t_result
        /\ {memory, Top.orig, Top.t_result} \subseteq Live
    BY <1>1, <1>2, <1>4 DEF Distinct
  <2>2. \A k \in Forked' : /\ frames[k].orig \in Live \ {memory, Top.orig, Top.t_result}
                          /\ Pending(frames[k]) \in Live \ {memory, Top.orig, Top.t_result}
    BY <1>1, <1>2, <1>4, <1>5 DEF Distinct
  <2>3. \A k \in Forked' : /\ frames'[k].orig \in Live'
                          /\ Pending(frames'[k]) \in Live'
                          /\ frames'[k].orig # memory'
                          /\ Pending(frames'[k]) # memory'
                          /\ frames'[k].orig # Pending(frames'[k])
    BY <1>1, <1>5, <1>6, <2>2 DEF Distinct
  <2>4. \A j, k \in Forked' :
          j # k => /\ frames'[j].orig # frames'[k].orig
                   /\ frames'[j].orig # Pending(frames'[k])
                   /\ Pending(frames'[j]) # Pending(frames'[k])
    BY <1>1, <1>5, <1>6 DEF Distinct
  <2> QED BY <2>3, <2>4 DEF Distinct
<1>9. NoLeak'
  BY <1>1, <1>2, <1>3, <1>4, <1>5, <1>6 DEF NoLeak
<1> QED BY <1>3, <1>7, <1>8, <1>9

\* The end of a forked activation, action by action.
LEMMA EndKeepsOwners ==
  ASSUME OwnerInv, KeepNeither \/ KeepFalse \/ KeepTrue \/ Merge
  PROVE  OwnerInv'
<1>1. TypeOK /\ Handles /\ Distinct /\ NoLeak
  BY DEF OwnerInv
<1>2. FalseSideDone /\ frames # <<>> /\ Top.kind = "forked" /\ ~Top.side
  BY DEF KeepNeither, KeepFalse, KeepTrue, Merge, FalseSideDone, InStage
<1>3. frames' = Pop(frames)
  BY <1>2 DEF FalseSideDone
<1> DEFINE n == Len(frames)
<1>4. n \in Forked /\ Top = frames[n] /\ Top \in Frame /\ Pending(frames[n]) = Top.t_result
  BY <1>1, <1>2, TopFrame DEF Forked, Pending
<1> HIDE DEF n
<1>5. /\ {memory, Top.orig, Top.t_result} \subseteq Live
      /\ Top.orig # memory /\ Top.t_result # memory /\ Top.orig # Top.t_result
  BY <1>1, <1>4 DEF Distinct
<1>6. /\ Live \subseteq Handle
      /\ \A h \in Live : blocks[h] \in Block
      /\ blocks \in [Handle -> Block \cup {Freed}]
  BY <1>1, LiveBlocks DEF Live, TypeOK
<1>7. Top.cond \in Literal /\ Top.orig_heap \in ByteVec /\ Top.t_heap \in ByteVec
  BY <1>4 DEF Frame
<1>8. /\ blocks' \in [Handle -> Block \cup {Freed}]
      /\ memory' \in {memory, Top.orig, Top.t_result}
      /\ Live' = (Live \ {memory, Top.orig, Top.t_result}) \cup {memory'}
      /\ heap_offset' \in ByteVec
      /\ branch_error' \in {0, 1}
  <2>1. CASE KeepNeither
    BY <2>1, <1>1, <1>5, <1>6, <1>7 DEF KeepNeither, free, Live, TypeOK
  <2>2. CASE KeepFalse
    BY <2>2, <1>1, <1>5, <1>6, <1>7 DEF KeepFalse, free, Live, TypeOK
  <2>3. CASE KeepTrue
    BY <2>3, <1>1, <1>5, <1>6, <1>7 DEF KeepTrue, free, Live, TypeOK
  <2>4. CASE Merge
    <3> DEFINE b == cMemory_ite(Top.cond, blocks[Top.t_result], blocks[memory])
    <3>1. b \in Block /\ b # Freed
      BY <1>5, <1>6, <1>7, IteBlockType, BranchAssumption
    <3>2. vec_ite(Top.cond, Top.t_heap, heap_offset) \in ByteVec
      BY <1>1, <1>7, IteVecType DEF TypeOK
    <3>3. /\ blocks' = [free({Top.orig, memory}) EXCEPT ![Top.t_result] = b]
          /\ memory' = Top.t_result
          /\ heap_offset' \in ByteVec /\ branch_error' = branch_error
      BY <2>4, <3>2 DEF Merge
    <3> HIDE DEF b
    <3> QED BY <3>1, <3>3, <1>1, <1>5, <1>6 DEF free, Live, TypeOK
  <2> QED BY <2>1, <2>2, <2>3, <2>4
<1>9. frames' \in Seq(Frame) /\ Handles' /\ Distinct' /\ NoLeak'
  BY <1>2, <1>3, <1>8, JoinKeepsOwners
<1>10. /\ conditions_stack' \in Seq(Literal)
       /\ memories_stack' \in Seq(Handle)
  BY <1>1, <1>2, PopType DEF FalseSideDone, TypeOK
<1>11. /\ stackframe_depth' \in 0 .. DepthModulus - 1
       /\ UNCHANGED <<halted, ops, lost>>
  BY <1>1, <1>2, BranchAssumption DEF FalseSideDone, TypeOK
<1>12. memory' \in Handle
  BY <1>5, <1>6, <1>8
<1>13. TypeOK'
  BY <1>1, <1>8, <1>9, <1>10, <1>11, <1>12 DEF TypeOK
<1> QED BY <1>9, <1>13 DEF OwnerInv

LEMMA OwnerInit == Init => OwnerInv
<1> SUFFICES ASSUME Init
             PROVE  OwnerInv
  OBVIOUS
<1>1. PICK h \in Handle :
        /\ memory = h
        /\ blocks = [g \in Handle |-> IF g = h THEN cMemory_init ELSE Freed]
  BY DEF Init
<1>2. cMemory_init \in Block
  BY InitBlockType
<1>3. vec_getConstant(HeapStart) \in ByteVec
  BY BranchAssumption, ConstantType
<1>4. Live = {h}
  BY <1>1, <1>2, BranchAssumption DEF Live
<1>5. frames = <<>> /\ Forked = {}
  BY DEF Init, Forked
<1>6. TypeOK
  <2>1. blocks \in [Handle -> Block \cup {Freed}]
    BY <1>1, <1>2
  <2>2. conditions_stack \in Seq(Literal) /\ memories_stack \in Seq(Handle)
    BY DEF Init
  <2>3. stackframe_depth \in 0 .. DepthModulus - 1
    BY BranchAssumption DEF Init
  <2>4. frames \in Seq(Frame)
    BY <1>5
  <2>5. /\ memory \in Handle /\ heap_offset \in ByteVec /\ branch_error \in {0, 1}
        /\ halted \in BOOLEAN /\ ops \in Nat
    BY <1>1, <1>3 DEF Init
  <2>6. lost \in Literal
    BY DEF Init, Literal
  <2> QED BY <2>1, <2>2, <2>3, <2>4, <2>5, <2>6 DEF TypeOK
<1>7. Handles /\ Distinct /\ NoLeak
  BY <1>1, <1>4, <1>5 DEF Handles, Distinct, NoLeak
<1> QED BY <1>6, <1>7 DEF OwnerInv

LEMMA OwnerStep == OwnerInv /\ [Next]_vars => OwnerInv'
<1> SUFFICES ASSUME OwnerInv, [Next]_vars
             PROVE  OwnerInv'
  OBVIOUS
<1>1. TypeOK
  BY DEF OwnerInv
<1>2. memory \in Handle /\ blocks[memory] \in Block
  BY LiveBlocks
\* A program operation, or a call of conditional_branch, that keeps the
\* activations; X is what it makes of the memory.
<1>3. ASSUME NEW st \in Stores, Store(st) \/ StoreOutside(st)
      PROVE  OwnerInv'
  <2>1. CASE Store(st)
    <3>1. StoreInto(blocks[memory], st) \in Block
      BY <1>2, StoreType
    <3>2. blocks' \in [Handle -> Block \cup {Freed}] /\ Handles' /\ Distinct' /\ NoLeak'
      BY <2>1, <3>1, WriteKeepsOwners DEF Store
    <3> QED BY <1>1, <2>1, <3>2 DEF Store, Operate, TypeOK, OwnerInv
  <2>2. CASE StoreOutside(st)
    BY <1>1, <2>2, IdleKeepsOwners DEF StoreOutside, Operate, TypeOK, OwnerInv
  <2> QED BY <1>3, <2>1, <2>2
<1>3a. ASSUME NEW mv \in Moves, Move(mv) \/ MoveOutside(mv)
       PROVE  OwnerInv'
  <2>1. CASE Move(mv)
    <3>1. StoreInto(blocks[memory], Loaded(blocks[memory], mv)) \in Block
      BY <1>2, <2>1, MoveType DEF Move
    <3>2. blocks' \in [Handle -> Block \cup {Freed}] /\ Handles' /\ Distinct' /\ NoLeak'
      BY <2>1, <3>1, WriteKeepsOwners DEF Move
    <3> QED BY <1>1, <2>1, <3>2 DEF Move, Operate, TypeOK, OwnerInv
  <2>2. CASE MoveOutside(mv)
    BY <1>1, <2>2, IdleKeepsOwners DEF MoveOutside, Operate, TypeOK, OwnerInv
  <2> QED BY <1>3a, <2>1, <2>2
<1>4. ASSUME NEW n \in Pops
      PROVE  /\ (\E size \in MallocSizes : Malloc(size, n)) => OwnerInv'
             /\ LibraryCall(n) \/ AssertFails(n) \/ AssertUnreachable(n) => OwnerInv'
  <2> DEFINE b == PopReturn(blocks[memory], n)
  <2>1. b \in Block
    BY <1>2, PopReturnType
  <2>2. ASSUME NEW size \in MallocSizes, Malloc(size, n)
        PROVE  OwnerInv'
    <3> DEFINE c == [b EXCEPT ![Eax] = [value |-> heap_offset, writtenTo |-> Const1]]
    <3>1. heap_offset \in ByteVec
      BY <1>1 DEF TypeOK
    <3>2. c \in Block
      BY <2>1, <3>1, WriteCellType, BranchAssumption
    <3>3. blocks' = [blocks EXCEPT ![memory] = c]
      BY <2>2 DEF Malloc
    <3>4. blocks' \in [Handle -> Block \cup {Freed}] /\ Handles' /\ Distinct' /\ NoLeak'
      <4> HIDE DEF c
      <4> QED BY <2>2, <3>2, <3>3, WriteKeepsOwners DEF Malloc
    <3>5. heap_offset' \in ByteVec
      <4>1. size \in [Valuation -> Nat]
        BY CMemoryAssumption, BranchAssumption DEF ByteVec, Byte
      <4> QED BY <2>2, <3>1, <4>1, AddType DEF Malloc
    <3> QED BY <1>1, <2>2, <3>4, <3>5 DEF Malloc, Operate, TypeOK, OwnerInv
  <2>3. ASSUME LibraryCall(n) \/ AssertFails(n) \/ AssertUnreachable(n)
        PROVE  OwnerInv'
    <3>1. /\ blocks' = [blocks EXCEPT ![memory] = b]
          /\ ops' = ops + 1
          /\ UNCHANGED <<memory, heap_offset, conditions_stack, memories_stack,
                         stackframe_depth, frames>>
      BY <2>3 DEF LibraryCall, AssertFails, AssertUnreachable, Operate
    <3>2. blocks' \in [Handle -> Block \cup {Freed}] /\ Handles' /\ Distinct' /\ NoLeak'
      <4> HIDE DEF b
      <4> QED BY <2>1, <3>1, WriteKeepsOwners
    <3>3. Path \subseteq Valuation
      BY DEF Path
    <3>4. branch_error' \in {0, 1} /\ halted' \in BOOLEAN /\ lost' \in Literal
      BY <1>1, <2>3, <3>3 DEF LibraryCall, AssertFails, AssertUnreachable, TypeOK, Literal
    <3> QED BY <1>1, <3>1, <3>2, <3>4 DEF TypeOK, OwnerInv
  <2> QED BY <2>2, <2>3
<1>5. CASE BranchSkipped
  BY <1>1, <1>5, IdleKeepsOwners DEF BranchSkipped, Call, Operate, TypeOK, OwnerInv
<1>6. ASSUME NEW c \in Condition
      PROVE  /\ BranchConstant(c) => OwnerInv'
             /\ BranchForked(c) => OwnerInv'
             /\ \A side \in BOOLEAN :
                  BranchPruned(c, side) \/ BranchInfeasible(c, side) => OwnerInv'
  <2>1. c \in Literal
    BY BranchAssumption
  <2>2. ASSUME BranchConstant(c)
        PROVE  OwnerInv'
    <3>1. frames' \in Seq(Frame) /\ Handles' /\ Distinct' /\ NoLeak'
      <4>1. /\ frames' = Append(frames, NewFrame("direct", c, c = Const1))
            /\ UNCHANGED <<memory, blocks>>
        BY <2>2 DEF BranchConstant
      <4> QED BY <2>1, <4>1, PushKeepsOwners
    <3> QED BY <1>1, <2>2, <3>1 DEF BranchConstant, Call, Operate, TypeOK, OwnerInv
  <2>3. ASSUME NEW side \in BOOLEAN, BranchPruned(c, side)
        PROVE  OwnerInv'
    <3>1. frames' \in Seq(Frame) /\ Handles' /\ Distinct' /\ NoLeak'
      <4>1. /\ frames' = Append(frames, NewFrame("pruned", c, side))
            /\ UNCHANGED <<memory, blocks>>
        BY <2>3 DEF BranchPruned
      <4> QED BY <2>1, <4>1, PushKeepsOwners
    <3>2. conditions_stack' \in Seq(Literal)
      BY <1>1, <2>1, <2>3, LitIsType, AppendProperties DEF BranchPruned, TypeOK
    <3> QED BY <1>1, <2>3, <3>1, <3>2 DEF BranchPruned, Call, Operate, TypeOK, OwnerInv
  <2>4. ASSUME NEW side \in BOOLEAN, BranchInfeasible(c, side)
        PROVE  OwnerInv'
    <3>1. lost' \in Literal
      BY <1>1, <2>4 DEF BranchInfeasible, TypeOK, Path, Literal
    <3> QED BY <1>1, <2>4, <3>1, IdleKeepsOwners
              DEF BranchInfeasible, Call, Operate, TypeOK, OwnerInv
  <2> QED BY <2>2, <2>3, <2>4, ForkKeepsOwners
<1>7. CASE BranchToCut
  <2> DEFINE g == [Top EXCEPT !.stage = "cut"]
  <2>1. frames # <<>> /\ UNCHANGED <<memory, blocks>>
    BY <1>7 DEF BranchToCut, InStage
  <2>2. g \in Frame /\ g.kind = Top.kind /\ g.orig = Top.orig /\ g.copy_t = Top.copy_t
    BY <1>1, <2>1, TopFrame DEF Frame
  <2>3. Pending(g) = Pending(Top)
    BY <1>1, <2>1, TopFrame DEF Pending, Frame
  <2>4. frames' = [frames EXCEPT ![Len(frames)] = g]
    BY <1>7 DEF BranchToCut, Top
  <2> HIDE DEF g
  <2>5. /\ frames' \in Seq(Frame)
        /\ Len(frames') = Len(frames)
        /\ frames'[Len(frames)] = g
        /\ \A k \in 1 .. Len(frames) : k # Len(frames) => frames'[k] = frames[k]
    BY <1>1, <2>1, <2>2, <2>4, ChangeTop
  <2>6. Forked' = Forked
    BY <2>2, <2>5 DEF Forked, Top
  <2>7. \A k \in Forked : /\ frames'[k].orig = frames[k].orig
                          /\ frames'[k].copy_t = frames[k].copy_t
                          /\ Pending(frames'[k]) = Pending(frames[k])
    BY <2>2, <2>3, <2>5 DEF Forked, Top
  <2>8. Live' = Live
    BY <2>1 DEF Live
  <2>9. Handles' /\ Distinct' /\ NoLeak'
    BY <2>1, <2>6, <2>7, <2>8, OwnersKept
  <2> QED BY <1>1, <1>7, <2>5, <2>9 DEF BranchToCut, TypeOK, OwnerInv
<1>8. CASE SkipCut \/ ReturnAfterCut
  <2>1. frames # <<>> /\ Top.kind # "forked" /\ ReturnOneSided
    BY <1>8 DEF SkipCut, ReturnAfterCut, InStage
  <2>2. frames' \in Seq(Frame) /\ Handles' /\ Distinct' /\ NoLeak'
    BY <2>1, PopKeepsOwners DEF ReturnOneSided
  <2>3. conditions_stack' \in Seq(Literal)
    BY <1>1, <2>1, PopType DEF ReturnOneSided, TypeOK
  <2> QED BY <1>1, <2>1, <2>2, <2>3 DEF ReturnOneSided, TypeOK, OwnerInv
<1>9. CASE TrueSideDone
  BY <1>9, SwitchKeepsOwners
<1>10. CASE KeepNeither \/ KeepFalse \/ KeepTrue \/ Merge
  BY <1>10, EndKeepsOwners
<1>11. CASE UNCHANGED vars
  BY <1>1, <1>11, IdleKeepsOwners DEF vars, TypeOK, OwnerInv
<1> QED BY <1>3, <1>3a, <1>4, <1>5, <1>6, <1>7, <1>8, <1>9, <1>10, <1>11 DEF Next

\* The invariant above holds, whatever the program and its inputs.
THEOREM OwnerInvariant == Spec => []OwnerInv
BY OwnerInit, OwnerStep, PTL DEF Spec

\* The variables keep their types.
THEOREM TypeCorrect == Spec => []TypeOK
<1>1. OwnerInv => TypeOK
  BY DEF OwnerInv
<1> QED BY <1>1, OwnerInvariant, PTL

\* Every memory has exactly one owner and nothing else is allocated:
\* conditional_branch frees, keeps and shares memories correctly at any
\* depth of nesting.
THEOREM OneOwnerAlways == Spec => []OneOwner
BY OwnerInvImpliesOneOwner, OwnerInvariant, PTL
-----------------------------------------------------------------------------
(***************************************************************************)
(* The path conditions, the memories to collect and the recursion depth    *)
(* follow the open activations, for every set of inputs, every program and *)
(* any depth of nesting.                                                   *)
(***************************************************************************)

(***************************************************************************)
(* stackframe_depth wraps.                                                 *)
(***************************************************************************)
LEMMA ModUnique ==
  ASSUME NEW m \in Nat \ {0}, NEW q \in Int, NEW r \in 0 .. m - 1
  PROVE  (m * q + r) % m = r
OBVIOUS

LEMMA NextInRange == \A a, b \in Nat : a + 1 <= b => a + 1 \in 1 .. b
OBVIOUS

LEMMA ModStep ==
  ASSUME NEW m \in Nat \ {0}, NEW x \in Int
  PROVE  /\ ((x % m) - 1) % m = (x - 1) % m
         /\ ((x % m) + 1) % m = (x + 1) % m
<1> DEFINE q == x \div m
           r == x % m
<1>1. x = m * q + r /\ q \in Int /\ r \in 0 .. m - 1
  OBVIOUS
<1> HIDE DEF q, r
<1>2. (r - 1) % m = (x - 1) % m
  <2>1. CASE r # 0
    <3>1. r - 1 \in 0 .. m - 1 /\ x - 1 = m * q + (r - 1) /\ r - 1 = m * 0 + (r - 1)
      BY <1>1, <2>1
    <3> QED BY <1>1, <3>1, ModUnique
  <2>2. CASE r = 0
    <3>1. m - 1 \in 0 .. m - 1 /\ m * (q - 1) = m * q - m
      BY <1>1
    <3>2. x - 1 = m * (q - 1) + (m - 1) /\ r - 1 = m * (-1) + (m - 1)
      BY <1>1, <2>2, <3>1
    <3>3. q - 1 \in Int /\ -1 \in Int
      BY <1>1
    <3> QED BY <3>1, <3>2, <3>3, ModUnique
  <2> QED BY <2>1, <2>2
<1>3. (r + 1) % m = (x + 1) % m
  <2>1. CASE r # m - 1
    <3>1. r + 1 \in 0 .. m - 1 /\ x + 1 = m * q + (r + 1) /\ r + 1 = m * 0 + (r + 1)
      BY <1>1, <2>1
    <3> QED BY <1>1, <3>1, ModUnique
  <2>2. CASE r = m - 1
    <3>1. 0 \in 0 .. m - 1 /\ m * (q + 1) = m * q + m
      BY <1>1
    <3>2. x + 1 = m * (q + 1) + 0 /\ r + 1 = m * 1 + 0
      BY <1>1, <2>2, <3>1
    <3>3. q + 1 \in Int /\ 1 \in Int
      BY <1>1
    <3> QED BY <3>1, <3>2, <3>3, ModUnique
  <2> QED BY <2>1, <2>2
<1> QED BY <1>2, <1>3 DEF r

(***************************************************************************)
(* StacksBalanced is inductive once it is known that the stacks never get  *)
(* lower from one activation to the next, so that pushing and popping at   *)
(* the top disturbs nothing an outer activation pushed.                    *)
(***************************************************************************)
HeadsOrdered ==
  \A j, k \in 1 .. Len(frames) + 1 :
    j <= k => CondHead(j) <= CondHead(k) /\ MemHead(j) <= MemHead(k)

StackInv == HeadsOrdered /\ StacksBalanced

LEMMA HeadTypes ==
  ASSUME TypeOK
  PROVE  /\ Len(frames) \in Nat
         /\ Len(conditions_stack) \in Nat
         /\ Len(memories_stack) \in Nat
         /\ \A k \in 1 .. Len(frames) : frames[k] \in Frame
         /\ \A k \in 1 .. Len(frames) + 1 : CondHead(k) \in Nat /\ MemHead(k) \in Nat
<1>1. /\ frames \in Seq(Frame)
      /\ Len(frames) \in Nat
      /\ Len(conditions_stack) \in Nat
      /\ Len(memories_stack) \in Nat
  BY LenProperties DEF TypeOK
<1>2. \A k \in 1 .. Len(frames) : frames[k] \in Frame
  BY <1>1, ElementOfSeq
<1>3. ASSUME NEW k \in 1 .. Len(frames) + 1
      PROVE  CondHead(k) \in Nat /\ MemHead(k) \in Nat
  <2>1. CASE k = Len(frames) + 1
    BY <1>1, <2>1 DEF CondHead, MemHead
  <2>2. CASE k \in 1 .. Len(frames)
    <3>1. frames[k].c_head \in Nat /\ frames[k].m_head \in Nat
      BY <1>2, <2>2 DEF Frame
    <3>2. ~(k > Len(frames))
      BY <1>1, <2>2
    <3> QED BY <3>1, <3>2 DEF CondHead, MemHead
  <2> QED BY <1>1, <2>1, <2>2
<1> QED BY <1>1, <1>2, <1>3

\* Every push of an activation is below the start of the next one.
LEMMA PushedBelow ==
  ASSUME TypeOK, StackInv
  PROVE  \A k \in 1 .. Len(frames) :
           /\ frames[k].c_head = CondHead(k) /\ frames[k].m_head = MemHead(k)
           /\ CondHead(k) <= CondHead(k + 1) /\ CondHead(k + 1) <= Len(conditions_stack)
           /\ MemHead(k) <= MemHead(k + 1) /\ MemHead(k + 1) <= Len(memories_stack)
           /\ frames[k].kind # "direct" => CondHead(k + 1) = frames[k].c_head + 1
           /\ frames[k].kind = "forked" => MemHead(k + 1) = frames[k].m_head + 1
<1> DEFINE n == Len(frames)
<1>1. n \in Nat /\ \A k \in 1 .. n + 1 : CondHead(k) \in Nat /\ MemHead(k) \in Nat
  BY HeadTypes
<1>2. CondHead(n + 1) = Len(conditions_stack) /\ MemHead(n + 1) = Len(memories_stack)
  BY <1>1 DEF CondHead, MemHead
<1> SUFFICES ASSUME NEW k \in 1 .. n
             PROVE  /\ frames[k].c_head = CondHead(k) /\ frames[k].m_head = MemHead(k)
                    /\ CondHead(k) <= CondHead(k + 1) /\ CondHead(k + 1) <= Len(conditions_stack)
                    /\ MemHead(k) <= MemHead(k + 1) /\ MemHead(k + 1) <= Len(memories_stack)
                    /\ frames[k].kind # "direct" => CondHead(k + 1) = frames[k].c_head + 1
                    /\ frames[k].kind = "forked" => MemHead(k + 1) = frames[k].m_head + 1
  OBVIOUS
<1>3. frames[k].c_head = CondHead(k) /\ frames[k].m_head = MemHead(k)
  <2>1. ~(k > n)
    BY <1>1
  <2> QED BY <2>1 DEF CondHead, MemHead
<1>4. /\ CondHead(k) <= CondHead(k + 1) /\ CondHead(k + 1) <= CondHead(n + 1)
      /\ MemHead(k) <= MemHead(k + 1) /\ MemHead(k + 1) <= MemHead(n + 1)
  <2>1. /\ k \in 1 .. n + 1 /\ k + 1 \in 1 .. n + 1 /\ n + 1 \in 1 .. n + 1
        /\ k <= k + 1 /\ k + 1 <= n + 1
    BY <1>1
  <2> QED BY <2>1 DEF StackInv, HeadsOrdered
<1>5. /\ frames[k].kind # "direct" => CondHead(k + 1) = CondHead(k) + 1
      /\ frames[k].kind = "forked" => MemHead(k + 1) = MemHead(k) + 1
  BY DEF StackInv, StacksBalanced
<1> QED BY <1>2, <1>3, <1>4, <1>5

\* The start of an activation that pushes what its kind says.
LEMMA PushBalanced ==
  ASSUME TypeOK, StackInv, TypeOK',
         NEW f \in Frame,
         f.c_head = Len(conditions_stack), f.m_head = Len(memories_stack),
         frames' = Append(frames, f),
         conditions_stack' = IF f.kind = "direct" THEN conditions_stack
                             ELSE Append(conditions_stack, LitIs(f.cond, f.side)),
         memories_stack' = IF f.kind = "forked"
                             THEN Append(memories_stack, IF f.side THEN f.copy_f ELSE f.copy_t)
                             ELSE memories_stack,
         f.kind = "forked" => (IF f.side THEN f.copy_f ELSE f.copy_t) \in Handle,
         stackframe_depth' = IF f.kind = "forked"
                               THEN (stackframe_depth - 1) % DepthModulus
                               ELSE stackframe_depth
  PROVE  StackInv'
<1>0. PICK n, C, M \in Nat :
           n = Len(frames) /\ C = Len(conditions_stack) /\ M = Len(memories_stack)
  BY HeadTypes
<1> DEFINE L == LitIs(f.cond, f.side)
           H == IF f.side THEN f.copy_f ELSE f.copy_t
<1>1. /\ \A k \in 1 .. n + 1 : CondHead(k) \in Nat /\ MemHead(k) \in Nat
      /\ CondHead(n + 1) = C /\ MemHead(n + 1) = M
  BY <1>0, HeadTypes DEF CondHead, MemHead
<1>2. /\ Len(frames') = n + 1
      /\ \A k \in 1 .. n : frames'[k] = frames[k]
      /\ frames'[n + 1] = f
  BY <1>0, AppendProperties DEF TypeOK
<1>3. /\ Len(conditions_stack') = C + (IF f.kind = "direct" THEN 0 ELSE 1)
      /\ \A i \in 1 .. C : conditions_stack'[i] = conditions_stack[i]
      /\ f.kind # "direct" => conditions_stack'[C + 1] = L
  <2>1. L \in Literal
    BY LitIsType DEF Frame
  <2> HIDE DEF L
  <2>2. CASE f.kind = "direct"
    BY <1>0, <2>2
  <2>3. CASE f.kind # "direct"
    <3>1. conditions_stack' = Append(conditions_stack, L) /\ conditions_stack \in Seq(Literal)
      BY <2>3 DEF L, TypeOK
    <3> QED BY <1>0, <2>1, <2>3, <3>1, AppendProperties
  <2> QED BY <2>2, <2>3
<1>4. /\ Len(memories_stack') = M + (IF f.kind = "forked" THEN 1 ELSE 0)
      /\ \A i \in 1 .. M : memories_stack'[i] = memories_stack[i]
      /\ f.kind = "forked" => memories_stack'[M + 1] = H
  <2>1. CASE f.kind # "forked"
    BY <1>0, <2>1
  <2>2. CASE f.kind = "forked"
    <3>1. H \in Handle /\ memories_stack \in Seq(Handle)
      BY <2>2 DEF TypeOK
    <3>2. memories_stack' = Append(memories_stack, H)
      BY <2>2
    <3> HIDE DEF H
    <3> QED BY <1>0, <2>2, <3>1, <3>2, AppendProperties
  <2> QED BY <2>1, <2>2
<1> HIDE DEF L, H
<1>5. /\ \A k \in 1 .. n + 1 : CondHead(k)' = CondHead(k) /\ MemHead(k)' = MemHead(k)
      /\ CondHead(n + 2)' = Len(conditions_stack') /\ MemHead(n + 2)' = Len(memories_stack')
  BY <1>0, <1>1, <1>2 DEF CondHead, MemHead
<1>6. HeadsOrdered'
  <2> SUFFICES ASSUME NEW j \in 1 .. n + 2, NEW k \in 1 .. n + 2, j <= k
               PROVE  CondHead(j)' <= CondHead(k)' /\ MemHead(j)' <= MemHead(k)'
    BY <1>2 DEF HeadsOrdered
  <2>1. CASE k # n + 2
    <3>1. j \in 1 .. n + 1 /\ k \in 1 .. n + 1
      BY <1>0, <2>1
    <3>2. CondHead(j) <= CondHead(k) /\ MemHead(j) <= MemHead(k)
      BY <1>0, <3>1 DEF StackInv, HeadsOrdered
    <3> QED BY <1>5, <3>1, <3>2
  <2>2. CASE k = n + 2 /\ j # n + 2
    <3>1. CondHead(j) <= C /\ MemHead(j) <= M /\ j \in 1 .. n + 1
      BY <1>0, <1>1, <2>2 DEF StackInv, HeadsOrdered
    <3>2. CondHead(j) \in Nat /\ MemHead(j) \in Nat
      BY <1>1, <3>1
    <3> QED BY <1>0, <1>3, <1>4, <1>5, <2>2, <3>1, <3>2
  <2>3. CASE j = n + 2 /\ k = n + 2
    BY <1>0, <1>3, <1>4, <1>5, <2>3
  <2> QED BY <2>1, <2>2, <2>3
<1>7. StacksBalanced'
  <2>1. CondHead(1)' = 0 /\ MemHead(1)' = 0
    BY <1>0, <1>5 DEF StackInv, StacksBalanced
  <2>2. ASSUME NEW k \in 1 .. n
        PROVE  /\ CondHead(k + 1)' = CondHead(k)' + (IF frames'[k].kind = "direct" THEN 0 ELSE 1)
               /\ MemHead(k + 1)' = MemHead(k)' + (IF frames'[k].kind = "forked" THEN 1 ELSE 0)
               /\ frames'[k].kind # "direct" =>
                    conditions_stack'[frames'[k].c_head + 1]
                      = LitIs(frames'[k].cond, frames'[k].side)
               /\ frames'[k].kind = "forked" =>
                    memories_stack'[frames'[k].m_head + 1]
                      = IF frames'[k].side THEN frames'[k].copy_f ELSE frames'[k].copy_t
    <3>1. frames'[k] = frames[k] /\ k \in 1 .. n + 1 /\ k + 1 \in 1 .. n + 1
      BY <1>0, <1>2
    <3>2. /\ CondHead(k + 1) = CondHead(k) + (IF frames[k].kind = "direct" THEN 0 ELSE 1)
          /\ MemHead(k + 1) = MemHead(k) + (IF frames[k].kind = "forked" THEN 1 ELSE 0)
          /\ frames[k].kind # "direct" =>
               conditions_stack[frames[k].c_head + 1] = LitIs(frames[k].cond, frames[k].side)
          /\ frames[k].kind = "forked" =>
               memories_stack[frames[k].m_head + 1]
                 = IF frames[k].side THEN frames[k].copy_f ELSE frames[k].copy_t
      BY <1>0 DEF StackInv, StacksBalanced
    <3>3. /\ frames[k].kind # "direct" => frames[k].c_head + 1 \in 1 .. C
          /\ frames[k].kind = "forked" => frames[k].m_head + 1 \in 1 .. M
      <4>1. /\ frames[k].c_head = CondHead(k) /\ CondHead(k) \in Nat
            /\ frames[k].m_head = MemHead(k) /\ MemHead(k) \in Nat
        BY <1>0, <1>1, <3>1, PushedBelow
      <4>2. /\ frames[k].kind # "direct" => frames[k].c_head + 1 <= C
            /\ frames[k].kind = "forked" => frames[k].m_head + 1 <= M
        BY <1>0, PushedBelow
      <4>3. frames[k].c_head \in Nat /\ frames[k].m_head \in Nat
        BY <4>1
      <4>4. frames[k].kind # "direct" => frames[k].c_head + 1 \in 1 .. C
        BY <1>0, <4>2, <4>3, NextInRange
      <4>5. frames[k].kind = "forked" => frames[k].m_head + 1 \in 1 .. M
        BY <1>0, <4>2, <4>3, NextInRange
      <4> QED BY <4>4, <4>5
    <3>4. CondHead(k + 1)' = CondHead(k + 1) /\ MemHead(k + 1)' = MemHead(k + 1)
      BY <1>5, <3>1
    <3>5. CondHead(k)' = CondHead(k) /\ MemHead(k)' = MemHead(k)
      BY <1>5, <3>1
    <3>6. ASSUME frames[k].kind # "direct"
          PROVE  conditions_stack'[frames[k].c_head + 1] = conditions_stack[frames[k].c_head + 1]
      BY <1>3, <3>3, <3>6
    <3>7. ASSUME frames[k].kind = "forked"
          PROVE  memories_stack'[frames[k].m_head + 1] = memories_stack[frames[k].m_head + 1]
      BY <1>4, <3>3, <3>7
    <3> QED BY <3>1, <3>2, <3>4, <3>5, <3>6, <3>7
  <2>3. /\ CondHead(n + 2)' = CondHead(n + 1)' + (IF f.kind = "direct" THEN 0 ELSE 1)
        /\ MemHead(n + 2)' = MemHead(n + 1)' + (IF f.kind = "forked" THEN 1 ELSE 0)
        /\ f.kind # "direct" => conditions_stack'[f.c_head + 1] = LitIs(f.cond, f.side)
        /\ f.kind = "forked" =>
             memories_stack'[f.m_head + 1] = IF f.side THEN f.copy_f ELSE f.copy_t
    <3>1. f.c_head = C /\ f.m_head = M
      BY <1>0
    <3>2. n + 1 \in 1 .. n + 1
      BY <1>0
    <3>3. CondHead(n + 1)' = C /\ MemHead(n + 1)' = M
      BY <1>1, <1>5, <3>2
    <3>4. /\ CondHead(n + 2)' = CondHead(n + 1)' + (IF f.kind = "direct" THEN 0 ELSE 1)
          /\ MemHead(n + 2)' = MemHead(n + 1)' + (IF f.kind = "forked" THEN 1 ELSE 0)
      BY <1>3, <1>4, <1>5, <3>3
    <3>5. f.kind # "direct" => conditions_stack'[f.c_head + 1] = LitIs(f.cond, f.side)
      BY <1>3, <3>1 DEF L
    <3>6. f.kind = "forked" =>
            memories_stack'[f.m_head + 1] = IF f.side THEN f.copy_f ELSE f.copy_t
      BY <1>4, <3>1 DEF H
    <3> QED BY <3>4, <3>5, <3>6
  <2>4. stackframe_depth' = (InitDepth - Len(memories_stack')) % DepthModulus
    <3>1. stackframe_depth = (InitDepth - M) % DepthModulus
      BY <1>0 DEF StackInv, StacksBalanced
    <3>2. InitDepth - M \in Int /\ DepthModulus \in Nat \ {0}
      BY <1>0, BranchAssumption
    <3>3. (((InitDepth - M) % DepthModulus) - 1) % DepthModulus
            = (InitDepth - M - 1) % DepthModulus
      BY <3>2, ModStep
    <3>4. InitDepth - M - 1 = InitDepth - (M + 1)
      BY <1>0, BranchAssumption
    <3> QED BY <1>0, <1>4, <3>1, <3>3, <3>4
  <2>5. \A k \in 1 .. Len(frames') : k \in 1 .. n \/ k = n + 1
    BY <1>0, <1>2
  <2>6. n + 1 + 1 = n + 2
    BY <1>0
  <2>7. ASSUME NEW k \in 1 .. Len(frames')
        PROVE  /\ CondHead(k + 1)' = CondHead(k)' + (IF frames'[k].kind = "direct" THEN 0 ELSE 1)
               /\ MemHead(k + 1)' = MemHead(k)' + (IF frames'[k].kind = "forked" THEN 1 ELSE 0)
               /\ frames'[k].kind # "direct" =>
                    conditions_stack'[frames'[k].c_head + 1]
                      = LitIs(frames'[k].cond, frames'[k].side)
               /\ frames'[k].kind = "forked" =>
                    memories_stack'[frames'[k].m_head + 1]
                      = IF frames'[k].side THEN frames'[k].copy_f ELSE frames'[k].copy_t
    <3>1. CASE k \in 1 .. n
      BY <2>2, <3>1
    <3>2. CASE k = n + 1
      BY <1>2, <2>3, <2>6, <3>2
    <3> QED BY <2>5, <3>1, <3>2
  <2> QED BY <2>1, <2>4, <2>7 DEF StacksBalanced
<1> QED BY <1>6, <1>7 DEF StackInv

\* The end of an activation that pops what its kind says.
LEMMA PopBalanced ==
  ASSUME TypeOK, StackInv, frames # <<>>, frames' = Pop(frames),
         conditions_stack' = IF Top.kind = "direct" THEN conditions_stack
                                                    ELSE Pop(conditions_stack),
         memories_stack' = IF Top.kind = "forked" THEN Pop(memories_stack)
                                                  ELSE memories_stack,
         stackframe_depth' = IF Top.kind = "forked"
                               THEN (stackframe_depth + 1) % DepthModulus
                               ELSE stackframe_depth
  PROVE  StackInv'
<1>0. PICK n, C, M \in Nat :
           /\ n = Len(frames) /\ n # 0
           /\ C = CondHead(n) /\ M = MemHead(n)
  <2>1. Len(frames) \in Nat \ {0} /\ Len(frames) \in 1 .. Len(frames) + 1
    BY TopFrame
  <2> QED BY <2>1, HeadTypes
<1>1. /\ n \in 1 .. n /\ Top = frames[n]
      /\ frames[n].c_head = C /\ frames[n].m_head = M
      /\ Len(conditions_stack) = C + (IF Top.kind = "direct" THEN 0 ELSE 1)
      /\ Len(memories_stack) = M + (IF Top.kind = "forked" THEN 1 ELSE 0)
  <2>1. n \in 1 .. n /\ Top = frames[n]
    BY <1>0 DEF Top
  <2>2. CondHead(n + 1) = Len(conditions_stack) /\ MemHead(n + 1) = Len(memories_stack)
    BY <1>0 DEF CondHead, MemHead
  <2>3. frames[n].c_head = C /\ frames[n].m_head = M
    BY <1>0, <2>1, PushedBelow
  <2> QED BY <1>0, <2>1, <2>2, <2>3 DEF StackInv, StacksBalanced
<1>2. Len(frames') = n - 1 /\ \A k \in 1 .. n - 1 : frames'[k] = frames[k]
  BY <1>0, PopFrames
<1>3. /\ Len(conditions_stack') = C
      /\ \A i \in 1 .. C : conditions_stack'[i] = conditions_stack[i]
  <2>1. CASE Top.kind = "direct"
    BY <1>1, <2>1
  <2>2. CASE Top.kind # "direct"
    <3>1. conditions_stack \in Seq(Literal) /\ conditions_stack # <<>>
      BY <1>0, <1>1, <2>2 DEF TypeOK
    <3>2. C = Len(conditions_stack) - 1 /\ conditions_stack' = Pop(conditions_stack)
      BY <1>0, <1>1, <2>2
    <3> QED BY <3>1, <3>2, PopProperties
  <2> QED BY <2>1, <2>2
<1>4. /\ Len(memories_stack') = M
      /\ \A i \in 1 .. M : memories_stack'[i] = memories_stack[i]
  <2>1. CASE Top.kind # "forked"
    BY <1>1, <2>1
  <2>2. CASE Top.kind = "forked"
    <3>1. memories_stack \in Seq(Handle) /\ memories_stack # <<>>
      BY <1>0, <1>1, <2>2 DEF TypeOK
    <3>2. M = Len(memories_stack) - 1 /\ memories_stack' = Pop(memories_stack)
      BY <1>0, <1>1, <2>2
    <3> QED BY <3>1, <3>2, PopProperties
  <2> QED BY <2>1, <2>2
<1>5. \A k \in 1 .. n : CondHead(k)' = CondHead(k) /\ MemHead(k)' = MemHead(k)
  <2> SUFFICES ASSUME NEW k \in 1 .. n
               PROVE  CondHead(k)' = CondHead(k) /\ MemHead(k)' = MemHead(k)
    OBVIOUS
  <2>1. CASE k = n
    BY <1>0, <1>2, <1>3, <1>4, <2>1 DEF CondHead, MemHead
  <2>2. CASE k # n
    <3>1. k \in 1 .. n - 1 /\ ~(k > n) /\ ~(k > n - 1)
      BY <1>0, <2>2
    <3> QED BY <1>0, <1>2, <3>1 DEF CondHead, MemHead
  <2> QED BY <2>1, <2>2
<1>6. HeadsOrdered'
  <2> SUFFICES ASSUME NEW j \in 1 .. n, NEW k \in 1 .. n, j <= k
               PROVE  CondHead(j)' <= CondHead(k)' /\ MemHead(j)' <= MemHead(k)'
    BY <1>0, <1>2 DEF HeadsOrdered
  <2>1. j \in 1 .. n + 1 /\ k \in 1 .. n + 1
    BY <1>0
  <2>2. CondHead(j) <= CondHead(k) /\ MemHead(j) <= MemHead(k)
    BY <1>0, <2>1 DEF StackInv, HeadsOrdered
  <2> QED BY <1>5, <2>2
<1>7. StacksBalanced'
  <2>1. CondHead(1)' = 0 /\ MemHead(1)' = 0
    BY <1>0, <1>5 DEF StackInv, StacksBalanced
  <2>2. ASSUME NEW k \in 1 .. n - 1
        PROVE  /\ CondHead(k + 1)' = CondHead(k)' + (IF frames'[k].kind = "direct" THEN 0 ELSE 1)
               /\ MemHead(k + 1)' = MemHead(k)' + (IF frames'[k].kind = "forked" THEN 1 ELSE 0)
               /\ frames'[k].kind # "direct" =>
                    conditions_stack'[frames'[k].c_head + 1]
                      = LitIs(frames'[k].cond, frames'[k].side)
               /\ frames'[k].kind = "forked" =>
                    memories_stack'[frames'[k].m_head + 1]
                      = IF frames'[k].side THEN frames'[k].copy_f ELSE frames'[k].copy_t
    <3>1. frames'[k] = frames[k] /\ k \in 1 .. n /\ k + 1 \in 1 .. n
      BY <1>0, <1>2
    <3>2. /\ CondHead(k + 1) = CondHead(k) + (IF frames[k].kind = "direct" THEN 0 ELSE 1)
          /\ MemHead(k + 1) = MemHead(k) + (IF frames[k].kind = "forked" THEN 1 ELSE 0)
          /\ frames[k].kind # "direct" =>
               conditions_stack[frames[k].c_head + 1] = LitIs(frames[k].cond, frames[k].side)
          /\ frames[k].kind = "forked" =>
               memories_stack[frames[k].m_head + 1]
                 = IF frames[k].side THEN frames[k].copy_f ELSE frames[k].copy_t
      BY <1>0, <3>1 DEF StackInv, StacksBalanced
    <3>3. /\ frames[k].kind # "direct" => frames[k].c_head + 1 \in 1 .. C
          /\ frames[k].kind = "forked" => frames[k].m_head + 1 \in 1 .. M
      <4>1. /\ frames[k].c_head \in Nat /\ frames[k].m_head \in Nat
        BY <1>0, <3>1, HeadTypes DEF Frame
      <4>2. /\ frames[k].kind # "direct" => CondHead(k + 1) = frames[k].c_head + 1
            /\ frames[k].kind = "forked" => MemHead(k + 1) = frames[k].m_head + 1
        BY <1>0, <3>1, PushedBelow
      <4>3. CondHead(k + 1) <= C /\ MemHead(k + 1) <= M
        <5>1. k + 1 \in 1 .. n + 1 /\ n \in 1 .. n + 1 /\ k + 1 <= n
          BY <1>0
        <5> QED BY <1>0, <5>1 DEF StackInv, HeadsOrdered
      <4> QED BY <1>0, <4>1, <4>2, <4>3
    <3>4. /\ CondHead(k + 1)' = CondHead(k + 1) /\ MemHead(k + 1)' = MemHead(k + 1)
          /\ CondHead(k)' = CondHead(k) /\ MemHead(k)' = MemHead(k)
      BY <1>5, <3>1
    <3> QED BY <1>3, <1>4, <3>1, <3>2, <3>3, <3>4
  <2>3. stackframe_depth' = (InitDepth - Len(memories_stack')) % DepthModulus
    <3>1. stackframe_depth = (InitDepth - Len(memories_stack)) % DepthModulus
      BY DEF StackInv, StacksBalanced
    <3>2. InitDepth - (M + 1) \in Int /\ DepthModulus \in Nat \ {0}
      BY <1>0, BranchAssumption
    <3>3. (((InitDepth - (M + 1)) % DepthModulus) + 1) % DepthModulus
            = (InitDepth - (M + 1) + 1) % DepthModulus
      BY <3>2, ModStep
    <3>4. InitDepth - (M + 1) + 1 = InitDepth - M
      BY <1>0, BranchAssumption
    <3> QED BY <1>0, <1>1, <1>4, <3>1, <3>3, <3>4
  <2> QED BY <1>2, <2>1, <2>2, <2>3 DEF StacksBalanced
<1> QED BY <1>6, <1>7 DEF StackInv

\* A callback returns to an activation that stays open: it may turn to its
\* other side, but has pushed as much as before.
LEMMA TurnBalanced ==
  ASSUME TypeOK, StackInv, frames # <<>>, NEW f \in Frame,
         frames' = [frames EXCEPT ![Len(frames)] = f],
         f.kind = Top.kind, f.c_head = Top.c_head, f.m_head = Top.m_head,
         Len(conditions_stack') = Len(conditions_stack),
         Len(memories_stack') = Len(memories_stack),
         \A i \in 1 .. Top.c_head : conditions_stack'[i] = conditions_stack[i],
         \A i \in 1 .. Top.m_head : memories_stack'[i] = memories_stack[i],
         f.kind # "direct" => conditions_stack'[f.c_head + 1] = LitIs(f.cond, f.side),
         f.kind = "forked" => memories_stack'[f.m_head + 1] =
                                IF f.side THEN f.copy_f ELSE f.copy_t,
         stackframe_depth' = stackframe_depth
  PROVE  StackInv'
<1>0. PICK n \in Nat : n = Len(frames) /\ n # 0 /\ n \in 1 .. n
  BY TopFrame
<1>1. /\ Len(frames') = n /\ frames'[n] = f /\ Top = frames[n]
      /\ \A k \in 1 .. n : k # n => frames'[k] = frames[k]
  BY <1>0, ChangeTop DEF Top
<1>2. \A k \in 1 .. n + 1 : CondHead(k)' = CondHead(k) /\ MemHead(k)' = MemHead(k)
  BY <1>0, <1>1 DEF CondHead, MemHead
<1>3. HeadsOrdered'
  BY <1>0, <1>1, <1>2 DEF StackInv, HeadsOrdered
<1>4. StacksBalanced'
  <2>1. CondHead(1)' = 0 /\ MemHead(1)' = 0
    BY <1>0, <1>2 DEF StackInv, StacksBalanced
  <2>2. ASSUME NEW k \in 1 .. n
        PROVE  /\ CondHead(k + 1)' = CondHead(k)' + (IF frames'[k].kind = "direct" THEN 0 ELSE 1)
               /\ MemHead(k + 1)' = MemHead(k)' + (IF frames'[k].kind = "forked" THEN 1 ELSE 0)
               /\ frames'[k].kind # "direct" =>
                    conditions_stack'[frames'[k].c_head + 1]
                      = LitIs(frames'[k].cond, frames'[k].side)
               /\ frames'[k].kind = "forked" =>
                    memories_stack'[frames'[k].m_head + 1]
                      = IF frames'[k].side THEN frames'[k].copy_f ELSE frames'[k].copy_t
    <3>1. k \in 1 .. n + 1 /\ k + 1 \in 1 .. n + 1
      BY <1>0
    <3>2. /\ CondHead(k + 1)' = CondHead(k + 1) /\ MemHead(k + 1)' = MemHead(k + 1)
          /\ CondHead(k)' = CondHead(k) /\ MemHead(k)' = MemHead(k)
      BY <1>2, <3>1
    <3>3. /\ CondHead(k + 1) = CondHead(k) + (IF frames[k].kind = "direct" THEN 0 ELSE 1)
          /\ MemHead(k + 1) = MemHead(k) + (IF frames[k].kind = "forked" THEN 1 ELSE 0)
          /\ frames[k].kind # "direct" =>
               conditions_stack[frames[k].c_head + 1] = LitIs(frames[k].cond, frames[k].side)
          /\ frames[k].kind = "forked" =>
               memories_stack[frames[k].m_head + 1]
                 = IF frames[k].side THEN frames[k].copy_f ELSE frames[k].copy_t
      BY <1>0, <3>1 DEF StackInv, StacksBalanced
    <3>4. CASE k = n
      BY <1>1, <3>2, <3>3, <3>4
    <3>5. CASE k # n
      <4>1. frames'[k] = frames[k]
        BY <1>1, <3>5
      <4>2. frames[k].c_head \in Nat /\ frames[k].m_head \in Nat
        BY <1>0, HeadTypes DEF Frame
      <4>3. /\ frames[k].kind # "direct" => CondHead(k + 1) = frames[k].c_head + 1
            /\ frames[k].kind = "forked" => MemHead(k + 1) = frames[k].m_head + 1
        BY <1>0, PushedBelow
      <4>4. CondHead(k + 1) <= Top.c_head /\ MemHead(k + 1) <= Top.m_head
        <5>1. k + 1 \in 1 .. n + 1 /\ n \in 1 .. n + 1 /\ k + 1 <= n
          BY <1>0, <3>5
        <5>2. CondHead(n) = Top.c_head /\ MemHead(n) = Top.m_head
          BY <1>0, <1>1, PushedBelow
        <5> QED BY <1>0, <5>1, <5>2 DEF StackInv, HeadsOrdered
      <4>5. Top.c_head \in Nat /\ Top.m_head \in Nat
        BY TopFrame DEF Frame
      <4>6. /\ frames[k].kind # "direct" => frames[k].c_head + 1 \in 1 .. Top.c_head
            /\ frames[k].kind = "forked" => frames[k].m_head + 1 \in 1 .. Top.m_head
        <5>1. frames[k].kind # "direct" => frames[k].c_head + 1 \in 1 .. Top.c_head
          BY <4>2, <4>3, <4>4, <4>5, NextInRange
        <5>2. frames[k].kind = "forked" => frames[k].m_head + 1 \in 1 .. Top.m_head
          BY <4>2, <4>3, <4>4, <4>5, NextInRange
        <5> QED BY <5>1, <5>2
      <4> QED BY <3>2, <3>3, <4>1, <4>6
    <3> QED BY <3>4, <3>5
  <2>3. stackframe_depth' = (InitDepth - Len(memories_stack')) % DepthModulus
    BY DEF StackInv, StacksBalanced
  <2> QED BY <1>1, <2>1, <2>2, <2>3 DEF StacksBalanced
<1> QED BY <1>3, <1>4 DEF StackInv

LEMMA IdleBalanced ==
  ASSUME StackInv,
         UNCHANGED <<frames, conditions_stack, memories_stack, stackframe_depth>>
  PROVE  StackInv'
<1>1. \A k : CondHead(k)' = CondHead(k) /\ MemHead(k)' = MemHead(k)
  BY DEF CondHead, MemHead
<1>2. HeadsOrdered'
  BY <1>1 DEF StackInv, HeadsOrdered
<1>3. StacksBalanced'
  BY <1>1 DEF StackInv, StacksBalanced
<1> QED BY <1>2, <1>3 DEF StackInv

LEMMA StackInit == Init => StackInv
<1> SUFFICES ASSUME Init
             PROVE  StackInv
  OBVIOUS
<1>1. /\ frames = <<>> /\ Len(frames) = 0
      /\ Len(conditions_stack) = 0 /\ Len(memories_stack) = 0
  BY DEF Init
<1>2. CondHead(1) = 0 /\ MemHead(1) = 0
  BY <1>1 DEF CondHead, MemHead
<1>3. stackframe_depth = (InitDepth - 0) % DepthModulus
  <2>1. InitDepth \in 0 .. DepthModulus - 1 /\ DepthModulus \in Nat \ {0}
    BY BranchAssumption
  <2>2. InitDepth - 0 = DepthModulus * 0 + InitDepth
    BY <2>1
  <2>3. (DepthModulus * 0 + InitDepth) % DepthModulus = InitDepth
    BY <2>1, ModUnique
  <2> QED BY <2>2, <2>3 DEF Init
<1>4. HeadsOrdered
  BY <1>1, <1>2 DEF HeadsOrdered
<1>5. StacksBalanced
  <2>1. 1 .. Len(frames) = {}
    BY <1>1
  <2> QED BY <1>1, <1>2, <1>3, <2>1 DEF StacksBalanced
<1> QED BY <1>4, <1>5 DEF StackInv

LEMMA StackStep == OwnerInv /\ OwnerInv' /\ StackInv /\ [Next]_vars => StackInv'
<1> SUFFICES ASSUME OwnerInv, OwnerInv', StackInv, [Next]_vars
             PROVE  StackInv'
  OBVIOUS
<1>1. TypeOK /\ TypeOK' /\ Handles
  BY DEF OwnerInv
<1>2. CASE \E st \in Stores : Store(st) \/ StoreOutside(st)
  BY <1>2, IdleBalanced DEF Store, StoreOutside
<1>2a. CASE \E mv \in Moves : Move(mv) \/ MoveOutside(mv)
  BY <1>2a, IdleBalanced DEF Move, MoveOutside
<1>3. CASE \E n \in Pops : \/ \E size \in MallocSizes : Malloc(size, n)
                           \/ LibraryCall(n) \/ AssertFails(n) \/ AssertUnreachable(n)
  BY <1>3, IdleBalanced DEF Malloc, LibraryCall, AssertFails, AssertUnreachable
<1>4. CASE BranchSkipped \/ UNCHANGED vars
  BY <1>4, IdleBalanced DEF BranchSkipped, vars
<1>5. ASSUME NEW c \in Condition
      PROVE  /\ BranchConstant(c) => StackInv'
             /\ BranchForked(c) => StackInv'
             /\ \A side \in BOOLEAN :
                  BranchPruned(c, side) \/ BranchInfeasible(c, side) => StackInv'
  <2>1. c \in Literal
    BY BranchAssumption
  <2>2. ASSUME BranchConstant(c)
        PROVE  StackInv'
    <3> DEFINE f == NewFrame("direct", c, c = Const1)
    <3>1. f \in Frame
      BY <1>1, <2>1, NewFrameType
    <3>2. /\ f.c_head = Len(conditions_stack) /\ f.m_head = Len(memories_stack)
          /\ f.kind = "direct"
      BY DEF NewFrame
    <3>3. /\ frames' = Append(frames, f)
          /\ UNCHANGED <<conditions_stack, memories_stack, stackframe_depth>>
      BY <2>2 DEF BranchConstant
    <3> HIDE DEF f
    <3> QED BY <1>1, <3>1, <3>2, <3>3, PushBalanced
  <2>3. ASSUME NEW side \in BOOLEAN, BranchPruned(c, side)
        PROVE  StackInv'
    <3> DEFINE f == NewFrame("pruned", c, side)
    <3>1. f \in Frame
      BY <1>1, <2>1, NewFrameType
    <3>2. /\ f.c_head = Len(conditions_stack) /\ f.m_head = Len(memories_stack)
          /\ f.kind = "pruned" /\ f.cond = c /\ f.side = side
      BY DEF NewFrame
    <3>3. /\ frames' = Append(frames, f)
          /\ conditions_stack' = Append(conditions_stack, LitIs(c, side))
          /\ UNCHANGED <<memories_stack, stackframe_depth>>
      BY <2>3 DEF BranchPruned
    <3> HIDE DEF f
    <3> QED BY <1>1, <3>1, <3>2, <3>3, PushBalanced
  <2>4. ASSUME NEW side \in BOOLEAN, BranchInfeasible(c, side)
        PROVE  StackInv'
    BY <2>4, IdleBalanced DEF BranchInfeasible
  <2>5. ASSUME BranchForked(c)
        PROVE  StackInv'
    <3>1. PICK t \in Handle \ Live, g \in Handle \ Live :
             /\ memories_stack' = Append(memories_stack, g)
             /\ frames' = Append(frames, [NewFrame("forked", c, TRUE) EXCEPT
                                            !.orig = memory, !.copy_t = t, !.copy_f = g])
      BY <2>5 DEF BranchForked
    <3> DEFINE f == [NewFrame("forked", c, TRUE) EXCEPT
                       !.orig = memory, !.copy_t = t, !.copy_f = g]
    <3>2. NewFrame("forked", c, TRUE) \in Frame
      BY <1>1, <2>1, NewFrameType
    <3>3. memory \in Handle
      BY <1>1 DEF TypeOK
    <3>4. f \in Frame /\ f.copy_f = g
      BY <3>2, <3>3 DEF Frame
    <3>5. /\ f.c_head = Len(conditions_stack) /\ f.m_head = Len(memories_stack)
          /\ f.kind = "forked" /\ f.cond = c /\ f.side = TRUE
      BY DEF NewFrame
    <3>6. /\ frames' = Append(frames, f)
          /\ conditions_stack' = Append(conditions_stack, LitIs(c, TRUE))
          /\ stackframe_depth' = (stackframe_depth - 1) % DepthModulus
      BY <2>5, <3>1 DEF BranchForked
    <3> HIDE DEF f
    <3> QED BY <1>1, <3>1, <3>4, <3>5, <3>6, PushBalanced
  <2> QED BY <2>2, <2>3, <2>4, <2>5
<1>6. CASE BranchToCut
  <2> DEFINE f == [Top EXCEPT !.stage = "cut"]
  <2>1. frames # <<>>
    BY <1>6 DEF BranchToCut, InStage
  <2>2. Top \in Frame /\ Top = frames[Len(frames)] /\ Len(frames) \in 1 .. Len(frames)
    BY <1>1, <2>1, TopFrame
  <2>3. /\ f \in Frame /\ f.kind = Top.kind
        /\ f.c_head = Top.c_head /\ f.m_head = Top.m_head
        /\ f.cond = Top.cond /\ f.side = Top.side
        /\ f.copy_t = Top.copy_t /\ f.copy_f = Top.copy_f
    BY <2>2 DEF Frame
  <2>4. /\ frames' = [frames EXCEPT ![Len(frames)] = f]
        /\ UNCHANGED <<conditions_stack, memories_stack, stackframe_depth>>
    BY <1>6 DEF BranchToCut, Top
  <2>5. /\ Top.kind # "direct" =>
             conditions_stack[Top.c_head + 1] = LitIs(Top.cond, Top.side)
        /\ Top.kind = "forked" =>
             memories_stack[Top.m_head + 1] = IF Top.side THEN Top.copy_f ELSE Top.copy_t
    BY <2>2 DEF StackInv, StacksBalanced
  <2> HIDE DEF f
  <2> QED BY <1>1, <2>1, <2>3, <2>4, <2>5, TurnBalanced
<1>7. CASE SkipCut \/ ReturnAfterCut
  <2>1. frames # <<>> /\ Top.kind # "forked" /\ ReturnOneSided
    BY <1>7 DEF SkipCut, ReturnAfterCut, InStage
  <2>2. Top.kind \in {"direct", "pruned"}
    BY <1>1, <2>1, TopFrame DEF Frame
  <2>3. /\ frames' = Pop(frames)
        /\ conditions_stack' = IF Top.kind = "pruned" THEN Pop(conditions_stack)
                                                      ELSE conditions_stack
        /\ UNCHANGED <<memories_stack, stackframe_depth>>
    BY <2>1 DEF ReturnOneSided
  <2> QED BY <1>1, <2>1, <2>2, <2>3, PopBalanced
<1>8. CASE TrueSideDone
  <2> DEFINE f == [Top EXCEPT !.side = FALSE, !.stage = "branch",
                              !.t_result = memory, !.t_heap = heap_offset,
                              !.t_error = branch_error]
  <2>1. frames # <<>> /\ Top.kind = "forked" /\ Top.side
    BY <1>8 DEF TrueSideDone, SwitchSides, InStage
  <2>2. /\ Top \in Frame /\ Top = frames[Len(frames)]
        /\ Len(frames) \in Nat /\ Len(frames) \in 1 .. Len(frames)
    BY <1>1, <2>1, TopFrame
  <2>3. /\ f \in Frame /\ f.kind = Top.kind
        /\ f.c_head = Top.c_head /\ f.m_head = Top.m_head
        /\ f.cond = Top.cond /\ f.side = FALSE /\ f.copy_t = Top.copy_t
    BY <1>1, <2>2 DEF Frame, TypeOK
  <2>4. /\ frames' = [frames EXCEPT ![Len(frames)] = f]
        /\ conditions_stack' = Append(Pop(conditions_stack), LitIs(Top.cond, FALSE))
        /\ memories_stack' = Append(Pop(memories_stack), Top.copy_t)
        /\ UNCHANGED stackframe_depth
    BY <1>8 DEF TrueSideDone, SwitchSides, Top
  <2> HIDE DEF f
  <2>5. /\ Len(conditions_stack) = Top.c_head + 1 /\ Top.c_head \in Nat
        /\ Len(memories_stack) = Top.m_head + 1 /\ Top.m_head \in Nat
    <3>1. /\ CondHead(Len(frames) + 1) = Len(conditions_stack)
          /\ MemHead(Len(frames) + 1) = Len(memories_stack)
      BY <2>2 DEF CondHead, MemHead
    <3>2. /\ CondHead(Len(frames) + 1) = Top.c_head + 1
          /\ MemHead(Len(frames) + 1) = Top.m_head + 1
      BY <1>1, <2>1, <2>2, PushedBelow
    <3>3. Top.c_head \in Nat /\ Top.m_head \in Nat
      BY <2>2 DEF Frame
    <3> QED BY <3>1, <3>2, <3>3
  <2>6. /\ Len(conditions_stack') = Len(conditions_stack)
        /\ \A i \in 1 .. Top.c_head : conditions_stack'[i] = conditions_stack[i]
        /\ conditions_stack'[Top.c_head + 1] = LitIs(Top.cond, FALSE)
    <3>1. conditions_stack \in Seq(Literal) /\ conditions_stack # <<>>
      BY <1>1, <2>5 DEF TypeOK
    <3>2. LitIs(Top.cond, FALSE) \in Literal
      BY <2>2, LitIsType DEF Frame
    <3>3. /\ Pop(conditions_stack) \in Seq(Literal)
          /\ Len(Pop(conditions_stack)) = Top.c_head
          /\ \A i \in 1 .. Top.c_head : Pop(conditions_stack)[i] = conditions_stack[i]
      BY <2>5, <3>1, PopProperties
    <3>4. /\ Len(conditions_stack') = Top.c_head + 1
          /\ \A i \in 1 .. Top.c_head : conditions_stack'[i] = Pop(conditions_stack)[i]
          /\ conditions_stack'[Top.c_head + 1] = LitIs(Top.cond, FALSE)
      <4>1. PICK s \in Seq(Literal), l \in Literal :
               s = Pop(conditions_stack) /\ l = LitIs(Top.cond, FALSE)
        BY <3>2, <3>3
      <4>2. conditions_stack' = Append(s, l) /\ Len(s) = Top.c_head
        BY <2>4, <3>3, <4>1
      <4>3. /\ Len(conditions_stack') = Top.c_head + 1
            /\ \A i \in 1 .. Top.c_head : conditions_stack'[i] = s[i]
            /\ conditions_stack'[Top.c_head + 1] = l
        BY <4>2, AppendProperties
      <4> QED BY <4>1, <4>3
    <3> QED BY <2>5, <3>3, <3>4
  <2>7. /\ Len(memories_stack') = Len(memories_stack)
        /\ \A i \in 1 .. Top.m_head : memories_stack'[i] = memories_stack[i]
        /\ memories_stack'[Top.m_head + 1] = Top.copy_t
    <3>1. memories_stack \in Seq(Handle) /\ memories_stack # <<>>
      BY <1>1, <2>5 DEF TypeOK
    <3>2. Top.copy_t \in Handle
      BY <1>1, <2>1, <2>2 DEF Handles, Forked
    <3>3. /\ Pop(memories_stack) \in Seq(Handle)
          /\ Len(Pop(memories_stack)) = Top.m_head
          /\ \A i \in 1 .. Top.m_head : Pop(memories_stack)[i] = memories_stack[i]
      BY <2>5, <3>1, PopProperties
    <3> QED BY <2>4, <2>5, <3>2, <3>3, AppendProperties
  <2> QED BY <1>1, <2>1, <2>3, <2>4, <2>6, <2>7, TurnBalanced
<1>9. CASE KeepNeither \/ KeepFalse \/ KeepTrue \/ Merge
  <2>1. FalseSideDone
    BY <1>9 DEF KeepNeither, KeepFalse, KeepTrue, Merge
  <2>2. frames # <<>> /\ Top.kind = "forked"
    BY <2>1 DEF FalseSideDone, InStage
  <2> QED BY <1>1, <2>1, <2>2, PopBalanced DEF FalseSideDone
<1> QED BY <1>2, <1>2a, <1>3, <1>4, <1>5, <1>6, <1>7, <1>8, <1>9 DEF Next

\* What the open activations pushed is on the stacks, in their order.
THEOREM StackInvariant == Spec => [](OwnerInv /\ StackInv)
BY OwnerInit, OwnerStep, StackInit, StackStep, PTL DEF Spec

\* The path conditions are those of the open activations, on the sides they
\* are on; memories_stack has the copies for their other sides and
\* stackframe_depth counts the forks, so it is 20 again at the end.
THEOREM StacksBalancedAlways == Spec => []StacksBalanced
<1>1. StackInv => StacksBalanced
  BY DEF StackInv
<1> QED BY <1>1, StackInvariant, PTL
-----------------------------------------------------------------------------
(***************************************************************************)
(* The answers of the solver.                                              *)
(***************************************************************************)
LEMMA ForcedSide ==
  ASSUME NEW c, NEW side \in BOOLEAN, Decided(c, side)
  PROVE  Path \cap LitIs(c, ~side) = {}
<1>1. 1 \in is_node_constant(c, side)
  <2>1. CASE side = TRUE
    BY <2>1 DEF Decided
  <2>2. CASE side = FALSE
    BY <2>2 DEF Decided
  <2> QED BY <2>1, <2>2
<1>2. 1 \in CondCheckUnsat(Path \cap LitIs(c, ~side), SatLimited)
  BY <1>1 DEF is_node_constant
<1> QED BY <1>2 DEF CondCheckUnsat

LEMMA UndecidedSide ==
  ASSUME NEW c, NEW side \in BOOLEAN, ~SatLimited, 0 \in is_node_constant(c, ~side)
  PROVE  Path \cap LitIs(c, side) # {}
<1>1. PICK r \in CondCheckUnsat(Path \cap LitIs(c, ~(~side)), SatLimited) : r # 1
  BY DEF is_node_constant
<1>2. ~(~side) = side
  OBVIOUS
<1> QED BY <1>1, <1>2 DEF CondCheckUnsat

LEMMA LimitedOrEmpty ==
  ASSUME NEW P, ~SatLimited, CondCheckUnsat(P, SatLimited) \cap {1, -1} # {}
  PROVE  P = {}
BY DEF CondCheckUnsat

LEMMA Sides ==
  ASSUME NEW P, P \subseteq Valuation, NEW c \in Literal
  PROVE  /\ P = (P \cap LitIs(c, TRUE)) \cup (P \cap LitIs(c, FALSE))
         /\ LitIs(c, TRUE) = c
BY DEF LitIs, LitNot, Literal

LEMMA OtherSideEmpty ==
  ASSUME NEW P, P \subseteq Valuation, NEW c \in Literal, NEW side \in BOOLEAN,
         P \cap LitIs(c, ~side) = {}
  PROVE  P \cap LitIs(c, side) = P
<1>1. CASE side = TRUE
  BY <1>1 DEF LitIs, LitNot, Literal
<1>2. CASE side = FALSE
  BY <1>2 DEF LitIs, LitNot, Literal
<1> QED BY <1>1, <1>2

(***************************************************************************)
(* The paths of the open activations.                                      *)
(***************************************************************************)
LEMMA PathOfTop ==
  ASSUME TypeOK, StackInv
  PROVE  /\ Path = PathBefore(Len(frames) + 1)
         /\ frames # <<>> =>
              Path = IF Top.kind = "direct" THEN PathBefore(Len(frames))
                     ELSE PathBefore(Len(frames)) \cap LitIs(Top.cond, Top.side)
<1>1. PICK n \in Nat : n = Len(frames)
  BY HeadTypes
<1>2. CondHead(n + 1) = Len(conditions_stack)
  BY <1>1 DEF CondHead
<1>3. Path = PathBefore(n + 1)
  BY <1>2 DEF Path, PathBefore
<1>4. ASSUME frames # <<>>
      PROVE  Path = IF Top.kind = "direct" THEN PathBefore(n)
                    ELSE PathBefore(n) \cap LitIs(Top.cond, Top.side)
  <2>1. n \in 1 .. n /\ Top = frames[n] /\ CondHead(n) \in Nat /\ Top.c_head = CondHead(n)
    BY <1>1, <1>4, TopFrame, HeadTypes, PushedBelow
  <2>2. CASE Top.kind = "direct"
    <3>1. CondHead(n) = Len(conditions_stack)
      BY <1>1, <1>2, <2>1, <2>2 DEF StackInv, StacksBalanced
    <3> QED BY <2>2, <3>1 DEF Path, PathBefore
  <2>3. CASE Top.kind # "direct"
    <3>1. Len(conditions_stack) = CondHead(n) + 1
      BY <1>1, <1>2, <2>1, <2>3, PushedBelow
    <3>2. conditions_stack[CondHead(n) + 1] = LitIs(Top.cond, Top.side)
      BY <1>1, <2>1, <2>3 DEF StackInv, StacksBalanced
    <3>3. \A i \in 1 .. Len(conditions_stack) : i \in 1 .. CondHead(n) \/ i = CondHead(n) + 1
      BY <2>1, <3>1
    <3>4. /\ CondHead(n) + 1 \in 1 .. Len(conditions_stack)
          /\ \A i \in 1 .. CondHead(n) : i \in 1 .. Len(conditions_stack)
      BY <2>1, <3>1
    <3>5. \A v \in Valuation : v \in Path <=>
            v \in PathBefore(n) /\ v \in LitIs(Top.cond, Top.side)
      BY <3>2, <3>3, <3>4 DEF Path, PathBefore
    <3> QED BY <2>3, <3>5 DEF Path, PathBefore
  <2> QED BY <2>2, <2>3
<1> QED BY <1>1, <1>3, <1>4

LEMMA PathKept ==
  ASSUME TypeOK, StackInv, NEW k, CondHead(k)' = CondHead(k),
         \A i \in 1 .. CondHead(k) : conditions_stack'[i] = conditions_stack[i]
  PROVE  PathBefore(k)' = PathBefore(k)
BY DEF PathBefore

\* Activations that are open before and after a step, and what was pushed
\* before them.
LEMMA PathsBelow ==
  ASSUME TypeOK, StackInv, TypeOK', StackInv', NEW m \in Nat,
         m <= Len(frames), m <= Len(frames'),
         \A k \in 1 .. m : frames'[k].c_head = frames[k].c_head,
         \A k \in 1 .. m : \A i \in 1 .. CondHead(k) :
           conditions_stack'[i] = conditions_stack[i]
  PROVE  \A k \in 1 .. m : PathBefore(k)' = PathBefore(k)
<1> SUFFICES ASSUME NEW k \in 1 .. m
             PROVE  PathBefore(k)' = PathBefore(k)
  OBVIOUS
<1>1. Len(frames) \in Nat /\ Len(frames') \in Nat
  BY LenProperties DEF TypeOK
<1>2. ~(k > Len(frames)) /\ ~(k > Len(frames'))
  BY <1>1
<1>3. CondHead(k)' = CondHead(k)
  BY <1>2 DEF CondHead
<1> QED BY <1>3, PathKept

LEMMA HeadsBelow ==
  ASSUME TypeOK, StackInv, frames # <<>>
  PROVE  /\ CondHead(Len(frames)) = Top.c_head /\ Top.c_head \in Nat
         /\ \A k \in 1 .. Len(frames) :
              CondHead(k) \in Nat /\ CondHead(k) <= Top.c_head
<1>1. PICK n \in Nat : n = Len(frames) /\ n # 0 /\ n \in 1 .. n /\ Top = frames[n]
  BY TopFrame
<1>2. CondHead(n) = Top.c_head
  BY <1>1, PushedBelow
<1>3. ASSUME NEW k \in 1 .. n
      PROVE  CondHead(k) \in Nat /\ CondHead(k) <= CondHead(n)
  <2>1. k \in 1 .. n + 1 /\ n \in 1 .. n + 1 /\ k <= n
    BY <1>1
  <2>2. CondHead(k) \in Nat
    BY <1>1, <2>1, HeadTypes
  <2>3. CondHead(k) <= CondHead(n)
    BY <1>1, <2>1 DEF StackInv, HeadsOrdered
  <2> QED BY <2>2, <2>3
<1> QED BY <1>1, <1>2, <1>3

LEMMA PushPaths ==
  ASSUME TypeOK, StackInv, TypeOK', StackInv', NEW f \in Frame,
         f.c_head = Len(conditions_stack),
         frames' = Append(frames, f),
         conditions_stack' = IF f.kind = "direct" THEN conditions_stack
                             ELSE Append(conditions_stack, LitIs(f.cond, f.side))
  PROVE  /\ Len(frames') = Len(frames) + 1
         /\ \A k \in 1 .. Len(frames) :
              frames'[k] = frames[k] /\ PathBefore(k)' = PathBefore(k)
         /\ \A k : k = Len(frames) + 1 => frames'[k] = f /\ PathBefore(k)' = Path
         /\ Path' = IF f.kind = "direct" THEN Path ELSE Path \cap LitIs(f.cond, f.side)
<1>1. PICK n \in Nat, C \in Nat : n = Len(frames) /\ C = Len(conditions_stack)
  BY HeadTypes
<1>2. /\ Len(frames') = n + 1
      /\ \A k \in 1 .. n : frames'[k] = frames[k]
      /\ frames'[n + 1] = f
  BY <1>1, AppendProperties DEF TypeOK
<1>3. LitIs(f.cond, f.side) \in Literal
  BY LitIsType DEF Frame
<1>4. /\ \A i \in 1 .. C : conditions_stack'[i] = conditions_stack[i]
      /\ f.kind = "direct" => Len(conditions_stack') = C
      /\ f.kind # "direct" => /\ Len(conditions_stack') = C + 1
                              /\ conditions_stack'[C + 1] = LitIs(f.cond, f.side)
  <2>1. CASE f.kind = "direct"
    BY <1>1, <2>1
  <2>2. CASE f.kind # "direct"
    <3>1. PICK l \in Literal : l = LitIs(f.cond, f.side)
      BY <1>3
    <3>2. conditions_stack' = Append(conditions_stack, l)
      BY <2>2, <3>1
    <3> QED BY <1>1, <2>2, <3>1, <3>2, AppendProperties DEF TypeOK
  <2> QED BY <2>1, <2>2
<1>5. \A k \in 1 .. n : PathBefore(k)' = PathBefore(k)
  <2>1. \A k \in 1 .. n : frames'[k].c_head = frames[k].c_head
    BY <1>2
  <2>2. ASSUME NEW k \in 1 .. n, NEW i \in 1 .. CondHead(k)
        PROVE  conditions_stack'[i] = conditions_stack[i]
    <3>1. CondHead(k) \in Nat /\ CondHead(k + 1) \in Nat
      BY <1>1, HeadTypes
    <3>2. CondHead(k) <= CondHead(k + 1) /\ CondHead(k + 1) <= C
      BY <1>1, PushedBelow
    <3> QED BY <1>1, <1>4, <3>1, <3>2
  <2>3. n <= Len(frames) /\ n <= Len(frames')
    BY <1>1, <1>2
  <2> QED BY <2>1, <2>2, <2>3, PathsBelow
<1>6. PathBefore(n + 1)' = Path
  <2>1. CondHead(n + 1)' = C
    BY <1>1, <1>2 DEF CondHead
  <2> QED BY <1>1, <1>4, <2>1 DEF Path, PathBefore
<1>7. Path' = IF f.kind = "direct" THEN Path ELSE Path \cap LitIs(f.cond, f.side)
  <2>1. CASE f.kind = "direct"
    BY <1>1, <2>1 DEF Path
  <2>2. CASE f.kind # "direct"
    <3>1. /\ \A i \in 1 .. C + 1 : i \in 1 .. C \/ i = C + 1
          /\ C + 1 \in 1 .. C + 1 /\ \A i \in 1 .. C : i \in 1 .. C + 1
      BY <1>1
    <3>2. \A v \in Valuation : v \in Path' <=> v \in Path /\ v \in LitIs(f.cond, f.side)
      BY <1>1, <1>4, <2>2, <3>1 DEF Path
    <3> QED BY <2>2, <3>2 DEF Path
  <2> QED BY <2>1, <2>2
<1> QED BY <1>1, <1>2, <1>5, <1>6, <1>7

LEMMA PopPaths ==
  ASSUME TypeOK, StackInv, TypeOK', StackInv', frames # <<>>, frames' = Pop(frames),
         conditions_stack' = IF Top.kind = "direct" THEN conditions_stack
                                                    ELSE Pop(conditions_stack)
  PROVE  /\ Len(frames') = Len(frames) - 1
         /\ \A k \in 1 .. Len(frames) - 1 :
              frames'[k] = frames[k] /\ PathBefore(k)' = PathBefore(k)
         /\ Path' = PathBefore(Len(frames))
<1>1. PICK n \in Nat, C \in Nat :
           n = Len(frames) /\ n # 0 /\ n \in 1 .. n /\ C = Top.c_head /\ Top = frames[n]
  BY TopFrame, HeadsBelow
<1>2. Len(frames') = n - 1 /\ \A k \in 1 .. n - 1 : frames'[k] = frames[k]
  BY <1>1, PopFrames
<1>3. CondHead(n) = C /\ \A k \in 1 .. n : CondHead(k) \in Nat /\ CondHead(k) <= C
  BY <1>1, HeadsBelow
<1>4. /\ Len(conditions_stack') = C
      /\ \A i \in 1 .. C : conditions_stack'[i] = conditions_stack[i]
  <2>1. CondHead(n + 1) = Len(conditions_stack)
    BY <1>1 DEF CondHead
  <2>2. Len(conditions_stack) = C + (IF Top.kind = "direct" THEN 0 ELSE 1)
    BY <1>1, <1>3, <2>1 DEF StackInv, StacksBalanced
  <2>3. CASE Top.kind = "direct"
    BY <1>1, <2>2, <2>3
  <2>4. CASE Top.kind # "direct"
    <3>1. conditions_stack \in Seq(Literal) /\ conditions_stack # <<>>
      BY <1>1, <2>2, <2>4 DEF TypeOK
    <3>2. C = Len(conditions_stack) - 1 /\ conditions_stack' = Pop(conditions_stack)
      BY <1>1, <2>2, <2>4
    <3> QED BY <3>1, <3>2, PopProperties
  <2> QED BY <2>3, <2>4
<1>5. \A k \in 1 .. n - 1 : PathBefore(k)' = PathBefore(k)
  <2>1. \A k \in 1 .. n - 1 : frames'[k].c_head = frames[k].c_head
    BY <1>2
  <2>2. ASSUME NEW k \in 1 .. n - 1, NEW i \in 1 .. CondHead(k)
        PROVE  conditions_stack'[i] = conditions_stack[i]
    BY <1>1, <1>3, <1>4
  <2>3. n - 1 \in Nat /\ n - 1 <= Len(frames) /\ n - 1 <= Len(frames')
    BY <1>1, <1>2
  <2> QED BY <2>1, <2>2, <2>3, PathsBelow
<1>6. Path' = PathBefore(n)
  BY <1>3, <1>4 DEF Path, PathBefore
<1> QED BY <1>1, <1>2, <1>5, <1>6

LEMMA TurnPaths ==
  ASSUME TypeOK, StackInv, TypeOK', StackInv', frames # <<>>, NEW f \in Frame,
         frames' = [frames EXCEPT ![Len(frames)] = f],
         f.c_head = Top.c_head,
         \A i \in 1 .. Top.c_head : conditions_stack'[i] = conditions_stack[i]
  PROVE  /\ Len(frames') = Len(frames) /\ frames'[Len(frames)] = f
         /\ \A k \in 1 .. Len(frames) : k # Len(frames) => frames'[k] = frames[k]
         /\ \A k \in 1 .. Len(frames) : PathBefore(k)' = PathBefore(k)
<1>1. PICK n \in Nat, C \in Nat :
           n = Len(frames) /\ n # 0 /\ n \in 1 .. n /\ C = Top.c_head /\ Top = frames[n]
  BY TopFrame, HeadsBelow
<1>2. /\ Len(frames') = n /\ frames'[n] = f
      /\ \A k \in 1 .. n : k # n => frames'[k] = frames[k]
  BY <1>1, ChangeTop
<1>3. \A k \in 1 .. n : CondHead(k) \in Nat /\ CondHead(k) <= C
  BY <1>1, HeadsBelow
<1>4. \A k \in 1 .. n : frames'[k].c_head = frames[k].c_head
  BY <1>1, <1>2
<1>5. ASSUME NEW k \in 1 .. n, NEW i \in 1 .. CondHead(k)
      PROVE  conditions_stack'[i] = conditions_stack[i]
  BY <1>1, <1>3
<1> QED BY <1>1, <1>2, <1>4, <1>5, PathsBelow

\* The condition of the true side is replaced by that of the false side.
LEMMA TurnConditions ==
  ASSUME TypeOK, StackInv, frames # <<>>, Top.kind # "direct", Top.cond \in Literal,
         conditions_stack' = Append(Pop(conditions_stack), LitIs(Top.cond, FALSE))
  PROVE  /\ \A i \in 1 .. Top.c_head : conditions_stack'[i] = conditions_stack[i]
         /\ Path' = PathBefore(Len(frames)) \cap LitIs(Top.cond, FALSE)
<1>1. PICK C \in Nat : C = Top.c_head /\ Len(conditions_stack) = C + 1
                       /\ CondHead(Len(frames)) = C
  <2>1. Len(frames) \in Nat /\ CondHead(Len(frames) + 1) = Len(conditions_stack)
    BY HeadTypes DEF CondHead
  <2>2. CondHead(Len(frames) + 1) = Top.c_head + 1
    BY TopFrame, PushedBelow
  <2>3. CondHead(Len(frames)) = Top.c_head /\ Top.c_head \in Nat
    BY HeadsBelow
  <2> QED BY <2>1, <2>2, <2>3
<1>2. conditions_stack \in Seq(Literal) /\ conditions_stack # <<>>
  BY <1>1 DEF TypeOK
<1>3. PICK s \in Seq(Literal), l \in Literal :
         s = Pop(conditions_stack) /\ l = LitIs(Top.cond, FALSE)
  BY <1>2, PopType, LitIsType
<1>4. Len(s) = C /\ \A i \in 1 .. C : s[i] = conditions_stack[i]
  <2>1. C = Len(conditions_stack) - 1
    BY <1>1
  <2>2. /\ Len(Pop(conditions_stack)) = Len(conditions_stack) - 1
        /\ \A i \in 1 .. Len(conditions_stack) - 1 :
             Pop(conditions_stack)[i] = conditions_stack[i]
    BY <1>2, PopProperties
  <2> QED BY <1>3, <2>1, <2>2
<1>5. /\ Len(conditions_stack') = C + 1
      /\ \A i \in 1 .. C : conditions_stack'[i] = conditions_stack[i]
      /\ conditions_stack'[C + 1] = LitIs(Top.cond, FALSE)
  <2>1. conditions_stack' = Append(s, l)
    BY <1>3
  <2>2. /\ Len(Append(s, l)) = Len(s) + 1
        /\ \A i \in 1 .. Len(s) : Append(s, l)[i] = s[i]
        /\ Append(s, l)[Len(s) + 1] = l
    BY AppendProperties
  <2> QED BY <1>3, <1>4, <2>1, <2>2
<1>6. /\ \A i \in 1 .. C + 1 : i \in 1 .. C \/ i = C + 1
      /\ C + 1 \in 1 .. C + 1 /\ \A i \in 1 .. C : i \in 1 .. C + 1
  BY <1>1
<1>7. \A v \in Valuation :
        v \in Path' <=> v \in PathBefore(Len(frames)) /\ v \in LitIs(Top.cond, FALSE)
  BY <1>1, <1>5, <1>6 DEF Path, PathBefore
<1> QED BY <1>1, <1>5, <1>7 DEF Path, PathBefore
-----------------------------------------------------------------------------
(***************************************************************************)
(* ErrorsOnlyWhereLost is inductive together with what BranchPruned knows  *)
(* when it starts an activation: no valuation is on the side it skips, so  *)
(* when that activation ends the path is the one it ran.                   *)
(***************************************************************************)
FrameErrors(P, f, given_up) ==
  /\ f.kind = "forked" /\ ~f.side /\ f.t_error = 1 => P \cap f.cond \subseteq given_up
  /\ f.kind = "pruned" => P \cap LitIs(f.cond, ~f.side) = {}

PathInv ==
  /\ branch_error = 1 => Path \subseteq lost
  /\ \A k \in 1 .. Len(frames) : FrameErrors(PathBefore(k), frames[k], lost)

\* The same for NothingLost: a fork is started only when both sides are
\* possible, and no error is set on either.
FrameFeasible(P, f) ==
  f.kind = "forked" => f.t_error = 0 /\ \A side \in BOOLEAN : P \cap LitIs(f.cond, side) # {}

FeasibleInv ==
  ~SatLimited =>
    /\ lost = {} /\ branch_error = 0 /\ Path # {}
    /\ \A k \in 1 .. Len(frames) : FrameFeasible(PathBefore(k), frames[k])

PathAssumptions == TypeOK /\ StackInv /\ PathInv /\ FeasibleInv

\* A step that leaves the path and the activations alone.
LEMMA IdlePaths ==
  ASSUME PathAssumptions, UNCHANGED <<frames, conditions_stack>>,
         lost \subseteq lost', branch_error' = 1 => Path \subseteq lost',
         ~SatLimited => lost' = {} /\ branch_error' = 0
  PROVE  PathInv' /\ FeasibleInv'
<1>1. Path' = Path /\ \A k : PathBefore(k)' = PathBefore(k)
  BY DEF Path, PathBefore, CondHead
<1>2. PathInv'
  BY <1>1 DEF PathAssumptions, PathInv, FrameErrors
<1>3. FeasibleInv'
  BY <1>1 DEF PathAssumptions, FeasibleInv
<1> QED BY <1>2, <1>3

LEMMA PushPathInv ==
  ASSUME PathAssumptions, TypeOK', StackInv', NEW f \in Frame,
         f.c_head = Len(conditions_stack),
         frames' = Append(frames, f),
         conditions_stack' = IF f.kind = "direct" THEN conditions_stack
                             ELSE Append(conditions_stack, LitIs(f.cond, f.side)),
         FrameErrors(Path, f, lost),
         ~SatLimited => FrameFeasible(Path, f),
         ~SatLimited /\ f.kind # "direct" => Path \cap LitIs(f.cond, f.side) # {},
         branch_error = 0, UNCHANGED <<lost, branch_error>>
  PROVE  PathInv' /\ FeasibleInv'
<1>1. TypeOK /\ StackInv /\ PathInv /\ FeasibleInv
  BY DEF PathAssumptions
<1>2. PICK n \in Nat : n = Len(frames)
  BY <1>1, HeadTypes
<1>3. /\ Len(frames') = n + 1
      /\ \A k \in 1 .. n : frames'[k] = frames[k] /\ PathBefore(k)' = PathBefore(k)
      /\ frames'[n + 1] = f /\ PathBefore(n + 1)' = Path
      /\ Path' = IF f.kind = "direct" THEN Path ELSE Path \cap LitIs(f.cond, f.side)
  BY <1>1, <1>2, PushPaths
<1>4. \A k \in 1 .. n + 1 : k \in 1 .. n \/ k = n + 1
  BY <1>2
<1>5. PathInv'
  <2>1. \A k \in 1 .. n : FrameErrors(PathBefore(k)', frames'[k], lost')
    BY <1>1, <1>2, <1>3 DEF PathInv
  <2>2. FrameErrors(PathBefore(n + 1)', frames'[n + 1], lost')
    BY <1>3
  <2>3. \A k \in 1 .. n + 1 : FrameErrors(PathBefore(k)', frames'[k], lost')
    BY <1>4, <2>1, <2>2
  <2> QED BY <1>3, <2>3 DEF PathInv
<1>6. FeasibleInv'
  <2> SUFFICES ASSUME ~SatLimited
               PROVE  /\ lost' = {} /\ branch_error' = 0 /\ Path' # {}
                      /\ \A k \in 1 .. n + 1 : FrameFeasible(PathBefore(k)', frames'[k])
    BY <1>3 DEF FeasibleInv
  <2>1. lost' = {} /\ branch_error' = 0 /\ Path' # {}
    BY <1>1, <1>3 DEF FeasibleInv
  <2>2. \A k \in 1 .. n : FrameFeasible(PathBefore(k)', frames'[k])
    BY <1>1, <1>2, <1>3 DEF FeasibleInv
  <2>3. FrameFeasible(PathBefore(n + 1)', frames'[n + 1])
    BY <1>3
  <2> QED BY <1>4, <2>1, <2>2, <2>3
<1> QED BY <1>5, <1>6

LEMMA PopPathInv ==
  ASSUME PathAssumptions, TypeOK', StackInv', frames # <<>>, frames' = Pop(frames),
         conditions_stack' = IF Top.kind = "direct" THEN conditions_stack
                                                    ELSE Pop(conditions_stack),
         branch_error' = 1 => PathBefore(Len(frames)) \subseteq lost,
         ~SatLimited => branch_error' = 0, UNCHANGED lost
  PROVE  PathInv' /\ FeasibleInv'
<1>1. TypeOK /\ StackInv /\ PathInv /\ FeasibleInv
  BY DEF PathAssumptions
<1>2. PICK n \in Nat : n = Len(frames) /\ n # 0
  BY <1>1, TopFrame
<1>3. /\ Len(frames') = n - 1
      /\ \A k \in 1 .. n - 1 : frames'[k] = frames[k] /\ PathBefore(k)' = PathBefore(k)
      /\ Path' = PathBefore(n)
  BY <1>1, <1>2, PopPaths
<1>4. \A k \in 1 .. n - 1 : k \in 1 .. Len(frames)
  BY <1>2
<1>5. PathInv'
  <2>1. \A k \in 1 .. n - 1 : FrameErrors(PathBefore(k)', frames'[k], lost')
    BY <1>1, <1>3, <1>4 DEF PathInv
  <2> QED BY <1>2, <1>3, <2>1 DEF PathInv
<1>6. FeasibleInv'
  <2> SUFFICES ASSUME ~SatLimited
               PROVE  /\ lost' = {} /\ branch_error' = 0 /\ Path' # {}
                      /\ \A k \in 1 .. n - 1 : FrameFeasible(PathBefore(k)', frames'[k])
    BY <1>3 DEF FeasibleInv
  <2>1. Path # {} /\ Path \subseteq PathBefore(n)
    BY <1>1, <1>2, PathOfTop DEF FeasibleInv
  <2>2. \A k \in 1 .. n - 1 : FrameFeasible(PathBefore(k)', frames'[k])
    BY <1>1, <1>3, <1>4 DEF FeasibleInv
  <2> QED BY <1>1, <1>3, <2>1, <2>2 DEF FeasibleInv
<1> QED BY <1>5, <1>6

\* A callback returns to an activation that stays open.
LEMMA TurnPathInv ==
  ASSUME PathAssumptions, TypeOK', StackInv', frames # <<>>, NEW f \in Frame,
         frames' = [frames EXCEPT ![Len(frames)] = f],
         f.c_head = Top.c_head,
         \A i \in 1 .. Top.c_head : conditions_stack'[i] = conditions_stack[i],
         FrameErrors(PathBefore(Len(frames)), f, lost),
         ~SatLimited => FrameFeasible(PathBefore(Len(frames)), f),
         branch_error' = 1 => Path' \subseteq lost,
         ~SatLimited => branch_error' = 0 /\ Path' # {},
         UNCHANGED lost
  PROVE  PathInv' /\ FeasibleInv'
<1>1. TypeOK /\ StackInv /\ PathInv /\ FeasibleInv
  BY DEF PathAssumptions
<1>2. PICK n \in Nat : n = Len(frames) /\ n # 0
  BY <1>1, TopFrame
<1>3. /\ Len(frames') = n /\ frames'[n] = f
      /\ \A k \in 1 .. n : k # n => frames'[k] = frames[k]
      /\ \A k \in 1 .. n : PathBefore(k)' = PathBefore(k)
  BY <1>1, <1>2, TurnPaths
<1>4. PathInv'
  <2>1. ASSUME NEW k \in 1 .. n
        PROVE  FrameErrors(PathBefore(k)', frames'[k], lost')
    <3>1. CASE k = n
      BY <1>2, <1>3, <3>1
    <3>2. CASE k # n
      BY <1>1, <1>2, <1>3, <3>2 DEF PathInv
    <3> QED BY <3>1, <3>2
  <2> QED BY <1>3, <2>1 DEF PathInv
<1>5. FeasibleInv'
  <2> SUFFICES ASSUME ~SatLimited
               PROVE  /\ lost' = {} /\ branch_error' = 0 /\ Path' # {}
                      /\ \A k \in 1 .. n : FrameFeasible(PathBefore(k)', frames'[k])
    BY <1>3 DEF FeasibleInv
  <2>1. ASSUME NEW k \in 1 .. n
        PROVE  FrameFeasible(PathBefore(k)', frames'[k])
    <3>1. CASE k = n
      BY <1>2, <1>3, <3>1
    <3>2. CASE k # n
      BY <1>1, <1>2, <1>3, <3>2 DEF FeasibleInv
    <3> QED BY <3>1, <3>2
  <2> QED BY <1>1, <2>1 DEF FeasibleInv
<1> QED BY <1>4, <1>5

LEMMA PathInit == Init => PathInv /\ FeasibleInv
<1> SUFFICES ASSUME Init
             PROVE  PathInv /\ FeasibleInv
  OBVIOUS
<1>1. /\ Len(frames) = 0 /\ Len(conditions_stack) = 0 /\ branch_error = 0 /\ lost = {}
  BY DEF Init
<1>2. Path = Valuation
  BY <1>1 DEF Path
<1>3. PathInv
  BY <1>1 DEF PathInv
<1>4. FeasibleInv
  BY <1>1, <1>2, BranchAssumption DEF FeasibleInv
<1> QED BY <1>3, <1>4

LEMMA PathStep ==
  OwnerInv /\ OwnerInv' /\ StackInv /\ StackInv' /\ PathInv /\ FeasibleInv
    /\ [Next]_vars => PathInv' /\ FeasibleInv'
<1> SUFFICES ASSUME OwnerInv, OwnerInv', StackInv, StackInv', PathInv, FeasibleInv,
                    [Next]_vars
             PROVE  PathInv' /\ FeasibleInv'
  OBVIOUS
<1>1. TypeOK /\ TypeOK' /\ PathAssumptions
  BY DEF OwnerInv, PathAssumptions
<1>2. /\ Path \subseteq Valuation /\ lost \subseteq Valuation
      /\ ~SatLimited => lost = {} /\ branch_error = 0 /\ Path # {}
  BY <1>1 DEF TypeOK, Literal, Path, FeasibleInv
\* Steps that set no error.
<1>3. ASSUME UNCHANGED <<frames, conditions_stack, lost, branch_error>>
      PROVE  PathInv' /\ FeasibleInv'
  <2>1. branch_error' = 1 => Path \subseteq lost'
    BY <1>3 DEF PathInv
  <2> QED BY <1>1, <1>2, <1>3, <2>1, IdlePaths
\* Steps that give the path up.
<1>4. ASSUME NEW P, P \subseteq Path,
             CondCheckUnsat(P, SatLimited) \cap {1, -1} # {}, ~SatLimited => P = Path,
             UNCHANGED <<frames, conditions_stack>>, lost' = lost \cup Path
      PROVE  PathInv' /\ FeasibleInv'
  <2>1. SatLimited
    BY <1>2, <1>4, LimitedOrEmpty
  <2> QED BY <1>1, <1>4, <2>1, IdlePaths
<1>5. CASE \E st \in Stores : Store(st) \/ StoreOutside(st)
  BY <1>3, <1>5 DEF Store, StoreOutside
<1>5a. CASE \E mv \in Moves : Move(mv) \/ MoveOutside(mv)
  BY <1>3, <1>5a DEF Move, MoveOutside
<1>6. CASE \E n \in Pops : \/ \E size \in MallocSizes : Malloc(size, n)
                           \/ LibraryCall(n) \/ AssertFails(n)
  BY <1>3, <1>6 DEF Malloc, LibraryCall, AssertFails
<1>7. CASE \E n \in Pops : AssertUnreachable(n)
  BY <1>4, <1>7 DEF AssertUnreachable
<1>8. CASE BranchSkipped \/ UNCHANGED vars
  BY <1>3, <1>8 DEF BranchSkipped, vars
<1>9. ASSUME NEW c \in Condition
      PROVE  /\ BranchConstant(c) => PathInv' /\ FeasibleInv'
             /\ BranchForked(c) => PathInv' /\ FeasibleInv'
             /\ \A side \in BOOLEAN :
                  BranchPruned(c, side) \/ BranchInfeasible(c, side) => PathInv' /\ FeasibleInv'
  <2>1. c \in Literal
    BY BranchAssumption
  <2>2. ASSUME BranchConstant(c)
        PROVE  PathInv' /\ FeasibleInv'
    <3> DEFINE f == NewFrame("direct", c, c = Const1)
    <3>1. f \in Frame
      BY <1>1, <2>1, NewFrameType
    <3>2. f.c_head = Len(conditions_stack) /\ f.kind = "direct"
      BY DEF NewFrame
    <3>3. /\ frames' = Append(frames, f) /\ branch_error = 0
          /\ UNCHANGED <<conditions_stack, lost, branch_error>>
      BY <2>2 DEF BranchConstant
    <3> HIDE DEF f
    <3>4. FrameErrors(Path, f, lost) /\ FrameFeasible(Path, f)
      BY <3>2 DEF FrameErrors, FrameFeasible
    <3> QED BY <1>1, <3>1, <3>2, <3>3, <3>4, PushPathInv
  <2>3. ASSUME NEW side \in BOOLEAN, BranchPruned(c, side)
        PROVE  PathInv' /\ FeasibleInv'
    <3> DEFINE f == NewFrame("pruned", c, side)
    <3>1. f \in Frame
      BY <1>1, <2>1, NewFrameType
    <3>2. /\ f.c_head = Len(conditions_stack)
          /\ f.kind = "pruned" /\ f.cond = c /\ f.side = side
      BY DEF NewFrame
    <3>3. /\ frames' = Append(frames, f)
          /\ conditions_stack' = Append(conditions_stack, LitIs(c, side))
          /\ branch_error = 0 /\ Decided(c, side)
          /\ UNCHANGED <<lost, branch_error>>
      BY <2>3 DEF BranchPruned
    <3> HIDE DEF f
    <3>4. Path \cap LitIs(c, ~side) = {}
      BY <3>3, ForcedSide, Zenon
    <3>5. Path \cap LitIs(c, side) = Path
      BY <1>2, <2>1, <3>4, OtherSideEmpty, Zenon
    <3>6. FrameErrors(Path, f, lost) /\ FrameFeasible(Path, f)
      BY <3>2, <3>4 DEF FrameErrors, FrameFeasible
    <3> QED BY <1>1, <1>2, <3>1, <3>2, <3>3, <3>5, <3>6, PushPathInv
  <2>4. ASSUME NEW side \in BOOLEAN, BranchInfeasible(c, side)
        PROVE  PathInv' /\ FeasibleInv'
    <3> DEFINE P == Path \cap LitIs(c, side)
    <3>1. P = Path
      <4>1. Path \cap LitIs(c, ~side) = {}
        BY <2>4, ForcedSide, Zenon DEF BranchInfeasible
      <4> QED BY <1>2, <2>1, <4>1, OtherSideEmpty, Zenon
    <3>2. CondCheckUnsat(P, SatLimited) \cap {1, -1} # {}
      BY <2>4 DEF BranchInfeasible
    <3> HIDE DEF P
    <3> QED BY <1>4, <2>4, <3>1, <3>2 DEF BranchInfeasible
  <2>5. ASSUME BranchForked(c)
        PROVE  PathInv' /\ FeasibleInv'
    <3>1. PICK t \in Handle \ Live, g \in Handle \ Live :
             frames' = Append(frames, [NewFrame("forked", c, TRUE) EXCEPT
                                         !.orig = memory, !.copy_t = t, !.copy_f = g])
      BY <2>5 DEF BranchForked
    <3> DEFINE f == [NewFrame("forked", c, TRUE) EXCEPT
                       !.orig = memory, !.copy_t = t, !.copy_f = g]
    <3>2. f \in Frame
      <4>1. NewFrame("forked", c, TRUE) \in Frame /\ memory \in Handle
        BY <1>1, <2>1, NewFrameType DEF TypeOK
      <4> QED BY <4>1 DEF Frame
    <3>3. /\ f.c_head = Len(conditions_stack)
          /\ f.kind = "forked" /\ f.cond = c /\ f.side = TRUE /\ f.t_error = 0
      BY DEF NewFrame
    <3>4. /\ frames' = Append(frames, f)
          /\ conditions_stack' = Append(conditions_stack, LitIs(c, TRUE))
          /\ branch_error = 0 /\ UNCHANGED <<lost, branch_error>>
      BY <2>5, <3>1 DEF BranchForked
    <3> HIDE DEF f
    <3>5. ~SatLimited => \A side \in BOOLEAN : Path \cap LitIs(c, side) # {}
      <4>1. 0 \in is_node_constant(c, FALSE) /\ 0 \in is_node_constant(c, TRUE)
        BY <2>5 DEF BranchForked
      <4>2. \A side \in BOOLEAN : 0 \in is_node_constant(c, ~side)
        BY <4>1
      <4> QED BY <4>2, UndecidedSide
    <3>6. FrameErrors(Path, f, lost) /\ (~SatLimited => FrameFeasible(Path, f))
      BY <3>3, <3>5 DEF FrameErrors, FrameFeasible
    <3> QED BY <1>1, <3>2, <3>3, <3>4, <3>5, <3>6, PushPathInv
  <2> QED BY <2>2, <2>3, <2>4, <2>5
<1>10. ASSUME frames # <<>>
       PROVE  /\ Len(frames) \in 1 .. Len(frames) /\ Top = frames[Len(frames)] /\ Top \in Frame
              /\ FrameErrors(PathBefore(Len(frames)), Top, lost)
              /\ ~SatLimited => FrameFeasible(PathBefore(Len(frames)), Top)
              /\ PathBefore(Len(frames)) \subseteq Valuation /\ Top.cond \in Literal
              /\ Path = IF Top.kind = "direct" THEN PathBefore(Len(frames))
                        ELSE PathBefore(Len(frames)) \cap LitIs(Top.cond, Top.side)
  <2>1. Len(frames) \in 1 .. Len(frames) /\ Top = frames[Len(frames)] /\ Top \in Frame
    BY <1>1, <1>10, TopFrame
  <2>2. /\ FrameErrors(PathBefore(Len(frames)), Top, lost)
        /\ ~SatLimited => FrameFeasible(PathBefore(Len(frames)), Top)
    BY <2>1 DEF PathInv, FeasibleInv
  <2>3. PathBefore(Len(frames)) \subseteq Valuation /\ Top.cond \in Literal
    BY <2>1 DEF PathBefore, Frame
  <2> QED BY <1>1, <1>10, <2>1, <2>2, <2>3, PathOfTop
<1>11. CASE BranchToCut
  <2> DEFINE f == [Top EXCEPT !.stage = "cut"]
  <2>1. frames # <<>>
    BY <1>11 DEF BranchToCut, InStage
  <2>2. /\ f \in Frame /\ f.kind = Top.kind /\ f.c_head = Top.c_head
        /\ f.cond = Top.cond /\ f.side = Top.side /\ f.t_error = Top.t_error
    BY <1>10, <2>1 DEF Frame
  <2>3. /\ frames' = [frames EXCEPT ![Len(frames)] = f]
        /\ UNCHANGED <<conditions_stack, lost, branch_error>>
    BY <1>11 DEF BranchToCut, Top
  <2> HIDE DEF f
  <2>4. /\ FrameErrors(PathBefore(Len(frames)), f, lost)
        /\ ~SatLimited => FrameFeasible(PathBefore(Len(frames)), f)
    BY <1>10, <2>1, <2>2 DEF FrameErrors, FrameFeasible
  <2>5. Path' = Path /\ (branch_error' = 1 => Path \subseteq lost)
    BY <2>3 DEF Path, PathInv
  <2> QED BY <1>1, <1>2, <2>1, <2>2, <2>3, <2>4, <2>5, TurnPathInv
<1>12. CASE SkipCut \/ ReturnAfterCut
  <2>1. frames # <<>> /\ Top.kind # "forked" /\ ReturnOneSided
    BY <1>12 DEF SkipCut, ReturnAfterCut, InStage
  <2>2. Top.kind \in {"direct", "pruned"} /\ Top.side \in BOOLEAN
    BY <1>10, <2>1 DEF Frame
  <2>3. Path = PathBefore(Len(frames))
    <3>1. CASE Top.kind = "direct"
      BY <1>10, <2>1, <3>1
    <3>2. CASE Top.kind = "pruned"
      <4> DEFINE P == PathBefore(Len(frames))
      <4>1. P \cap LitIs(Top.cond, ~Top.side) = {}
        BY <1>10, <2>1, <3>2 DEF FrameErrors
      <4>2. P \subseteq Valuation /\ Top.cond \in Literal
        BY <1>10, <2>1
      <4>3. P \cap LitIs(Top.cond, Top.side) = P
        BY <2>2, <4>1, <4>2, OtherSideEmpty, Zenon
      <4> QED BY <1>10, <2>1, <3>2, <4>3
    <3> QED BY <2>2, <3>1, <3>2
  <2>4. /\ frames' = Pop(frames)
        /\ conditions_stack' = IF Top.kind = "direct" THEN conditions_stack
                                                      ELSE Pop(conditions_stack)
        /\ UNCHANGED <<lost, branch_error>>
    BY <2>1, <2>2 DEF ReturnOneSided
  <2>5. branch_error' = 1 => PathBefore(Len(frames)) \subseteq lost
    BY <2>3, <2>4 DEF PathInv
  <2> QED BY <1>1, <1>2, <2>1, <2>4, <2>5, PopPathInv
<1>13. CASE TrueSideDone
  <2> DEFINE f == [Top EXCEPT !.side = FALSE, !.stage = "branch",
                              !.t_result = memory, !.t_heap = heap_offset,
                              !.t_error = branch_error]
             P == PathBefore(Len(frames))
  <2>1. frames # <<>> /\ Top.kind = "forked" /\ Top.side
    BY <1>13 DEF TrueSideDone, SwitchSides, InStage
  <2>2. /\ f \in Frame /\ f.kind = "forked" /\ f.c_head = Top.c_head
        /\ f.cond = Top.cond /\ f.side = FALSE /\ f.t_error = branch_error
    BY <1>1, <1>10, <2>1 DEF Frame, TypeOK
  <2>3. /\ frames' = [frames EXCEPT ![Len(frames)] = f]
        /\ conditions_stack' = Append(Pop(conditions_stack), LitIs(Top.cond, FALSE))
        /\ branch_error' = 0 /\ UNCHANGED lost
    BY <1>13 DEF TrueSideDone, SwitchSides, Top
  <2> HIDE DEF f
  <2>4. P \cap Top.cond = Path
    BY <1>10, <2>1, Sides
  <2>5. FrameErrors(P, f, lost)
    BY <2>2, <2>4 DEF FrameErrors, PathInv
  <2>6. ~SatLimited => FrameFeasible(P, f)
    BY <1>2, <1>10, <2>1, <2>2 DEF FrameFeasible
  <2>7. Path' = P \cap LitIs(Top.cond, FALSE)
    BY <1>1, <1>10, <2>1, <2>3, TurnConditions
  <2>8. ~SatLimited => branch_error' = 0 /\ Path' # {}
    BY <2>2, <2>3, <2>6, <2>7 DEF FrameFeasible
  <2>9. \A i \in 1 .. Top.c_head : conditions_stack'[i] = conditions_stack[i]
    BY <1>1, <1>10, <2>1, <2>3, TurnConditions
  <2>10. /\ f.c_head = Top.c_head /\ f \in Frame
         /\ frames' = [frames EXCEPT ![Len(frames)] = f]
         /\ branch_error' = 1 => Path' \subseteq lost
         /\ UNCHANGED lost
    BY <2>2, <2>3
  <2> QED BY <1>1, <2>1, <2>5, <2>6, <2>8, <2>9, <2>10, TurnPathInv
<1>14. CASE KeepNeither \/ KeepFalse \/ KeepTrue \/ Merge
  <2> DEFINE P == PathBefore(Len(frames))
  <2>1. FalseSideDone
    BY <1>14 DEF KeepNeither, KeepFalse, KeepTrue, Merge
  <2>2. frames # <<>> /\ Top.kind = "forked" /\ Top.side = FALSE
    BY <1>10, <2>1 DEF FalseSideDone, InStage, Frame
  <2>3. /\ frames' = Pop(frames)
        /\ conditions_stack' = Pop(conditions_stack)
        /\ UNCHANGED lost
    BY <2>1 DEF FalseSideDone
  <2>4. \/ branch_error' = 0
        \/ branch_error' = 1 /\ branch_error = 1 /\ Top.t_error = 1
    BY <1>14 DEF KeepNeither, KeepFalse, KeepTrue, Merge
  <2>5. ASSUME branch_error' = 1
        PROVE  P \subseteq lost
    <3>1. P \cap Top.cond \subseteq lost
      BY <1>10, <2>2, <2>4, <2>5 DEF FrameErrors
    <3>2. Path = P \cap LitIs(Top.cond, FALSE)
      BY <1>10, <2>2
    <3>3. Path \subseteq lost
      BY <2>4, <2>5 DEF PathInv
    <3>4. P \subseteq Valuation /\ Top.cond \in Literal
      BY <1>10, <2>2
    <3>5. P = (P \cap Top.cond) \cup (P \cap LitIs(Top.cond, FALSE))
      BY <3>4, Sides
    <3> QED BY <3>1, <3>2, <3>3, <3>5
  <2>6. ~SatLimited => branch_error' = 0
    BY <1>2, <2>4
  <2> QED BY <1>1, <2>2, <2>3, <2>5, <2>6, PopPathInv
<1> QED BY <1>5, <1>5a, <1>6, <1>7, <1>8, <1>9, <1>11, <1>12, <1>13, <1>14 DEF Next

\* The invariant behind both: along the open activations, errors are where
\* valuations were lost and, with an unlimited solver, both sides feasible.
THEOREM PathInvariant ==
  Spec => [](OwnerInv /\ StackInv /\ PathInv /\ FeasibleInv)
<1>1. Init => OwnerInv /\ StackInv /\ PathInv /\ FeasibleInv
  BY OwnerInit, StackInit, PathInit
<1>2. OwnerInv /\ StackInv /\ PathInv /\ FeasibleInv /\ [Next]_vars
        => (OwnerInv /\ StackInv /\ PathInv /\ FeasibleInv)'
  BY OwnerStep, StackStep, PathStep
<1> QED BY <1>1, <1>2, PTL DEF Spec

\* A path ends in an error only when every valuation on it was given up by
\* an undecided call of the solver: branch_error never leaks from a side or
\* an inner conditional to a path that goes on.
THEOREM ErrorsOnlyWhereLostAlways ==
  Spec => []ErrorsOnlyWhereLost
<1>1. PathInv => ErrorsOnlyWhereLost
  BY DEF PathInv, FrameErrors, ErrorsOnlyWhereLost, Forked
<1> QED BY <1>1, PathInvariant, PTL

\* Without a limit on the solver no valuation is given up, branch_error is
\* never set and some input follows the path being executed.
THEOREM NothingLostAlways ==
  Spec => []NothingLost
<1>1. FeasibleInv => NothingLost
  BY DEF FeasibleInv, NothingLost
<1> QED BY <1>1, PathInvariant, PTL
-----------------------------------------------------------------------------
(***************************************************************************)
(* conditional_branch and what a program does around it compute the        *)
(* concrete runs: ConditionalBranch implements ConcreteRuns, for every set *)
(* of inputs, every program and any depth of nesting, also when the SAT    *)
(* solver gives up.                                                        *)
(***************************************************************************)

(***************************************************************************)
(* Where the run on a valuation is kept.  The path conditions do not say   *)
(* so alone: a constant condition pushes none, and a decided one pushes    *)
(* what the path implies.                                                  *)
(***************************************************************************)
On(f, v) == v \in LitIs(f.cond, f.side)

\* Activation k is the outermost that executes the side v is not on.
Away(v, k) == k \in Forked /\ v \in PathBefore(k) /\ ~On(frames[k], v)

Constant(f) == f.kind = "direct" => f.cond = IF f.side THEN Const1 ELSE Const0

RunInv ==
  /\ \A k \in 1 .. Len(frames) : Constant(frames[k])
  /\ \A v \in Valuation : \A k \in 1 .. Len(frames) :
       v \in PathBefore(k) <=> \A j \in 1 .. k - 1 : On(frames[j], v)
  /\ \A v \in Valuation :
       v \in Path <=> \A j \in 1 .. Len(frames) : On(frames[j], v)
  /\ \A v \in Valuation : v \in Path \/ \E k \in 1 .. Len(frames) : Away(v, k)

LEMMA ConstantSide ==
  ASSUME NEW f \in Frame, Constant(f), f.kind = "direct"
  PROVE  LitIs(f.cond, f.side) = Valuation /\ LitIs(f.cond, ~f.side) = {}
<1>1. CASE f.side = TRUE
  BY <1>1 DEF Constant, LitIs, LitNot, Const1
<1>2. CASE f.side = FALSE
  BY <1>2 DEF Constant, LitIs, LitNot, Const0
<1> QED BY <1>1, <1>2 DEF Frame

LEMMA OtherSide ==
  ASSUME NEW c \in Literal, NEW side \in BOOLEAN, NEW v \in Valuation
  PROVE  v \in LitIs(c, ~side) <=> v \notin LitIs(c, side)
<1>1. CASE side = TRUE
  BY <1>1 DEF LitIs, LitNot
<1>2. CASE side = FALSE
  BY <1>2 DEF LitIs, LitNot
<1> QED BY <1>1, <1>2

\* An activation starts.
LEMMA PushRuns ==
  ASSUME TypeOK, StackInv, RunInv, TypeOK', StackInv', NEW f \in Frame,
         NEW n \in Nat, n = Len(frames), f.c_head = Len(conditions_stack),
         frames' = Append(frames, f),
         conditions_stack' = IF f.kind = "direct" THEN conditions_stack
                             ELSE Append(conditions_stack, LitIs(f.cond, f.side)),
         Constant(f),
         f.kind = "pruned" => Path \cap LitIs(f.cond, ~f.side) = {}
  PROVE  /\ RunInv'
         /\ Forked' = Forked \cup (IF f.kind = "forked" THEN {n + 1} ELSE {})
         /\ \A v \in Valuation :
              /\ v \in Path' <=> v \in Path /\ On(f, v)
              /\ \A k \in 1 .. n : Away(v, k)' <=> Away(v, k)
              /\ Away(v, n + 1)' <=> f.kind = "forked" /\ v \in Path /\ ~On(f, v)
<1>1. n \in Nat /\ n = Len(frames)
  OBVIOUS
<1>2. /\ Len(frames') = n + 1
      /\ \A k \in 1 .. n : frames'[k] = frames[k] /\ PathBefore(k)' = PathBefore(k)
      /\ frames'[n + 1] = f /\ PathBefore(n + 1)' = Path
      /\ Path' = IF f.kind = "direct" THEN Path ELSE Path \cap LitIs(f.cond, f.side)
  BY <1>1, PushPaths
<1>3. \A k : k \in 1 .. n + 1 <=> k \in 1 .. n \/ k = n + 1
  BY <1>1
<1>4. \A k \in 1 .. n : k # n + 1
  BY <1>1
<1>5. ASSUME NEW v \in Valuation
      PROVE  v \in Path' <=> v \in Path /\ On(f, v)
  BY <1>2, ConstantSide DEF On
<1>6. Forked' = Forked \cup (IF f.kind = "forked" THEN {n + 1} ELSE {})
  BY <1>1, <1>2, <1>3, <1>4 DEF Forked
<1>7. n + 1 \notin Forked
  BY <1>1, <1>4 DEF Forked
<1>8. ASSUME NEW v \in Valuation
      PROVE  /\ \A k \in 1 .. n : Away(v, k)' <=> Away(v, k)
             /\ Away(v, n + 1)' <=> f.kind = "forked" /\ v \in Path /\ ~On(f, v)
  BY <1>2, <1>4, <1>6, <1>7 DEF Away, On
<1>9. RunInv'
  <2>1. ASSUME NEW k \in 1 .. n + 1
        PROVE  Constant(frames'[k])
    BY <1>1, <1>2, <1>3 DEF RunInv
  <2>2. ASSUME NEW v \in Valuation
        PROVE  /\ v \in Path' <=> \A j \in 1 .. n + 1 : On(frames'[j], v)
               /\ v \in Path' \/ \E k \in 1 .. n + 1 : Away(v, k)'
    <3>1. v \in Path <=> \A j \in 1 .. n : On(frames'[j], v)
      BY <1>1, <1>2 DEF RunInv, On
    <3>2. v \in Path' <=> \A j \in 1 .. n + 1 : On(frames'[j], v)
      BY <1>2, <1>3, <1>5, <3>1
    <3>3. v \in Path \/ \E k \in 1 .. n : Away(v, k)
      BY <1>1 DEF RunInv
    <3>4. ASSUME v \in Path, ~On(f, v)
          PROVE  f.kind = "forked"
      <4>1. f.kind # "direct"
        BY <3>4, ConstantSide DEF On
      <4>2. f.kind # "pruned"
        BY <3>4, OtherSide DEF On, Frame
      <4> QED BY <4>1, <4>2 DEF Frame
    <3> QED BY <1>3, <1>5, <1>8, <3>2, <3>3, <3>4
  <2>3. ASSUME NEW v \in Valuation, NEW k \in 1 .. n + 1
        PROVE  v \in PathBefore(k)' <=> \A j \in 1 .. k - 1 : On(frames'[j], v)
    <3>1. CASE k \in 1 .. n
      <4>1. \A j \in 1 .. k - 1 : j \in 1 .. n
        BY <1>1, <3>1
      <4> QED BY <1>1, <1>2, <3>1, <4>1 DEF RunInv, On
    <3>2. CASE k = n + 1
      <4>1. k - 1 = n
        BY <1>1, <3>2
      <4>2. v \in Path <=> \A j \in 1 .. n : On(frames'[j], v)
        BY <1>1, <1>2 DEF RunInv, On
      <4> QED BY <1>2, <3>2, <4>1, <4>2
    <3> QED BY <1>3, <3>1, <3>2
  <2> QED BY <1>2, <2>1, <2>2, <2>3 DEF RunInv, On
<1> QED BY <1>5, <1>6, <1>8, <1>9

\* An activation returns.
LEMMA PopRuns ==
  ASSUME TypeOK, StackInv, RunInv, TypeOK', StackInv',
         NEW n \in Nat, n = Len(frames), frames # <<>>, frames' = Pop(frames),
         conditions_stack' = IF Top.kind = "direct" THEN conditions_stack
                                                    ELSE Pop(conditions_stack)
  PROVE  /\ RunInv'
         /\ Forked' = Forked \ {n}
         /\ \A k \in 1 .. n - 1 : frames'[k] = frames[k]
         /\ \A v \in Valuation :
              /\ v \in Path' <=> v \in PathBefore(n)
              /\ v \in Path <=> v \in PathBefore(n) /\ On(Top, v)
              /\ v \in PathBefore(n) => v \in Path \/ Away(v, n)
              /\ v \notin PathBefore(n) => \E k \in 1 .. n - 1 : Away(v, k)
              /\ \A k \in 1 .. n - 1 : Away(v, k)' <=> Away(v, k)
<1>1. n = Len(frames) /\ n \in 1 .. n /\ n # 0 /\ Top = frames[n]
  BY TopFrame
<1>2. /\ Len(frames') = n - 1
      /\ \A k \in 1 .. n - 1 : frames'[k] = frames[k] /\ PathBefore(k)' = PathBefore(k)
      /\ Path' = PathBefore(n)
  BY <1>1, PopPaths
<1>3. \A k : k \in 1 .. n <=> k \in 1 .. n - 1 \/ k = n
  BY <1>1
<1>4. n \notin 1 .. n - 1 /\ \A k \in 1 .. n - 1 : k # n
  BY <1>1
<1>5. Forked' = Forked \ {n}
  BY <1>1, PopFrames
<1>6. ASSUME NEW v \in Valuation
      PROVE  \A k \in 1 .. n - 1 : Away(v, k)' <=> Away(v, k)
  BY <1>2, <1>4, <1>5 DEF Away, On
<1>7. ASSUME NEW v \in Valuation
      PROVE  /\ v \in PathBefore(n) <=> \A j \in 1 .. n - 1 : On(frames[j], v)
             /\ v \in Path <=> \A j \in 1 .. n : On(frames[j], v)
             /\ v \in Path \/ \E k \in 1 .. n : Away(v, k)
  BY <1>1 DEF RunInv
<1>8. ASSUME NEW v \in Valuation
      PROVE  /\ v \in Path <=> v \in PathBefore(n) /\ On(Top, v)
             /\ v \in PathBefore(n) => v \in Path \/ Away(v, n)
             /\ v \notin PathBefore(n) => \E k \in 1 .. n - 1 : Away(v, k)
  <2>1. v \in Path <=> v \in PathBefore(n) /\ On(Top, v)
    BY <1>1, <1>3, <1>7
  <2>2. ASSUME NEW k \in 1 .. n, Away(v, k), v \in PathBefore(n)
        PROVE  k = n
    <3>1. ~On(frames[k], v)
      BY <2>2 DEF Away
    <3> QED BY <1>3, <1>7, <2>2, <3>1
  <2>3. ASSUME Away(v, n)
        PROVE  v \in PathBefore(n)
    BY <2>3 DEF Away
  <2> QED BY <1>3, <1>7, <2>1, <2>2, <2>3
<1>9. RunInv'
  <2>1. \A k \in 1 .. n - 1 : Constant(frames'[k])
    BY <1>1, <1>2, <1>3 DEF RunInv
  <2>2. ASSUME NEW v \in Valuation
        PROVE  /\ v \in Path' <=> \A j \in 1 .. n - 1 : On(frames'[j], v)
               /\ v \in Path' \/ \E k \in 1 .. n - 1 : Away(v, k)'
    <3>1. v \in Path' <=> \A j \in 1 .. n - 1 : On(frames'[j], v)
      BY <1>2, <1>7 DEF On
    <3> QED BY <1>2, <1>6, <1>8, <3>1
  <2>3. ASSUME NEW v \in Valuation, NEW k \in 1 .. n - 1
        PROVE  v \in PathBefore(k)' <=> \A j \in 1 .. k - 1 : On(frames'[j], v)
    <3>1. \A j \in 1 .. k - 1 : j \in 1 .. n - 1
      BY <1>1
    <3>2. v \in PathBefore(k) <=> \A j \in 1 .. k - 1 : On(frames[j], v)
      BY <1>1, <1>3 DEF RunInv
    <3> QED BY <1>2, <3>1, <3>2 DEF On
  <2> QED BY <1>2, <2>1, <2>2, <2>3 DEF RunInv, On
<1>10. \A v \in Valuation : v \in Path' <=> v \in PathBefore(n)
  BY <1>2
<1> QED BY <1>2, <1>5, <1>6, <1>8, <1>9, <1>10

\* A callback returns to an activation that goes on, on either side.
LEMMA TurnRuns ==
  ASSUME TypeOK, StackInv, RunInv, TypeOK', StackInv', NEW n \in Nat, n = Len(frames),
         frames # <<>>, NEW f \in Frame,
         frames' = [frames EXCEPT ![Len(frames)] = f],
         f.c_head = Top.c_head, f.kind = Top.kind, f.cond = Top.cond,
         f.kind # "forked" => f.side = Top.side,
         \A i \in 1 .. Top.c_head : conditions_stack'[i] = conditions_stack[i],
         \A v \in Valuation : v \in Path' <=> v \in PathBefore(n) /\ On(f, v)
  PROVE  /\ RunInv'
         /\ Forked' = Forked
         /\ frames'[n] = f /\ \A k \in 1 .. n - 1 : frames'[k] = frames[k]
         /\ \A v \in Valuation :
              /\ v \in PathBefore(n) <=> v \in Path \/ Away(v, n)
              /\ v \notin PathBefore(n) => \E k \in 1 .. n - 1 : Away(v, k)
              /\ \A k \in 1 .. n - 1 : Away(v, k)' <=> Away(v, k)
              /\ Away(v, n)' <=> f.kind = "forked" /\ v \in PathBefore(n) /\ ~On(f, v)
<1>1. n = Len(frames) /\ n \in 1 .. n /\ n # 0 /\ Top = frames[n]
  BY TopFrame
<1>2. /\ Len(frames') = n /\ frames'[n] = f
      /\ \A k \in 1 .. n : PathBefore(k)' = PathBefore(k)
      /\ \A k \in 1 .. n : k # n => frames'[k] = frames[k]
  BY <1>1, TurnPaths
<1>3. \A k : k \in 1 .. n <=> k \in 1 .. n - 1 \/ k = n
  BY <1>1
<1>4. n \notin 1 .. n - 1 /\ \A k \in 1 .. n - 1 : k # n /\ k \in 1 .. n
  BY <1>1
<1>5. Forked' = Forked
  BY <1>1, <1>2 DEF Forked
<1>6. ASSUME NEW v \in Valuation
      PROVE  /\ \A k \in 1 .. n - 1 : Away(v, k)' <=> Away(v, k)
             /\ Away(v, n)' <=> f.kind = "forked" /\ v \in PathBefore(n) /\ ~On(f, v)
  <2>1. n \in Forked <=> f.kind = "forked"
    BY <1>1 DEF Forked
  <2> QED BY <1>1, <1>2, <1>4, <1>5, <2>1 DEF Away, On
<1>7. ASSUME NEW v \in Valuation
      PROVE  /\ v \in PathBefore(n) <=> \A j \in 1 .. n - 1 : On(frames[j], v)
             /\ v \in Path <=> \A j \in 1 .. n : On(frames[j], v)
             /\ v \in Path \/ \E k \in 1 .. n : Away(v, k)
  BY <1>1 DEF RunInv
<1>8. ASSUME NEW v \in Valuation
      PROVE  /\ v \in PathBefore(n) <=> v \in Path \/ Away(v, n)
             /\ v \notin PathBefore(n) => \E k \in 1 .. n - 1 : Away(v, k)
  <2>1. v \in Path => v \in PathBefore(n)
    BY <1>3, <1>7
  <2>2. ASSUME NEW k \in 1 .. n, Away(v, k), v \in PathBefore(n)
        PROVE  k = n
    <3>1. ~On(frames[k], v)
      BY <2>2 DEF Away
    <3> QED BY <1>3, <1>7, <2>2, <3>1
  <2>3. ASSUME Away(v, n)
        PROVE  v \in PathBefore(n)
    BY <2>3 DEF Away
  <2> QED BY <1>3, <1>7, <2>1, <2>2, <2>3
<1>9. RunInv'
  <2>1. \A k \in 1 .. n : Constant(frames'[k])
    BY <1>1, <1>2 DEF RunInv, Constant
  <2>2. ASSUME NEW v \in Valuation
        PROVE  /\ v \in Path' <=> \A j \in 1 .. n : On(frames'[j], v)
               /\ v \in Path' \/ \E k \in 1 .. n : Away(v, k)'
    <3>1. v \in PathBefore(n) <=> \A j \in 1 .. n - 1 : On(frames'[j], v)
      BY <1>2, <1>4, <1>7 DEF On
    <3>2. v \in Path' <=> v \in PathBefore(n) /\ On(frames'[n], v)
      BY <1>2
    <3>3. v \in Path' <=> \A j \in 1 .. n : On(frames'[j], v)
      BY <1>3, <3>1, <3>2
    <3>4. ASSUME v \in PathBefore(n), ~On(f, v)
          PROVE  f.kind = "forked"
      <4> SUFFICES ASSUME f.kind # "forked"
                   PROVE  FALSE
        OBVIOUS
      <4>1. ~On(Top, v)
        BY <3>4 DEF On
      <4>2. v \notin Path
        BY <1>1, <1>7, <4>1
      <4>3. Away(v, n)
        BY <1>8, <3>4, <4>2
      <4> QED BY <1>1, <4>3 DEF Away, Forked
    <3> QED BY <1>1, <1>3, <1>6, <1>8, <3>2, <3>3, <3>4, <1>2
  <2>3. ASSUME NEW v \in Valuation, NEW k \in 1 .. n
        PROVE  v \in PathBefore(k)' <=> \A j \in 1 .. k - 1 : On(frames'[j], v)
    <3>1. \A j \in 1 .. k - 1 : j \in 1 .. n - 1
      BY <1>1
    <3>2. v \in PathBefore(k) <=> \A j \in 1 .. k - 1 : On(frames[j], v)
      BY <1>1 DEF RunInv
    <3> QED BY <1>2, <1>4, <3>1, <3>2 DEF On
  <2> QED BY <1>2, <2>1, <2>2, <2>3 DEF RunInv, On
<1>10. \A k \in 1 .. n - 1 : frames'[k] = frames[k]
  BY <1>2, <1>4
<1> QED BY <1>2, <1>5, <1>6, <1>8, <1>9, <1>10

\* A step that leaves the path and the activations alone.
LEMMA IdleRuns ==
  ASSUME RunInv, UNCHANGED <<frames, conditions_stack>>
  PROVE  /\ RunInv' /\ Forked' = Forked /\ Path' = Path
         /\ \A v : \A k : Away(v, k)' <=> Away(v, k)
<1>1. Forked' = Forked /\ Path' = Path /\ \A k : PathBefore(k)' = PathBefore(k)
  BY DEF Forked, Path, PathBefore, CondHead
<1>2. \A v : \A k : Away(v, k)' <=> Away(v, k)
  BY <1>1 DEF Away, On
<1>3. RunInv'
  BY <1>1, <1>2 DEF RunInv, On
<1> QED BY <1>1, <1>2, <1>3
-----------------------------------------------------------------------------
(***************************************************************************)
(* Home and HomeHeap by path.                                              *)
(***************************************************************************)
Homes ==
  \A v \in Valuation :
    /\ v \in Path => Home(v) = memory /\ HomeHeap(v) = heap_offset[v]
    /\ \A k \in 1 .. Len(frames) : Away(v, k) =>
         /\ Home(v) = Pending(frames[k])
         /\ HomeHeap(v) = IF frames[k].side THEN frames[k].orig_heap[v] ELSE frames[k].t_heap[v]

LEMMA OutermostIs ==
  ASSUME NEW S, S \subseteq Nat, NEW k \in S, \A j \in S : k <= j
  PROVE  Outermost(S) = k
<1>1. \A i \in S : (\A j \in S : i <= j) => i = k
  <2> SUFFICES ASSUME NEW i \in S, \A j \in S : i <= j
               PROVE  i = k
    OBVIOUS
  <2>1. i <= k /\ k <= i /\ i \in Nat /\ k \in Nat
    OBVIOUS
  <2> QED BY <2>1
<1>2. \E i \in S : \A j \in S : i <= j
  OBVIOUS
<1> QED BY <1>1, <1>2 DEF Outermost

LEMMA HomesKnown == TypeOK /\ RunInv => Homes
<1> SUFFICES ASSUME TypeOK, RunInv, NEW v \in Valuation
             PROVE  /\ v \in Path => Home(v) = memory /\ HomeHeap(v) = heap_offset[v]
                    /\ \A k \in 1 .. Len(frames) : Away(v, k) =>
                         /\ Home(v) = Pending(frames[k])
                         /\ HomeHeap(v) = IF frames[k].side THEN frames[k].orig_heap[v]
                                                            ELSE frames[k].t_heap[v]
  BY DEF Homes
<1>1. PICK n \in Nat : n = Len(frames) /\ \A k \in 1 .. n : frames[k] \in Frame
  BY HeadTypes
<1>2. ASSUME NEW k \in Forked
      PROVE  k \in Elsewhere(v) <=> ~On(frames[k], v)
  <2>1. /\ k \in 1 .. n /\ frames[k].cond \in Literal /\ frames[k].side \in BOOLEAN
    BY <1>1 DEF Forked, Frame
  <2>2. CASE frames[k].side = TRUE
    BY <2>1, <2>2 DEF Elsewhere, On, LitIs
  <2>3. CASE frames[k].side = FALSE
    BY <2>1, <2>3 DEF Elsewhere, On, LitIs, LitNot
  <2> QED BY <2>1, <2>2, <2>3
<1>3. Elsewhere(v) \subseteq Forked /\ Forked \subseteq 1 .. n
  BY <1>1 DEF Elsewhere, Forked
<1>4. ASSUME v \in Path
      PROVE  Home(v) = memory /\ HomeHeap(v) = heap_offset[v]
  <2>1. \A j \in 1 .. n : On(frames[j], v)
    BY <1>1, <1>4 DEF RunInv
  <2>2. Elsewhere(v) = {}
    BY <1>2, <1>3, <2>1
  <2> QED BY <2>2 DEF Home, HomeHeap
<1>5. ASSUME NEW k \in 1 .. n, Away(v, k)
      PROVE  /\ Home(v) = Pending(frames[k])
             /\ HomeHeap(v) = IF frames[k].side THEN frames[k].orig_heap[v]
                                                ELSE frames[k].t_heap[v]
  <2>1. k \in Elsewhere(v)
    BY <1>2, <1>5 DEF Away
  <2>2. \A j \in 1 .. k - 1 : On(frames[j], v)
    BY <1>1, <1>5 DEF Away, RunInv
  <2>3. ASSUME NEW j \in Elsewhere(v)
        PROVE  k <= j
    <3>1. j \in 1 .. n /\ j \notin 1 .. k - 1
      BY <1>2, <1>3, <2>2
    <3> QED BY <1>1, <3>1
  <2>4. Elsewhere(v) \subseteq Nat
    <3>1. \A j \in 1 .. n : j \in Nat
      BY <1>1
    <3> QED BY <1>3, <3>1
  <2>5. Outermost(Elsewhere(v)) = k
    BY <2>1, <2>3, <2>4, OutermostIs
  <2> QED BY <2>1, <2>5 DEF Home, HomeHeap
<1> QED BY <1>1, <1>4, <1>5

LEMMA HomesKnownNext == (TypeOK /\ RunInv => Homes)'
BY HomesKnown, PTL

(***************************************************************************)
(* The state of a run whose registers are in block B.                      *)
(***************************************************************************)
RunOf(B, h, v) ==
  [cell |-> [i \in Offset |-> IF v \in B[i].writtenTo THEN B[i].value[v] ELSE Unwritten],
   heap |-> h]

Kept ==
  \A v \in Valuation :
    /\ ConcreteRun(v) = IF v \in lost THEN GivenUp
                        ELSE RunOf(blocks[Home(v)], HomeHeap(v), v)
    /\ Home(v) \in Live /\ blocks[Home(v)] \in Block /\ HomeHeap(v) \in Byte
    /\ ConcreteRun(v) = GivenUp <=> v \in lost
    /\ v \notin Path => Home(v) # memory

LEMMA RunOfType ==
  ASSUME NEW B \in Block, NEW h \in Byte, NEW v \in Valuation
  PROVE  RunOf(B, h, v) # GivenUp
<1>1. \A i \in Offset : B[i].value[v] \in Byte
  BY DEF Block, Cell, ByteVec
<1>2. RunOf(B, h, v) \in [cell : [Offset -> Byte \cup {Unwritten}], heap : Byte]
  BY <1>1 DEF RunOf
<1> QED BY <1>2, ConcreteAssumption

LEMMA RunsKept == OwnerInv /\ RunInv => Kept
<1> SUFFICES ASSUME OwnerInv, RunInv, NEW v \in Valuation
             PROVE  /\ ConcreteRun(v) = IF v \in lost THEN GivenUp
                                        ELSE RunOf(blocks[Home(v)], HomeHeap(v), v)
                    /\ Home(v) \in Live /\ blocks[Home(v)] \in Block /\ HomeHeap(v) \in Byte
                    /\ ConcreteRun(v) = GivenUp <=> v \in lost
                    /\ v \notin Path => Home(v) # memory
  BY DEF Kept
<1>1. TypeOK /\ Homes
  BY HomesKnown DEF OwnerInv
<1>2. ConcreteRun(v) = IF v \in lost THEN GivenUp
                       ELSE RunOf(blocks[Home(v)], HomeHeap(v), v)
  BY DEF ConcreteRun, RunOf, Written
<1>3. \/ v \in Path
      \/ v \notin Path /\ \E k \in 1 .. Len(frames) : Away(v, k)
  BY DEF RunInv
<1>4. ASSUME v \in Path
      PROVE  Home(v) \in Live /\ HomeHeap(v) \in Byte
  <2>1. Home(v) = memory /\ HomeHeap(v) = heap_offset[v]
    BY <1>1, <1>4 DEF Homes
  <2> QED BY <1>1, <2>1 DEF OwnerInv, Distinct, TypeOK, ByteVec
<1>5. ASSUME NEW k \in 1 .. Len(frames), Away(v, k)
      PROVE  Home(v) \in Live /\ HomeHeap(v) \in Byte /\ Home(v) # memory
  <2>1. k \in Forked /\ frames[k] \in Frame
    BY <1>1, <1>5, HeadTypes DEF Away
  <2>2. /\ Home(v) = Pending(frames[k])
        /\ HomeHeap(v) = IF frames[k].side THEN frames[k].orig_heap[v] ELSE frames[k].t_heap[v]
    BY <1>1, <1>5 DEF Homes
  <2>3. frames[k].orig_heap \in ByteVec /\ frames[k].t_heap \in ByteVec
    BY <2>1 DEF Frame
  <2>4. HomeHeap(v) \in Byte
    BY <2>2, <2>3 DEF ByteVec
  <2> QED BY <2>1, <2>2, <2>4 DEF OwnerInv, Distinct
<1>6. Home(v) \in Live /\ HomeHeap(v) \in Byte /\ (v \notin Path => Home(v) # memory)
  BY <1>3, <1>4, <1>5
<1>7. blocks[Home(v)] \in Block
  BY <1>6, LiveBlocks
<1> QED BY <1>2, <1>6, <1>7, RunOfType

LEMMA RunsKeptNext == (OwnerInv /\ RunInv => Kept)'
BY RunsKept, PTL

\* A step that writes to the current memory, gives up runs on the path or
\* does neither: the other runs rest.
LEMMA WriteRuns ==
  ASSUME OwnerInv, RunInv, OwnerInv', NEW B,
         UNCHANGED <<memory, frames, conditions_stack>>,
         blocks' = [blocks EXCEPT ![memory] = B],
         lost \subseteq lost', lost' \subseteq lost \cup Path
  PROVE  \A v \in Valuation :
           /\ v \in Path /\ v \notin lost =>
                ConcreteRun(v) = RunOf(blocks[memory], heap_offset[v], v)
           /\ v \in Path /\ v \notin lost' =>
                ConcreteRun(v)' = RunOf(B, heap_offset'[v], v)
           /\ v \notin Path => ConcreteRun(v)' = ConcreteRun(v)
<1>1. RunInv' /\ Path' = Path /\ \A v : \A k : Away(v, k)' <=> Away(v, k)
  BY IdleRuns
<1>2. TypeOK /\ TypeOK'
  BY DEF OwnerInv
<1>3. Homes /\ Homes' /\ Kept /\ Kept'
  BY <1>1, <1>2, HomesKnown, HomesKnownNext, RunsKept, RunsKeptNext
<1> SUFFICES ASSUME NEW v \in Valuation
             PROVE  /\ v \in Path /\ v \notin lost =>
                         ConcreteRun(v) = RunOf(blocks[memory], heap_offset[v], v)
                    /\ v \in Path /\ v \notin lost' =>
                         ConcreteRun(v)' = RunOf(B, heap_offset'[v], v)
                    /\ v \notin Path => ConcreteRun(v)' = ConcreteRun(v)
  OBVIOUS
<1>4. blocks'[memory] = B
  BY LiveBlocks DEF OwnerInv, TypeOK
<1>5. ASSUME v \in Path, v \notin lost
      PROVE  ConcreteRun(v) = RunOf(blocks[memory], heap_offset[v], v)
  BY <1>3, <1>5 DEF Homes, Kept
<1>6. ASSUME v \in Path, v \notin lost'
      PROVE  ConcreteRun(v)' = RunOf(B, heap_offset'[v], v)
  <2>1. Home(v)' = memory /\ HomeHeap(v)' = heap_offset'[v]
    BY <1>1, <1>3, <1>6 DEF Homes
  <2>2. ConcreteRun(v)' = RunOf(blocks'[Home(v)'], HomeHeap(v)', v)
    BY <1>3, <1>6 DEF Kept, RunOf
  <2> QED BY <1>4, <2>1, <2>2
<1>7. ASSUME v \notin Path
      PROVE  ConcreteRun(v)' = ConcreteRun(v)
  <2>1. PICK k \in 1 .. Len(frames) : Away(v, k)
    BY <1>7 DEF RunInv
  <2>2. Home(v)' = Home(v) /\ HomeHeap(v)' = HomeHeap(v)
    BY <1>1, <1>3, <2>1 DEF Homes, Pending
  <2>3. Home(v) # memory /\ Home(v) \in Handle
    BY <1>3, <1>7 DEF Kept, Live
  <2>4. blocks'[Home(v)] = blocks[Home(v)]
    BY <2>3 DEF OwnerInv, TypeOK
  <2>5. v \in lost' <=> v \in lost
    BY <1>7
  <2> QED BY <2>2, <2>4, <2>5 DEF ConcreteRun, Written
<1> QED BY <1>5, <1>6, <1>7
-----------------------------------------------------------------------------
(***************************************************************************)
(* What the operations do to a block, run by run.                          *)
(***************************************************************************)
LEMMA StoreRun ==
  ASSUME NEW B \in Block, NEW st \in Stores, InBounds(st.address, st.size), NEW h,
         NEW v \in Valuation
  PROVE  RunOf(StoreInto(B, st), h, v) =
           [RunOf(B, h, v) EXCEPT !.cell =
              [i \in Offset |-> LET b == StoredByte(st, i, v)
                                IN  IF b = Unwritten THEN RunOf(B, h, v).cell[i] ELSE b]]
<1>1. /\ st.size \in Nat /\ st.address \in Nat /\ base_address \in Nat
      /\ st.bytes \in [0 .. st.size - 1 -> ByteVec] /\ st.big_endian \in BOOLEAN
      /\ cMem_size \in Nat
  BY BranchAssumption, CMemoryAssumption
<1> DEFINE cells == RunOf(StoreInto(B, st), h, v).cell
<1>2. ASSUME NEW i \in Offset
      PROVE  cells[i] = LET b == StoredByte(st, i, v)
                        IN  IF b = Unwritten THEN RunOf(B, h, v).cell[i] ELSE b
  <2> DEFINE k == i - (st.address - base_address)
             m == IF st.big_endian THEN (st.size - 1) - k ELSE k
  <2>1. CASE k \in 0 .. st.size - 1
    <3>1. m \in 0 .. st.size - 1
      <4>1. \A s \in Nat : \A j \in 0 .. s - 1 : (s - 1) - j \in 0 .. s - 1
        OBVIOUS
      <4> HIDE DEF k
      <4> QED BY <1>1, <2>1, <4>1
    <3>2. StoreInto(B, st)[i] = [value |-> st.bytes[m], writtenTo |-> Const1]
      <4>1. CASE st.big_endian
        <5>1. StoreInto(B, st)[i] = [value |-> [j \in 0 .. st.size - 1 |->
                                                 st.bytes[(st.size - 1) - j]][k],
                                     writtenTo |-> Const1]
          BY <2>1, <4>1 DEF StoreInto, cMemory_store_be, StoreBytes
        <5> QED BY <2>1, <4>1, <5>1
      <4>2. CASE ~st.big_endian
        BY <2>1, <4>2 DEF StoreInto, cMemory_store_le, StoreBytes
      <4> QED BY <4>1, <4>2
    <3> HIDE DEF m
    <3>3. cells[i] = st.bytes[m][v]
      BY <3>2 DEF RunOf, Const1
    <3>4. st.bytes[m][v] \in Byte /\ st.bytes[m][v] # Unwritten
      BY <1>1, <3>1, ConcreteAssumption DEF ByteVec
    <3>5. StoredByte(st, i, v) = st.bytes[m][v]
      BY <2>1 DEF StoredByte, m
    <3> QED BY <3>3, <3>4, <3>5
  <2>2. CASE k \notin 0 .. st.size - 1
    <3>1. StoreInto(B, st)[i] = B[i]
      BY <1>1, <2>2 DEF StoreInto, cMemory_store_le, cMemory_store_be, StoreBytes
    <3>2. StoredByte(st, i, v) = Unwritten
      BY <2>2 DEF StoredByte
    <3> QED BY <3>1, <3>2 DEF RunOf
  <2> QED BY <2>1, <2>2
<1> HIDE DEF cells
<1>3. cells = [i \in Offset |-> cells[i]]
  BY DEF cells, RunOf
<1>4. cells = [i \in Offset |-> LET b == StoredByte(st, i, v)
                                IN  IF b = Unwritten THEN RunOf(B, h, v).cell[i] ELSE b]
  BY <1>2, <1>3
<1>5. RunOf(StoreInto(B, st), h, v) = [RunOf(B, h, v) EXCEPT !.cell = cells]
  <2>1. RunOf(StoreInto(B, st), h, v) = [cell |-> cells, heap |-> h]
    BY DEF cells, RunOf
  <2>2. PICK a : RunOf(B, h, v) = [cell |-> a, heap |-> h]
    BY DEF RunOf
  <2>3. [[cell |-> a, heap |-> h] EXCEPT !.cell = cells] = [cell |-> cells, heap |-> h]
    OBVIOUS
  <2> QED BY <2>1, <2>2, <2>3
<1> QED BY <1>4, <1>5

\* A byte that is copied counts as written.
LEMMA MoveRun ==
  ASSUME NEW B \in Block, NEW mv \in Moves, MoveInBounds(mv), NEW h, NEW v \in Valuation,
         NEW i \in Offset
  PROVE  LET old == RunOf(B, h, v).cell
             new == RunOf(StoreInto(B, Loaded(B, mv)), h, v).cell
             s   == CopiedFrom(mv, i)
         IN  IF s = Unwritten
               THEN new[i] = old[i]
               ELSE /\ s \in Offset /\ new[i] # Unwritten
                    /\ old[s] # Unwritten => new[i] = old[s]
<1>1. /\ mv.size \in Nat /\ mv.from \in Nat /\ mv.to \in Nat /\ base_address \in Nat
      /\ cMem_size \in Nat /\ mv.from >= base_address
      /\ (mv.from - base_address) + mv.size <= cMem_size
      /\ mv.from_big_endian \in BOOLEAN /\ mv.big_endian \in BOOLEAN
  BY BranchAssumption, CMemoryAssumption DEF MoveInBounds, InBounds
<1> DEFINE k == i - (mv.to - base_address)
           m == IF mv.from_big_endian = mv.big_endian THEN k ELSE (mv.size - 1) - k
           s == (mv.from - base_address) + m
           C == StoreInto(B, Loaded(B, mv))
<1>2. CASE k \in 0 .. mv.size - 1
  <2>1. m \in 0 .. mv.size - 1 /\ (mv.size - 1) - m \in 0 .. mv.size - 1
    BY <1>1, <1>2 DEF Offset
  <2>2. s \in Offset
    BY <1>1, <2>1 DEF Offset
  <2>3. C[i] = [value |-> B[s].value, writtenTo |-> Const1]
    <3>1. CASE mv.big_endian = FALSE
      <4>1. C[i] = [value |-> Loaded(B, mv).bytes[k], writtenTo |-> Const1]
        BY <1>1, <1>2, <3>1 DEF StoreInto, cMemory_store_le, StoreBytes, Loaded
      <4>2. Loaded(B, mv).bytes[k] = B[s].value
        BY <1>1, <1>2, <3>1 DEF Loaded, cMemory_load_le, cMemory_load_be
      <4> QED BY <4>1, <4>2
    <3>2. CASE mv.big_endian = TRUE
      <4>1. (mv.size - 1) - k \in 0 .. mv.size - 1 /\ (mv.size - 1) - ((mv.size - 1) - k) = k
        BY <1>1, <1>2 DEF Offset
      <4>2. C[i] = [value |-> Loaded(B, mv).bytes[(mv.size - 1) - k], writtenTo |-> Const1]
        BY <1>1, <1>2, <3>2 DEF StoreInto, cMemory_store_be, StoreBytes, Loaded
      <4>3. Loaded(B, mv).bytes[(mv.size - 1) - k] = B[s].value
        BY <1>1, <3>2, <4>1 DEF Loaded, cMemory_load_le, cMemory_load_be
      <4> QED BY <4>2, <4>3
    <3> QED BY <1>1, <3>1, <3>2
  <2>4. CopiedFrom(mv, i) = s
    BY <1>2 DEF CopiedFrom
  <2> HIDE DEF s, C
  <2>5. B[s].value[v] \in Byte /\ B[s].value[v] # Unwritten /\ s # Unwritten
    BY <2>2, ConcreteAssumption DEF Block, Cell, ByteVec
  <2>6. RunOf(C, h, v).cell[i] = B[s].value[v]
    BY <2>3 DEF RunOf, Const1
  <2>7. RunOf(B, h, v).cell[s] # Unwritten => RunOf(B, h, v).cell[s] = B[s].value[v]
    BY <2>2 DEF RunOf
  <2> QED BY <2>2, <2>4, <2>5, <2>6, <2>7 DEF C
<1>3. CASE k \notin 0 .. mv.size - 1
  <2>1. C[i] = B[i]
    BY <1>1, <1>3 DEF StoreInto, cMemory_store_le, cMemory_store_be, StoreBytes, Loaded
  <2>2. CopiedFrom(mv, i) = Unwritten
    BY <1>3 DEF CopiedFrom
  <2> QED BY <2>1, <2>2 DEF RunOf
<1> QED BY <1>2, <1>3

LEMMA PopReturnRun ==
  ASSUME NEW B \in Block, NEW n \in Pops, NEW h, NEW v \in Valuation
  PROVE  LET old == RunOf(B, h, v).cell
             new == RunOf(PopReturn(B, n), h, v).cell
         IN  /\ new[Esp] # Unwritten
             /\ old[Esp] # Unwritten => new[Esp] = (old[Esp] + n) % ByteModulus
             /\ \A i \in Offset \ {Esp} : new[i] = old[i]
<1>1. Esp \in Offset /\ B[Esp].value[v] \in Byte /\ n \in Nat
  BY BranchAssumption DEF Block, Cell, ByteVec
<1>2. PopReturn(B, n)[Esp] = [value |-> vec_add(B[Esp].value, vec_getConstant(n)),
                              writtenTo |-> Const1]
  BY <1>1 DEF PopReturn, Block
<1>3. \A i \in Offset \ {Esp} : PopReturn(B, n)[i] = B[i]
  BY DEF PopReturn, Block
<1>4. RunOf(PopReturn(B, n), h, v).cell[Esp] = (B[Esp].value[v] + n) % ByteModulus
  BY <1>1, <1>2 DEF RunOf, vec_add, vec_getConstant, Const1
<1>5. (B[Esp].value[v] + n) % ByteModulus \in Byte
  BY <1>1, CMemoryAssumption DEF Byte
<1>6. RunOf(B, h, v).cell[Esp] # Unwritten => RunOf(B, h, v).cell[Esp] = B[Esp].value[v]
  BY <1>1 DEF RunOf
<1>7. \A i \in Offset \ {Esp} :
        RunOf(PopReturn(B, n), h, v).cell[i] = RunOf(B, h, v).cell[i]
  BY <1>3 DEF RunOf
<1>8. \A b \in Byte : b # Unwritten
  BY ConcreteAssumption
<1> QED BY <1>4, <1>5, <1>6, <1>7, <1>8

\* A merge keeps what either side wrote on its own valuations.
LEMMA IteRun ==
  ASSUME NEW c \in Literal, NEW T \in Block, NEW F \in Block, NEW h, NEW v \in Valuation,
         NEW i \in Offset
  PROVE  LET old == RunOf(IF v \in c THEN T ELSE F, h, v).cell
             new == RunOf(cMemory_ite(c, T, F), h, v).cell
         IN  old[i] # Unwritten => new[i] = old[i]
<1>1. CASE c = Const0 \/ c = Const1
  BY <1>1 DEF cMemory_ite, RunOf, Const0, Const1
<1>2. CASE c # Const0 /\ c # Const1
  <2>1. cMemory_ite(c, T, F)[i] = IteCell(c, T[i], F[i])
    BY <1>2 DEF cMemory_ite
  <2>2. CASE v \in c
    <3>1. v \in T[i].writtenTo =>
            /\ v \in IteCell(c, T[i], F[i]).writtenTo
            /\ IteCell(c, T[i], F[i]).value[v] = T[i].value[v]
      BY <2>2 DEF IteCell, HashMux, vec_ite, Const0
    <3> QED BY <2>1, <2>2, <3>1 DEF RunOf
  <2>3. CASE v \notin c
    <3>1. v \in F[i].writtenTo =>
            /\ v \in IteCell(c, T[i], F[i]).writtenTo
            /\ IteCell(c, T[i], F[i]).value[v] = F[i].value[v]
      BY <2>3 DEF IteCell, HashMux, vec_ite, Const0
    <3> QED BY <2>1, <2>3, <3>1 DEF RunOf
  <2> QED BY <2>2, <2>3
<1> QED BY <1>1, <1>2
-----------------------------------------------------------------------------
(***************************************************************************)
(* The operations of a program.                                            *)
(***************************************************************************)
Opened ==
  /\ Len(opened) = Len(frames)
  /\ Concrete!OnPath(Len(opened)) = Path
  /\ Concrete!Active = Path \ lost
  /\ frames # <<>> => Concrete!OnPath(Len(opened) - 1) = PathBefore(Len(frames))

LEMMA SidesOpen == OwnerInv /\ RunInv => Opened
<1> SUFFICES ASSUME OwnerInv, RunInv
             PROVE  Opened
  OBVIOUS
<1>1. TypeOK /\ Kept
  BY RunsKept DEF OwnerInv
<1>2. PICK n \in Nat : n = Len(frames)
  BY <1>1, HeadTypes
<1>3. Len(opened) = n /\ \A k \in 1 .. n : opened[k].now = LitIs(frames[k].cond, frames[k].side)
  BY <1>2 DEF opened, NowAndTodo
<1>4. ASSUME NEW m \in 0 .. n
      PROVE  Concrete!OnPath(m) = {v \in Valuation : \A j \in 1 .. m : On(frames[j], v)}
  <2>1. \A j \in 1 .. m : j \in 1 .. n
    BY <1>2
  <2> QED BY <1>3, <2>1 DEF Concrete!OnPath, On
<1>5. Concrete!OnPath(n) = Path
  <2>1. n \in 0 .. n
    BY <1>2
  <2>2. Path = {v \in Valuation : \A j \in 1 .. n : On(frames[j], v)}
    BY <1>2 DEF RunInv, Path
  <2> QED BY <1>4, <2>1, <2>2
<1>6. ASSUME frames # <<>>
      PROVE  Concrete!OnPath(n - 1) = PathBefore(n)
  <2>1. n \in 1 .. n /\ n - 1 \in 0 .. n
    BY <1>1, <1>2, <1>6, TopFrame
  <2>2. PathBefore(n) = {v \in Valuation : \A j \in 1 .. n - 1 : On(frames[j], v)}
    BY <1>2, <2>1 DEF RunInv, PathBefore
  <2> QED BY <1>4, <2>1, <2>2
<1>7. Concrete!Going = Valuation \ lost
  BY <1>1 DEF Concrete!Going, runs, Kept
<1>8. Concrete!Active = Path \ lost
  BY <1>3, <1>5, <1>7 DEF Concrete!Active, Path
<1> QED BY <1>2, <1>3, <1>5, <1>6, <1>8 DEF Opened

LEMMA StoreRefines ==
  ASSUME OwnerInv, RunInv, OwnerInv', NEW st \in Stores, Store(st)
  PROVE  Concrete!Store(st)
<1> DEFINE B == blocks[memory]
<1>1. /\ InBounds(st.address, st.size)
      /\ blocks' = [blocks EXCEPT ![memory] = StoreInto(B, st)]
      /\ UNCHANGED <<memory, heap_offset, frames, conditions_stack, lost>>
  BY DEF Store
<1>2. B \in Block /\ lost \subseteq lost' /\ lost' \subseteq lost \cup Path
  BY <1>1, LiveBlocks
<1>3. Opened /\ Kept /\ opened' = opened
  BY <1>1, SidesOpen, RunsKept DEF opened
<1>4. ASSUME NEW v \in Valuation
      PROVE  ConcreteRun(v)' =
               IF v \in Path \ lost
                 THEN [ConcreteRun(v) EXCEPT !.cell =
                         [i \in Offset |->
                            LET b == StoredByte(st, i, v)
                            IN  IF b = Unwritten THEN ConcreteRun(v).cell[i] ELSE b]]
                 ELSE ConcreteRun(v)
  <2>1. CASE v \in Path \ lost
    <3>1. ConcreteRun(v) = RunOf(B, heap_offset[v], v)
      BY <1>1, <1>2, <2>1, WriteRuns
    <3>2. ConcreteRun(v)' = RunOf(StoreInto(B, st), heap_offset[v], v)
      BY <1>1, <1>2, <2>1, WriteRuns
    <3> QED BY <1>1, <1>2, <2>1, <3>1, <3>2, StoreRun
  <2>2. CASE v \notin Path
    BY <1>1, <1>2, <2>2, WriteRuns
  <2>3. CASE v \in lost
    BY <1>1, <2>3 DEF ConcreteRun
  <2> QED BY <2>1, <2>2, <2>3
<1> QED BY <1>3, <1>4 DEF Concrete!Store, runs, Opened

LEMMA MoveRefines ==
  ASSUME OwnerInv, RunInv, OwnerInv', NEW mv \in Moves, Move(mv)
  PROVE  Concrete!Move(mv)
<1> DEFINE B == blocks[memory]
           C == StoreInto(B, Loaded(B, mv))
<1>1. /\ MoveInBounds(mv)
      /\ blocks' = [blocks EXCEPT ![memory] = C]
      /\ UNCHANGED <<memory, heap_offset, frames, conditions_stack, lost>>
  BY DEF Move
<1>2. B \in Block /\ C \in Block /\ lost \subseteq lost' /\ lost' \subseteq lost \cup Path
  BY <1>1, LiveBlocks, MoveType
<1>3. Opened /\ Kept /\ opened' = opened
  BY <1>1, SidesOpen, RunsKept DEF opened
<1>4. \A i \in Offset : \A v \in Valuation : \A h :
        LET old == RunOf(B, h, v).cell
            new == RunOf(C, h, v).cell
            s   == CopiedFrom(mv, i)
        IN  IF s = Unwritten
              THEN new[i] = old[i]
              ELSE /\ s \in Offset /\ new[i] # Unwritten
                   /\ old[s] # Unwritten => new[i] = old[s]
  BY <1>1, <1>2, MoveRun
<1> HIDE DEF B, C
<1>5. ASSUME NEW v \in Valuation
      PROVE  IF v \in Path \ lost
               THEN /\ runs'[v] # GivenUp
                    /\ runs'[v].heap = runs[v].heap
                    /\ \A i \in Offset : Concrete!Copied(v, mv, i)
               ELSE runs'[v] = runs[v]
  <2>1. CASE v \in Path \ lost
    <3>1. runs[v] = RunOf(B, heap_offset[v], v)
      BY <1>1, <1>2, <2>1, WriteRuns DEF B, runs
    <3>2. runs'[v] = RunOf(C, heap_offset[v], v)
      BY <1>1, <1>2, <2>1, WriteRuns DEF runs
    <3>3. runs'[v] # GivenUp
      <4>1. heap_offset[v] \in Byte
        BY DEF OwnerInv, TypeOK, ByteVec
      <4> QED BY <1>2, <3>2, <4>1, RunOfType
    <3>4. runs'[v].heap = runs[v].heap
      BY <3>1, <3>2 DEF RunOf
    <3>5. ASSUME NEW i \in Offset
          PROVE  Concrete!Copied(v, mv, i)
      BY <1>4, <3>1, <3>2 DEF Concrete!Copied
    <3> QED BY <2>1, <3>3, <3>4, <3>5
  <2>2. CASE v \notin Path
    BY <1>1, <1>2, <2>2, WriteRuns DEF runs
  <2>3. CASE v \in lost
    BY <1>1, <2>3 DEF runs, ConcreteRun
  <2> QED BY <2>1, <2>2, <2>3
<1> QED BY <1>3, <1>5 DEF Concrete!Move, Opened

LEMMA LibraryCallRefines ==
  ASSUME OwnerInv, RunInv, OwnerInv', NEW n \in Pops,
         blocks' = [blocks EXCEPT ![memory] = PopReturn(@, n)],
         UNCHANGED <<memory, heap_offset, frames, conditions_stack, lost>>
  PROVE  Concrete!LibraryCall(n)
<1> DEFINE B == blocks[memory]
           C == PopReturn(B, n)
<1>1. /\ blocks' = [blocks EXCEPT ![memory] = C]
      /\ UNCHANGED <<memory, heap_offset, frames, conditions_stack, lost>>
  OBVIOUS
<1>2. B \in Block /\ C \in Block /\ lost \subseteq lost' /\ lost' \subseteq lost \cup Path
  BY LiveBlocks, PopReturnType
<1>3. Opened /\ opened' = opened
  BY <1>1, SidesOpen DEF opened
<1>4. \A v \in Valuation : \A h :
        LET old == RunOf(B, h, v).cell
            new == RunOf(C, h, v).cell
        IN  /\ new[Esp] # Unwritten
            /\ old[Esp] # Unwritten => new[Esp] = (old[Esp] + n) % ByteModulus
            /\ \A i \in Offset \ {Esp} : new[i] = old[i]
  BY <1>2, PopReturnRun
<1> HIDE DEF B, C
<1>5. ASSUME NEW v \in Valuation
      PROVE  IF v \in Path \ lost
               THEN /\ Concrete!PopReturn(v, n)
                    /\ runs'[v].heap = runs[v].heap
                    /\ Concrete!SameCells(v, Offset \ {Esp})
               ELSE runs'[v] = runs[v]
  <2>1. CASE v \in Path \ lost
    <3>1. runs[v] = RunOf(B, heap_offset[v], v)
      BY <1>1, <1>2, <2>1, WriteRuns DEF B, runs
    <3>2. runs'[v] = RunOf(C, heap_offset[v], v)
      BY <1>1, <1>2, <2>1, WriteRuns DEF runs
    <3>3. runs'[v] # GivenUp
      <4>1. heap_offset[v] \in Byte
        BY DEF OwnerInv, TypeOK, ByteVec
      <4> QED BY <1>2, <3>2, <4>1, RunOfType
    <3>4. runs'[v].heap = runs[v].heap
      BY <3>1, <3>2 DEF RunOf
    <3>5. Concrete!PopReturn(v, n)
      BY <1>4, <3>1, <3>2, <3>3 DEF Concrete!PopReturn
    <3>6. Concrete!SameCells(v, Offset \ {Esp})
      BY <1>4, <3>1, <3>2 DEF Concrete!SameCells
    <3> QED BY <2>1, <3>4, <3>5, <3>6
  <2>2. CASE v \notin Path
    BY <1>1, <1>2, <2>2, WriteRuns DEF runs
  <2>3. CASE v \in lost
    BY <1>1, <2>3 DEF runs, ConcreteRun
  <2> QED BY <2>1, <2>2, <2>3
<1> QED BY <1>3, <1>5 DEF Concrete!LibraryCall, Opened

LEMMA MallocRefines ==
  ASSUME OwnerInv, RunInv, OwnerInv', NEW n \in Pops, NEW size \in MallocSizes,
         Malloc(size, n)
  PROVE  Concrete!Malloc(size, n)
<1> DEFINE B == blocks[memory]
           P == PopReturn(B, n)
           C == [P EXCEPT ![Eax] = [value |-> heap_offset, writtenTo |-> Const1]]
<1>1. /\ blocks' = [blocks EXCEPT ![memory] = C]
      /\ heap_offset' = vec_add(heap_offset, size)
      /\ UNCHANGED <<memory, frames, conditions_stack, lost>>
  BY DEF Malloc
<1>2. B \in Block /\ P \in Block /\ lost \subseteq lost' /\ lost' \subseteq lost \cup Path
  BY <1>1, LiveBlocks, PopReturnType
<1>3. Opened /\ opened' = opened
  BY <1>1, SidesOpen DEF opened
<1>4. \A v \in Valuation : \A h :
        LET old == RunOf(B, h, v).cell
            new == RunOf(P, h, v).cell
        IN  /\ new[Esp] # Unwritten
            /\ old[Esp] # Unwritten => new[Esp] = (old[Esp] + n) % ByteModulus
            /\ \A i \in Offset \ {Esp} : new[i] = old[i]
  BY <1>2, PopReturnRun
<1>5. Esp \in Offset /\ Eax \in Offset /\ Esp # Eax /\ heap_offset \in ByteVec
  BY BranchAssumption DEF OwnerInv, TypeOK
<1>6. C \in Block
  BY <1>2, <1>5, WriteCellType
<1>7. ASSUME NEW v \in Valuation
      PROVE  /\ \A h, g : \A i \in Offset \ {Eax} : RunOf(C, h, v).cell[i] = RunOf(P, g, v).cell[i]
             /\ \A h : RunOf(C, h, v).cell[Eax] = heap_offset[v]
  <2>1. \A i \in Offset \ {Eax} : C[i] = P[i]
    BY <1>2 DEF Block
  <2>2. C[Eax] = [value |-> heap_offset, writtenTo |-> Const1]
    BY <1>2, <1>5 DEF Block
  <2> QED BY <1>5, <2>1, <2>2 DEF RunOf, Const1
<1> HIDE DEF B, P, C
<1>8. ASSUME NEW v \in Valuation
      PROVE  IF v \in Path \ lost
               THEN /\ Concrete!PopReturn(v, n)
                    /\ runs'[v].cell[Eax] = runs[v].heap
                    /\ runs'[v].heap = (runs[v].heap + size[v]) % ByteModulus
                    /\ Concrete!SameCells(v, Offset \ {Esp, Eax})
               ELSE runs'[v] = runs[v]
  <2>1. CASE v \in Path \ lost
    <3>1. runs[v] = RunOf(B, heap_offset[v], v)
      BY <1>1, <1>2, <2>1, WriteRuns DEF B, runs
    <3>2. runs'[v] = RunOf(C, heap_offset'[v], v)
      BY <1>1, <1>2, <2>1, WriteRuns DEF runs
    <3>3. runs'[v] # GivenUp
      <4>1. heap_offset'[v] \in Byte
        BY DEF OwnerInv, TypeOK, ByteVec
      <4> QED BY <1>6, <3>2, <4>1, RunOfType
    <3>4. runs'[v].heap = (runs[v].heap + size[v]) % ByteModulus
      BY <1>1, <3>1, <3>2 DEF RunOf, vec_add
    <3>5. runs'[v].cell[Eax] = runs[v].heap
      BY <1>7, <3>1, <3>2 DEF RunOf
    <3>6. \A i \in Offset \ {Eax} : runs'[v].cell[i] = RunOf(P, heap_offset[v], v).cell[i]
      BY <1>7, <3>2
    <3>7. Concrete!PopReturn(v, n)
      BY <1>4, <1>5, <3>1, <3>3, <3>6 DEF Concrete!PopReturn
    <3>8. Concrete!SameCells(v, Offset \ {Esp, Eax})
      BY <1>4, <3>1, <3>6 DEF Concrete!SameCells
    <3> QED BY <2>1, <3>4, <3>5, <3>7, <3>8
  <2>2. CASE v \notin Path
    BY <1>1, <1>2, <2>2, WriteRuns DEF runs
  <2>3. CASE v \in lost
    BY <1>1, <2>3 DEF runs, ConcreteRun
  <2> QED BY <2>1, <2>2, <2>3
<1> QED BY <1>3, <1>8 DEF Concrete!Malloc, Opened

\* A path that ends, whatever was written on it before.
LEMMA GiveUpRefines ==
  ASSUME OwnerInv, RunInv, OwnerInv', NEW B,
         blocks' = [blocks EXCEPT ![memory] = B], lost' = lost \cup Path,
         UNCHANGED <<memory, frames, conditions_stack>>
  PROVE  Concrete!GiveUp
<1>1. Opened /\ opened' = opened
  BY SidesOpen DEF opened
<1>2. ASSUME NEW v \in Valuation
      PROVE  ConcreteRun(v)' = IF v \in Path THEN GivenUp ELSE ConcreteRun(v)
  <2>1. CASE v \in Path
    BY <2>1 DEF ConcreteRun
  <2>2. CASE v \notin Path
    BY <2>2, WriteRuns
  <2> QED BY <2>1, <2>2
<1> QED BY <1>1, <1>2 DEF Concrete!GiveUp, runs, Opened

\* Steps that change neither a run nor an activation.
LEMMA IdleRefines ==
  ASSUME UNCHANGED <<memory, blocks, heap_offset, frames, lost>>
  PROVE  UNCHANGED <<runs, opened>>
BY DEF runs, opened, ConcreteRun, Written, Home, HomeHeap, Elsewhere, Forked
-----------------------------------------------------------------------------
(***************************************************************************)
(* Conditionals.                                                           *)
(***************************************************************************)
OpenSides == [now : SUBSET Valuation, todo : SUBSET Valuation]

LEMMA SidesType ==
  ASSUME NEW f \in Frame
  PROVE  NowAndTodo(f) \in OpenSides
<1>1. f.cond \in Literal /\ f.side \in BOOLEAN
  BY DEF Frame
<1>2. (~f.side) \in BOOLEAN
  OBVIOUS
<1>3. LitIs(f.cond, f.side) \in Literal /\ LitIs(f.cond, ~f.side) \in Literal
  BY <1>1, <1>2, LitIsType
<1> QED BY <1>3 DEF NowAndTodo, OpenSides, Literal

LEMMA OpenedType ==
  ASSUME TypeOK
  PROVE  /\ opened \in Seq(OpenSides) /\ Len(opened) = Len(frames)
         /\ \A k \in 1 .. Len(frames) : opened[k] = NowAndTodo(frames[k])
<1>1. Len(frames) \in Nat /\ \A k \in 1 .. Len(frames) : NowAndTodo(frames[k]) \in OpenSides
  BY HeadTypes, SidesType
<1> QED BY <1>1 DEF opened

LEMMA OpenedTypeNext ==
  ASSUME TypeOK'
  PROVE  /\ opened' \in Seq(OpenSides) /\ Len(opened') = Len(frames')
         /\ \A k \in 1 .. Len(frames') : opened'[k] = NowAndTodo(frames'[k])
<1>1. frames' \in Seq(Frame) /\ Len(frames') \in Nat
  BY LenProperties DEF TypeOK
<1>2. \A k \in 1 .. Len(frames') : NowAndTodo(frames'[k]) \in OpenSides
  BY <1>1, ElementOfSeq, SidesType
<1> QED BY <1>1, <1>2 DEF opened, NowAndTodo

LEMMA PushOpened ==
  ASSUME TypeOK, TypeOK', NEW f \in Frame, frames' = Append(frames, f)
  PROVE  opened' = Append(opened, NowAndTodo(f))
<1>1. PICK n \in Nat, e \in OpenSides : n = Len(frames) /\ e = NowAndTodo(f)
  BY HeadTypes, SidesType
<1>2. /\ Len(frames') = n + 1 /\ frames'[n + 1] = f
      /\ \A k \in 1 .. n : frames'[k] = frames[k]
  BY <1>1, AppendProperties DEF TypeOK
<1>3. /\ opened \in Seq(OpenSides) /\ Len(opened) = n
      /\ \A k \in 1 .. n : opened[k] = NowAndTodo(frames[k])
  BY <1>1, OpenedType
<1>4. /\ opened' \in Seq(OpenSides) /\ Len(opened') = n + 1
      /\ \A k \in 1 .. n + 1 : opened'[k] = NowAndTodo(frames'[k])
  BY <1>2, OpenedTypeNext
<1>5. /\ Append(opened, e) \in Seq(OpenSides) /\ Len(Append(opened, e)) = n + 1
      /\ \A k \in 1 .. n : Append(opened, e)[k] = opened[k]
      /\ Append(opened, e)[n + 1] = e
  BY <1>3, AppendProperties
<1>6. \A k \in 1 .. n + 1 : k \in 1 .. n \/ k = n + 1
  BY <1>1
<1>7. \A k \in 1 .. n + 1 : opened'[k] = Append(opened, e)[k]
  BY <1>1, <1>2, <1>3, <1>4, <1>5, <1>6
<1>8. opened' = Append(opened, e)
  BY <1>4, <1>5, <1>7, SeqEqual
<1> QED BY <1>1, <1>8

LEMMA PopOpened ==
  ASSUME TypeOK, TypeOK', frames # <<>>, frames' = Pop(frames)
  PROVE  opened # <<>> /\ opened' = SubSeq(opened, 1, Len(opened) - 1)
<1>1. PICK n \in Nat : n = Len(frames) /\ n # 0
  BY TopFrame
<1>2. Len(frames') = n - 1 /\ \A k \in 1 .. n - 1 : frames'[k] = frames[k]
  BY <1>1, PopFrames
<1>3. /\ opened \in Seq(OpenSides) /\ Len(opened) = n
      /\ \A k \in 1 .. n : opened[k] = NowAndTodo(frames[k])
  BY <1>1, OpenedType
<1>4. opened # <<>>
  BY <1>1, <1>3
<1>5. /\ opened' \in Seq(OpenSides) /\ Len(opened') = n - 1
      /\ \A k \in 1 .. n - 1 : opened'[k] = NowAndTodo(frames'[k])
  BY <1>2, OpenedTypeNext
<1>6. /\ Pop(opened) \in Seq(OpenSides) /\ Len(Pop(opened)) = n - 1
      /\ \A k \in 1 .. n - 1 : Pop(opened)[k] = opened[k]
  BY <1>3, <1>4, PopProperties
<1>7. \A k \in 1 .. n - 1 : opened'[k] = Pop(opened)[k]
  BY <1>1, <1>2, <1>3, <1>5, <1>6
<1>8. opened' = Pop(opened)
  BY <1>5, <1>6, <1>7, SeqEqual
<1> QED BY <1>4, <1>8 DEF Pop

LEMMA TurnOpened ==
  ASSUME TypeOK, TypeOK', frames # <<>>, NEW f \in Frame,
         frames' = [frames EXCEPT ![Len(frames)] = f]
  PROVE  /\ opened # <<>> /\ opened[Len(opened)] = NowAndTodo(Top)
         /\ opened' = [opened EXCEPT ![Len(opened)] = NowAndTodo(f)]
<1>1. PICK n \in Nat, e \in OpenSides :
           n = Len(frames) /\ n # 0 /\ n \in 1 .. n /\ Top = frames[n] /\ e = NowAndTodo(f)
  BY TopFrame, SidesType
<1>2. /\ Len(frames') = n /\ frames'[n] = f
      /\ \A k \in 1 .. n : k # n => frames'[k] = frames[k]
  BY <1>1, ChangeTop
<1>3. /\ opened \in Seq(OpenSides) /\ Len(opened) = n
      /\ \A k \in 1 .. n : opened[k] = NowAndTodo(frames[k])
  BY <1>1, OpenedType
<1>4. /\ opened' \in Seq(OpenSides) /\ Len(opened') = n
      /\ \A k \in 1 .. n : opened'[k] = NowAndTodo(frames'[k])
  BY <1>2, OpenedTypeNext
<1>5. /\ [opened EXCEPT ![n] = e] \in Seq(OpenSides)
      /\ Len([opened EXCEPT ![n] = e]) = n
      /\ \A k \in 1 .. n : [opened EXCEPT ![n] = e][k] = IF k = n THEN e ELSE opened[k]
  BY <1>1, <1>3, ExceptSeq
<1>6. \A k \in 1 .. n : opened'[k] = [opened EXCEPT ![n] = e][k]
  BY <1>1, <1>2, <1>3, <1>4, <1>5
<1>7. opened' = [opened EXCEPT ![n] = e]
  BY <1>4, <1>5, <1>6, SeqEqual
<1> QED BY <1>1, <1>3, <1>7

\* Where a run is, by the activation that executes the other side.
PendingHeap(f) == IF f.side THEN f.orig_heap ELSE f.t_heap

WhereRuns ==
  \A v \in Valuation \ lost :
    /\ v \in Path => ConcreteRun(v) = RunOf(blocks[memory], heap_offset[v], v)
    /\ \A k \in 1 .. Len(frames) : Away(v, k) =>
         ConcreteRun(v) = RunOf(blocks[Pending(frames[k])], PendingHeap(frames[k])[v], v)

LEMMA RunsAreThere == OwnerInv /\ RunInv => WhereRuns
<1> SUFFICES ASSUME OwnerInv, RunInv
             PROVE  WhereRuns
  OBVIOUS
<1>1. Homes /\ Kept
  BY HomesKnown, RunsKept DEF OwnerInv
<1>2. ASSUME NEW v \in Valuation \ lost
      PROVE  ConcreteRun(v) = RunOf(blocks[Home(v)], HomeHeap(v), v)
  BY <1>1 DEF Kept
<1>3. ASSUME NEW v \in Valuation \ lost, NEW k \in 1 .. Len(frames), Away(v, k)
      PROVE  Home(v) = Pending(frames[k]) /\ HomeHeap(v) = PendingHeap(frames[k])[v]
  BY <1>1, <1>3 DEF Homes, PendingHeap
<1>4. ASSUME NEW v \in Valuation \ lost, v \in Path
      PROVE  Home(v) = memory /\ HomeHeap(v) = heap_offset[v]
  BY <1>1, <1>4 DEF Homes
<1>5. ASSUME NEW v \in Valuation \ lost, NEW k \in 1 .. Len(frames), Away(v, k)
      PROVE  ConcreteRun(v) = RunOf(blocks[Pending(frames[k])], PendingHeap(frames[k])[v], v)
  BY <1>2, <1>3, <1>5
<1>6. ASSUME NEW v \in Valuation \ lost, v \in Path
      PROVE  ConcreteRun(v) = RunOf(blocks[memory], heap_offset[v], v)
  BY <1>2, <1>4, <1>6
<1> QED BY <1>5, <1>6 DEF WhereRuns

LEMMA RunsAreThereNext == (OwnerInv /\ RunInv => WhereRuns)'
BY RunsAreThere, PTL

\* The memory another side is kept in is allocated and not the current one.
LEMMA AwayMemory ==
  ASSUME OwnerInv, NEW v \in Valuation, NEW k, Away(v, k)
  PROVE  /\ k \in Forked /\ frames[k] \in Frame
         /\ Pending(frames[k]) \in Live /\ Pending(frames[k]) # memory
<1>1. k \in Forked
  BY DEF Away
<1>2. frames[k] \in Frame
  BY <1>1, HeadTypes DEF OwnerInv, Forked
<1> QED BY <1>1, <1>2 DEF OwnerInv, Distinct

LEMMA EnterSides ==
  ASSUME TypeOK, TypeOK', NEW f \in Frame, f.cond \in Condition,
         f.kind = "forked" => f.side, frames' = Append(frames, f), runs' = runs
  PROVE  Concrete!Enter
<1>1. opened' = Append(opened, NowAndTodo(f))
  BY PushOpened
<1>2. NowAndTodo(f) = [now |-> LitIs(f.cond, f.side), todo |-> LitIs(f.cond, ~f.side)]
  BY DEF NowAndTodo
<1>3. \/ NowAndTodo(f) = [now |-> f.cond, todo |-> Valuation \ f.cond]
      \/ NowAndTodo(f) = [now |-> Valuation \ f.cond, todo |-> f.cond]
  <2>1. CASE f.side = TRUE
    BY <1>2, <2>1 DEF LitIs, LitNot
  <2>2. CASE f.side = FALSE
    BY <1>2, <2>2 DEF LitIs, LitNot
  <2> QED BY <2>1, <2>2 DEF Frame
<1> QED BY <1>1, <1>3 DEF Concrete!Enter

LEMMA OneSidedEnters ==
  ASSUME OwnerInv, StackInv, RunInv, OwnerInv', StackInv',
         NEW kind \in {"direct", "pruned"}, NEW c \in Condition, NEW side \in BOOLEAN,
         frames' = Append(frames, NewFrame(kind, c, side)),
         conditions_stack' = IF kind = "direct" THEN conditions_stack
                             ELSE Append(conditions_stack, LitIs(c, side)),
         kind = "direct" => c = IF side THEN Const1 ELSE Const0,
         kind = "pruned" => Path \cap LitIs(c, ~side) = {},
         UNCHANGED <<memory, blocks, heap_offset, lost>>
  PROVE  RunInv' /\ Concrete!Enter
<1> DEFINE f == NewFrame(kind, c, side)
<1>1. TypeOK /\ TypeOK' /\ c \in Literal
  BY BranchAssumption DEF OwnerInv
<1>2. f \in Frame
  BY <1>1, NewFrameType
<1>3. /\ f.kind = kind /\ f.cond = c /\ f.side = side /\ f.c_head = Len(conditions_stack)
      /\ frames' = Append(frames, f)
  BY DEF NewFrame
<1> HIDE DEF f
<1>4. PICK n \in Nat : n = Len(frames)
  BY <1>1, HeadTypes
<1>5. Constant(f) /\ f.kind # "forked"
  BY <1>3 DEF Constant
<1>6. /\ f.kind = "pruned" => Path \cap LitIs(f.cond, ~f.side) = {}
      /\ conditions_stack' = IF f.kind = "direct" THEN conditions_stack
                             ELSE Append(conditions_stack, LitIs(f.cond, f.side))
  BY <1>3
<1>7. /\ RunInv'
      /\ \A v \in Valuation :
           /\ v \in Path' <=> v \in Path /\ On(f, v)
           /\ \A k \in 1 .. n : Away(v, k)' <=> Away(v, k)
           /\ Away(v, n + 1)' <=> f.kind = "forked" /\ v \in Path /\ ~On(f, v)
  BY <1>1, <1>2, <1>3, <1>4, <1>5, <1>6, PushRuns
<1>8. /\ Len(frames') = n + 1 /\ \A k \in 1 .. n : frames'[k] = frames[k]
      /\ \A k \in 1 .. n + 1 : k \in 1 .. n \/ k = n + 1
      /\ \A k \in 1 .. n : k \in 1 .. n + 1
  BY <1>1, <1>2, <1>3, <1>4, AppendProperties DEF TypeOK
<1>9. WhereRuns /\ WhereRuns'
  BY <1>7, RunsAreThere, RunsAreThereNext
<1>10. ASSUME NEW v \in Valuation
       PROVE  ConcreteRun(v)' = ConcreteRun(v)
  <2>1. CASE v \in lost
    BY <2>1 DEF ConcreteRun
  <2>2. CASE v \notin lost /\ v \in Path'
    BY <1>7, <1>9, <2>2 DEF WhereRuns
  <2>3. CASE v \notin lost /\ v \notin Path'
    <3>1. PICK k \in 1 .. n : Away(v, k)' /\ Away(v, k)
      <4>1. PICK k \in 1 .. n + 1 : Away(v, k)'
        BY <1>7, <1>8, <2>3 DEF RunInv
      <4>2. k # n + 1
        BY <1>5, <1>7, <4>1
      <4> QED BY <1>7, <1>8, <4>1, <4>2
    <3>2. frames'[k] = frames[k]
      BY <1>8
    <3>3. ConcreteRun(v) = RunOf(blocks[Pending(frames[k])], PendingHeap(frames[k])[v], v)
      BY <1>4, <1>9, <2>3, <3>1 DEF WhereRuns
    <3>4. ConcreteRun(v)' = RunOf(blocks[Pending(frames[k])], PendingHeap(frames[k])[v], v)
      BY <1>8, <1>9, <2>3, <3>1, <3>2 DEF WhereRuns, Pending, PendingHeap
    <3> QED BY <3>3, <3>4
  <2> QED BY <2>1, <2>2, <2>3
<1>11. runs' = runs
  BY <1>10 DEF runs
<1> QED BY <1>1, <1>2, <1>3, <1>5, <1>7, <1>11, EnterSides

LEMMA ForkEnters ==
  ASSUME OwnerInv, StackInv, RunInv, OwnerInv', StackInv', NEW c \in Condition,
         BranchForked(c)
  PROVE  RunInv' /\ Concrete!Enter
<1>1. PICK t \in Handle \ Live, g \in Handle \ Live :
         /\ t # g
         /\ blocks' = [blocks EXCEPT ![t] = blocks[memory], ![g] = blocks[memory]]
         /\ memory' = t
         /\ frames' = Append(frames, [NewFrame("forked", c, TRUE) EXCEPT
                                        !.orig = memory, !.copy_t = t, !.copy_f = g])
  BY DEF BranchForked
<1> DEFINE f == [NewFrame("forked", c, TRUE) EXCEPT
                   !.orig = memory, !.copy_t = t, !.copy_f = g]
<1>2. TypeOK /\ TypeOK' /\ c \in Literal
  BY BranchAssumption DEF OwnerInv
<1>3. f \in Frame
  <2>1. NewFrame("forked", c, TRUE) \in Frame /\ memory \in Handle
    BY <1>2, NewFrameType DEF TypeOK
  <2> QED BY <2>1 DEF Frame
<1>4. /\ f.c_head = Len(conditions_stack) /\ f.kind = "forked" /\ f.cond = c /\ f.side = TRUE
      /\ f.copy_f = g /\ f.orig_heap = heap_offset
  BY DEF NewFrame
<1>5. /\ frames' = Append(frames, f)
      /\ conditions_stack' = Append(conditions_stack, LitIs(c, TRUE))
      /\ UNCHANGED <<heap_offset, lost>>
  BY <1>1 DEF BranchForked
<1> HIDE DEF f
<1>6. PICK n \in Nat : n = Len(frames)
  BY <1>2, HeadTypes
<1>7. Constant(f)
  BY <1>4 DEF Constant
<1>8. conditions_stack' = IF f.kind = "direct" THEN conditions_stack
                          ELSE Append(conditions_stack, LitIs(f.cond, f.side))
  BY <1>4, <1>5
<1>9. /\ RunInv'
      /\ \A v \in Valuation :
           /\ v \in Path' <=> v \in Path /\ On(f, v)
           /\ \A k \in 1 .. n : Away(v, k)' <=> Away(v, k)
           /\ Away(v, n + 1)' <=> f.kind = "forked" /\ v \in Path /\ ~On(f, v)
  BY <1>2, <1>3, <1>4, <1>5, <1>6, <1>7, <1>8, PushRuns
<1>10. /\ Len(frames') = n + 1 /\ \A k \in 1 .. n : frames'[k] = frames[k]
       /\ frames'[n + 1] = f /\ n + 1 \in 1 .. n + 1
       /\ \A k \in 1 .. n : k \in 1 .. n + 1
  BY <1>2, <1>3, <1>5, <1>6, AppendProperties DEF TypeOK
<1>11. WhereRuns /\ WhereRuns'
  BY <1>9, RunsAreThere, RunsAreThereNext
<1>12. /\ blocks'[t] = blocks[memory] /\ blocks'[g] = blocks[memory]
       /\ \A h \in Live : blocks'[h] = blocks[h]
  <2>1. memory \in Handle /\ Live \subseteq Handle /\ blocks \in [Handle -> Block \cup {Freed}]
    BY <1>2 DEF TypeOK, Live
  <2> QED BY <1>1, <2>1
<1>13. ASSUME NEW v \in Valuation
       PROVE  ConcreteRun(v)' = ConcreteRun(v)
  <2>1. CASE v \in lost
    BY <1>5, <2>1 DEF ConcreteRun
  <2>2. CASE v \notin lost /\ v \in Path
    <3>1. ConcreteRun(v) = RunOf(blocks[memory], heap_offset[v], v)
      BY <1>11, <2>2 DEF WhereRuns
    <3>2. CASE On(f, v)
      BY <1>1, <1>5, <1>9, <1>11, <1>12, <2>2, <3>1, <3>2 DEF WhereRuns
    <3>3. CASE ~On(f, v)
      <4>1. Away(v, n + 1)'
        BY <1>4, <1>9, <2>2, <3>3
      <4>2. ConcreteRun(v)' = RunOf(blocks'[Pending(f)], PendingHeap(f)[v], v)
        BY <1>5, <1>10, <1>11, <2>2, <4>1 DEF WhereRuns, Pending, PendingHeap
      <4>3. Pending(f) = g /\ PendingHeap(f) = heap_offset
        BY <1>4 DEF Pending, PendingHeap
      <4> QED BY <1>12, <3>1, <4>2, <4>3
    <3> QED BY <3>2, <3>3
  <2>3. CASE v \notin lost /\ v \notin Path
    <3>1. PICK k \in 1 .. n : Away(v, k)
      BY <1>6, <2>3 DEF RunInv
    <3>2. Away(v, k)' /\ frames'[k] = frames[k] /\ blocks'[Pending(frames[k])] = blocks[Pending(frames[k])]
      BY <1>9, <1>10, <1>12, <3>1, AwayMemory
    <3>3. ConcreteRun(v) = RunOf(blocks[Pending(frames[k])], PendingHeap(frames[k])[v], v)
      BY <1>6, <1>11, <2>3, <3>1 DEF WhereRuns
    <3>4. ConcreteRun(v)' = RunOf(blocks'[Pending(frames[k])], PendingHeap(frames[k])[v], v)
      BY <1>5, <1>10, <1>11, <2>3, <3>2 DEF WhereRuns, Pending, PendingHeap
    <3> QED BY <3>2, <3>3, <3>4
  <2> QED BY <2>1, <2>2, <2>3
<1>14. runs' = runs
  BY <1>13 DEF runs
<1> QED BY <1>2, <1>3, <1>4, <1>5, <1>9, <1>14, EnterSides

\* The branch callback returns: nothing moves.
LEMMA CutRests ==
  ASSUME OwnerInv, StackInv, RunInv, OwnerInv', StackInv', BranchToCut
  PROVE  RunInv' /\ UNCHANGED <<runs, opened>>
<1> DEFINE f == [Top EXCEPT !.stage = "cut"]
<1>1. TypeOK /\ TypeOK' /\ frames # <<>>
  BY DEF OwnerInv, BranchToCut, InStage
<1>2. PICK n \in Nat : n = Len(frames) /\ n \in 1 .. n /\ Top = frames[n] /\ Top \in Frame
  BY <1>1, TopFrame
<1>3. /\ f \in Frame /\ f.kind = Top.kind /\ f.c_head = Top.c_head
      /\ f.cond = Top.cond /\ f.side = Top.side
      /\ Pending(f) = Pending(Top) /\ PendingHeap(f) = PendingHeap(Top)
  BY <1>2 DEF Frame, Pending, PendingHeap
<1>4. /\ frames' = [frames EXCEPT ![Len(frames)] = f]
      /\ UNCHANGED <<memory, blocks, heap_offset, conditions_stack, lost>>
  BY DEF BranchToCut, Top
<1> HIDE DEF f
<1>5. /\ \A v \in Valuation : v \in Path <=> v \in PathBefore(n) /\ On(Top, v)
      /\ Path' = Path
  <2>1. Path' = Path
    BY <1>4 DEF Path
  <2>2. \A k : k \in 1 .. n <=> k \in 1 .. n - 1 \/ k = n
    BY <1>2
  <2>3. ASSUME NEW v \in Valuation
        PROVE  v \in Path <=> v \in PathBefore(n) /\ On(Top, v)
    <3>1. /\ v \in PathBefore(n) <=> \A j \in 1 .. n - 1 : On(frames[j], v)
          /\ v \in Path <=> \A j \in 1 .. n : On(frames[j], v)
      BY <1>2 DEF RunInv
    <3> QED BY <1>2, <2>2, <3>1
  <2> QED BY <2>1, <2>3
<1>6. \A v \in Valuation : v \in Path' <=> v \in PathBefore(n) /\ On(f, v)
  BY <1>3, <1>5 DEF On
<1>7. /\ RunInv' /\ frames'[n] = f
      /\ \A k \in 1 .. n - 1 : frames'[k] = frames[k]
      /\ \A v \in Valuation :
           /\ v \in PathBefore(n) <=> v \in Path \/ Away(v, n)
           /\ v \notin PathBefore(n) => \E k \in 1 .. n - 1 : Away(v, k)
           /\ \A k \in 1 .. n - 1 : Away(v, k)' <=> Away(v, k)
           /\ Away(v, n)' <=> f.kind = "forked" /\ v \in PathBefore(n) /\ ~On(f, v)
  <2>1. TypeOK /\ TypeOK' /\ frames # <<>> /\ f \in Frame /\ n = Len(frames)
    BY <1>1, <1>2, <1>3
  <2>2. /\ frames' = [frames EXCEPT ![Len(frames)] = f]
        /\ \A i \in 1 .. Top.c_head : conditions_stack'[i] = conditions_stack[i]
    BY <1>4
  <2>3. /\ f.c_head = Top.c_head /\ f.kind = Top.kind /\ f.cond = Top.cond
        /\ f.kind # "forked" => f.side = Top.side
    BY <1>3
  <2> QED BY <1>6, <2>1, <2>2, <2>3, TurnRuns, ZenonT(60)
<1>8. Len(frames') = n /\ \A k \in 1 .. n - 1 : k \in 1 .. n
  BY <1>1, <1>2, <1>3, <1>4, ChangeTop
<1>9. WhereRuns /\ WhereRuns'
  BY <1>7, RunsAreThere, RunsAreThereNext
<1>10. ASSUME NEW v \in Valuation
       PROVE  ConcreteRun(v)' = ConcreteRun(v)
  <2>1. CASE v \in lost
    BY <1>4, <2>1 DEF ConcreteRun
  <2>2. CASE v \notin lost /\ v \in Path
    BY <1>4, <1>5, <1>9, <2>2 DEF WhereRuns
  <2>3. CASE v \notin lost /\ v \notin Path
    <3>1. PICK k \in 1 .. n : /\ Away(v, k) /\ Away(v, k)'
                              /\ Pending(frames'[k]) = Pending(frames[k])
                              /\ PendingHeap(frames'[k]) = PendingHeap(frames[k])
      <4>1. CASE v \in PathBefore(n)
        <5>1. Away(v, n)
          BY <1>7, <2>3, <4>1
        <5>2. Away(v, n)'
          <6>1. f.kind = "forked" /\ ~On(f, v)
            BY <1>2, <1>3, <5>1 DEF Away, Forked, On
          <6> QED BY <1>7, <4>1, <6>1
        <5> QED BY <1>2, <1>3, <1>7, <5>1, <5>2
      <4>2. CASE v \notin PathBefore(n)
        BY <1>7, <1>8, <4>2
      <4> QED BY <4>1, <4>2
    <3>2. ConcreteRun(v) = RunOf(blocks[Pending(frames[k])], PendingHeap(frames[k])[v], v)
      BY <1>2, <1>9, <2>3, <3>1 DEF WhereRuns
    <3>3. ConcreteRun(v)' = RunOf(blocks[Pending(frames'[k])], PendingHeap(frames'[k])[v], v)
      BY <1>4, <1>8, <1>9, <2>3, <3>1 DEF WhereRuns, Pending, PendingHeap
    <3> QED BY <3>1, <3>2, <3>3
  <2> QED BY <2>1, <2>2, <2>3
<1>11. opened' = opened
  <2>1. NowAndTodo(f) = NowAndTodo(Top)
    BY <1>3 DEF NowAndTodo
  <2>2. opened' = [opened EXCEPT ![Len(opened)] = opened[Len(opened)]]
    BY <1>1, <1>3, <1>4, <2>1, TurnOpened
  <2> QED BY <1>1, <2>2, OpenedType
<1> QED BY <1>7, <1>10, <1>11 DEF runs

\* The true side's runs wait in its result, the false side's go on in the
\* copy that waited for them.
LEMMA SideSwitches ==
  ASSUME OwnerInv, StackInv, RunInv, OwnerInv', StackInv', TrueSideDone
  PROVE  RunInv' /\ Concrete!Switch
<1> DEFINE f == [Top EXCEPT !.side = FALSE, !.stage = "branch",
                            !.t_result = memory, !.t_heap = heap_offset,
                            !.t_error = branch_error]
<1>1. /\ TypeOK /\ TypeOK' /\ frames # <<>> /\ Top.kind = "forked" /\ Top.side
  BY DEF OwnerInv, TrueSideDone, SwitchSides, InStage
<1>2. PICK n \in Nat : n = Len(frames) /\ n \in 1 .. n /\ Top = frames[n] /\ Top \in Frame
  BY <1>1, TopFrame
<1>3. /\ f \in Frame /\ f.kind = "forked" /\ f.c_head = Top.c_head
      /\ f.cond = Top.cond /\ f.side = FALSE
      /\ Pending(f) = memory /\ PendingHeap(f) = heap_offset
  BY <1>1, <1>2 DEF Frame, TypeOK, Pending, PendingHeap
<1>4. /\ frames' = [frames EXCEPT ![Len(frames)] = f]
      /\ conditions_stack' = Append(Pop(conditions_stack), LitIs(Top.cond, FALSE))
      /\ memory' = Top.copy_f /\ heap_offset' = Top.orig_heap
      /\ UNCHANGED <<blocks, lost>>
  BY DEF TrueSideDone, SwitchSides, Top
<1> HIDE DEF f
<1>5. /\ \A i \in 1 .. Top.c_head : conditions_stack'[i] = conditions_stack[i]
      /\ Path' = PathBefore(n) \cap LitIs(Top.cond, FALSE)
  BY <1>1, <1>2, <1>4, TurnConditions DEF Frame
<1>6. \A v \in Valuation : v \in Path' <=> v \in PathBefore(n) /\ On(f, v)
  BY <1>3, <1>5 DEF On
<1>6a. /\ f.c_head = Top.c_head /\ f.kind = Top.kind /\ f.cond = Top.cond
       /\ f.kind # "forked" => f.side = Top.side
  BY <1>1, <1>3
<1>7. /\ RunInv' /\ frames'[n] = f
      /\ \A k \in 1 .. n - 1 : frames'[k] = frames[k]
      /\ \A v \in Valuation :
           /\ v \in PathBefore(n) <=> v \in Path \/ Away(v, n)
           /\ v \notin PathBefore(n) => \E k \in 1 .. n - 1 : Away(v, k)
           /\ \A k \in 1 .. n - 1 : Away(v, k)' <=> Away(v, k)
           /\ Away(v, n)' <=> f.kind = "forked" /\ v \in PathBefore(n) /\ ~On(f, v)
  <2>1. TypeOK /\ TypeOK' /\ frames # <<>> /\ f \in Frame /\ n = Len(frames)
    BY <1>1, <1>2, <1>3
  <2>2. /\ frames' = [frames EXCEPT ![Len(frames)] = f]
        /\ \A i \in 1 .. Top.c_head : conditions_stack'[i] = conditions_stack[i]
    BY <1>4, <1>5
  <2> QED BY <1>6, <1>6a, <2>1, <2>2, TurnRuns
<1>8. Len(frames') = n /\ \A k \in 1 .. n - 1 : k \in 1 .. n
  BY <1>1, <1>2, <1>3, <1>4, ChangeTop
<1>9. WhereRuns /\ WhereRuns'
  BY <1>7, RunsAreThere, RunsAreThereNext
<1>10. ASSUME NEW v \in Valuation
       PROVE  On(Top, v) <=> ~On(f, v)
  BY <1>1, <1>2, <1>3 DEF On, LitIs, LitNot, Frame
<1>11. \A v \in Valuation : v \in Path <=> v \in PathBefore(n) /\ On(Top, v)
  <2>1. Path = PathBefore(n) \cap LitIs(Top.cond, Top.side)
    BY <1>1, <1>2, PathOfTop
  <2> QED BY <2>1 DEF On
<1>12. ASSUME NEW v \in Valuation
       PROVE  ConcreteRun(v)' = ConcreteRun(v)
  <2>1. CASE v \in lost
    BY <1>4, <2>1 DEF ConcreteRun
  <2>2. CASE v \notin lost /\ v \in PathBefore(n) /\ On(Top, v)
    <3>1. ConcreteRun(v) = RunOf(blocks[memory], heap_offset[v], v)
      BY <1>9, <1>11, <2>2 DEF WhereRuns
    <3>2. Away(v, n)'
      BY <1>3, <1>7, <1>10, <2>2
    <3>3. ConcreteRun(v)' = RunOf(blocks[Pending(f)], PendingHeap(f)[v], v)
      BY <1>2, <1>4, <1>7, <1>8, <1>9, <2>2, <3>2 DEF WhereRuns, Pending, PendingHeap
    <3> QED BY <1>3, <3>1, <3>3
  <2>3. CASE v \notin lost /\ v \in PathBefore(n) /\ ~On(Top, v)
    <3>1. Away(v, n)
      BY <1>7, <1>11, <2>3
    <3>2. ConcreteRun(v) = RunOf(blocks[Pending(Top)], PendingHeap(Top)[v], v)
      BY <1>2, <1>9, <2>3, <3>1 DEF WhereRuns
    <3>3. v \in Path'
      BY <1>6, <1>10, <2>3
    <3>4. ConcreteRun(v)' = RunOf(blocks[Top.copy_f], Top.orig_heap[v], v)
      BY <1>4, <1>9, <2>3, <3>3 DEF WhereRuns
    <3> QED BY <1>1, <3>2, <3>4 DEF Pending, PendingHeap
  <2>4. CASE v \notin lost /\ v \notin PathBefore(n)
    <3>1. PICK k \in 1 .. n - 1 : Away(v, k) /\ Away(v, k)'
      BY <1>7, <2>4
    <3>2. ConcreteRun(v) = RunOf(blocks[Pending(frames[k])], PendingHeap(frames[k])[v], v)
      BY <1>2, <1>8, <1>9, <2>4, <3>1 DEF WhereRuns
    <3>3. ConcreteRun(v)' = RunOf(blocks[Pending(frames[k])], PendingHeap(frames[k])[v], v)
      BY <1>4, <1>7, <1>8, <1>9, <2>4, <3>1 DEF WhereRuns, Pending, PendingHeap
    <3> QED BY <3>2, <3>3
  <2> QED BY <2>1, <2>2, <2>3, <2>4
<1>13. /\ opened # <<>> /\ opened[Len(opened)] = NowAndTodo(Top)
       /\ opened' = [opened EXCEPT ![Len(opened)] = NowAndTodo(f)]
  BY <1>1, <1>3, <1>4, TurnOpened
<1>14. NowAndTodo(f) = [now |-> NowAndTodo(Top).todo, todo |-> {}]
  BY <1>1, <1>3 DEF NowAndTodo, LitIs
<1>15. runs' = runs
  BY <1>12 DEF runs
<1> QED BY <1>7, <1>13, <1>14, <1>15 DEF Concrete!Switch

(***************************************************************************)
(* The end of a conditional: no run on the path before it still waits, and *)
(* each has what it had written.                                           *)
(***************************************************************************)
LEMMA LeaveSides ==
  ASSUME OwnerInv, RunInv, OwnerInv', RunInv', frames # <<>>, frames' = Pop(frames),
         PathBefore(Len(frames)) \cap NowAndTodo(Top).todo = {}, UNCHANGED lost,
         \A v \in Valuation \ lost :
           /\ runs'[v].heap = runs[v].heap
           /\ \A i \in Offset : runs[v].cell[i] # Unwritten
                                  => runs'[v].cell[i] = runs[v].cell[i]
  PROVE  Concrete!Leave
<1>1. TypeOK /\ TypeOK' /\ Opened /\ Kept /\ Kept'
  BY SidesOpen, RunsKept, RunsKeptNext DEF OwnerInv
<1>2. opened # <<>> /\ opened' = SubSeq(opened, 1, Len(opened) - 1)
  BY <1>1, PopOpened
<1>3. opened[Len(opened)] = NowAndTodo(Top)
  BY <1>1, OpenedType, TopFrame
<1>4. Concrete!OnPath(Len(opened) - 1) = PathBefore(Len(frames))
  BY <1>1 DEF Opened
<1>5. Concrete!Going \cap Concrete!OnPath(Len(opened) - 1) \cap opened[Len(opened)].todo = {}
  BY <1>3, <1>4
<1>6. \A v \in Valuation : (runs[v] = GivenUp <=> v \in lost) /\ (runs'[v] = GivenUp <=> v \in lost)
  BY <1>1 DEF Kept, runs
<1> QED BY <1>2, <1>5, <1>6 DEF Concrete!Leave

LEMMA OneSidedLeaves ==
  ASSUME OwnerInv, StackInv, RunInv, PathInv, OwnerInv', StackInv',
         frames # <<>>, Top.kind # "forked", ReturnOneSided
  PROVE  RunInv' /\ Concrete!Leave
<1>1. TypeOK /\ TypeOK'
  BY DEF OwnerInv
<1>2. PICK n \in Nat : /\ n = Len(frames) /\ n \in 1 .. n /\ n # 0
                       /\ Top = frames[n] /\ Top \in Frame
  BY <1>1, TopFrame
<1>3. Top.kind \in {"direct", "pruned"}
  BY <1>2 DEF Frame
<1>4. /\ frames' = Pop(frames)
      /\ conditions_stack' = IF Top.kind = "direct" THEN conditions_stack
                                                    ELSE Pop(conditions_stack)
      /\ UNCHANGED <<memory, blocks, heap_offset, lost>>
  BY <1>3 DEF ReturnOneSided
<1>5. /\ RunInv' /\ Forked' = Forked \ {n}
      /\ \A k \in 1 .. n - 1 : frames'[k] = frames[k]
      /\ \A v \in Valuation :
              /\ v \in Path' <=> v \in PathBefore(n)
              /\ v \in Path <=> v \in PathBefore(n) /\ On(Top, v)
              /\ v \in PathBefore(n) => v \in Path \/ Away(v, n)
              /\ v \notin PathBefore(n) => \E k \in 1 .. n - 1 : Away(v, k)
              /\ \A k \in 1 .. n - 1 : Away(v, k)' <=> Away(v, k)
  BY <1>1, <1>2, <1>4, PopRuns
<1>6. WhereRuns /\ WhereRuns'
  BY <1>5, RunsAreThere, RunsAreThereNext
<1>7. Len(frames') = n - 1 /\ \A k \in 1 .. n - 1 : k \in 1 .. n
  BY <1>1, <1>2, <1>4, PopFrames
<1>8. ASSUME NEW v \in Valuation
      PROVE  ConcreteRun(v)' = ConcreteRun(v)
  <2>1. CASE v \in lost
    BY <1>4, <2>1 DEF ConcreteRun
  <2>2. CASE v \notin lost /\ v \in PathBefore(n)
    <3>1. ~Away(v, n)
      BY <1>2 DEF Away, Forked
    <3> QED BY <1>4, <1>5, <1>6, <2>2, <3>1 DEF WhereRuns
  <2>3. CASE v \notin lost /\ v \notin PathBefore(n)
    <3>1. PICK k \in 1 .. n - 1 : Away(v, k) /\ Away(v, k)'
      BY <1>5, <2>3
    <3>2. ConcreteRun(v) = RunOf(blocks[Pending(frames[k])], PendingHeap(frames[k])[v], v)
      BY <1>2, <1>6, <1>7, <2>3, <3>1 DEF WhereRuns
    <3>3. ConcreteRun(v)' = RunOf(blocks[Pending(frames[k])], PendingHeap(frames[k])[v], v)
      BY <1>4, <1>5, <1>6, <1>7, <2>3, <3>1 DEF WhereRuns, Pending, PendingHeap
    <3> QED BY <3>2, <3>3
  <2> QED BY <2>1, <2>2, <2>3
<1>9. PathBefore(n) \cap NowAndTodo(Top).todo = {}
  <2>1. NowAndTodo(Top).todo = LitIs(Top.cond, ~Top.side)
    BY DEF NowAndTodo
  <2>2. CASE Top.kind = "direct"
    <3>1. \A k \in 1 .. Len(frames) : Constant(frames[k])
      BY DEF RunInv
    <3>2. Constant(Top)
      BY <1>2, <3>1
    <3>3. NowAndTodo(Top).todo = {}
      BY <1>2, <2>1, <2>2, <3>2, ConstantSide
    <3> QED BY <3>3
  <2>3. CASE Top.kind = "pruned"
    <3>1. FrameErrors(PathBefore(n), Top, lost)
      BY <1>2 DEF PathInv
    <3> QED BY <2>1, <2>3, <3>1 DEF FrameErrors
  <2> QED BY <1>3, <2>2, <2>3
<1>10. runs' = runs
  BY <1>8 DEF runs
<1> QED BY <1>2, <1>4, <1>5, <1>9, <1>10, LeaveSides

(***************************************************************************)
(* The end of a fork.  The registers kept for the run on v are those of    *)
(* block B and its heap offset is h.                                       *)
(***************************************************************************)
Keeps(v, B, h) ==
  /\ heap_offset'[v] = h
  /\ \A i \in Offset : RunOf(B, h, v).cell[i] # Unwritten
       => RunOf(blocks'[memory'], h, v).cell[i] = RunOf(B, h, v).cell[i]

LEMMA ForkTop ==
  ASSUME OwnerInv, StackInv, RunInv, PathInv, FalseSideDone
  PROVE  /\ TypeOK /\ frames # <<>> /\ Len(frames) \in Forked /\ Top = frames[Len(frames)]
         /\ Top \in Frame /\ Top.kind = "forked" /\ Top.side = FALSE
         /\ Pending(Top) = Top.t_result /\ PendingHeap(Top) = Top.t_heap
         /\ frames' = Pop(frames) /\ conditions_stack' = Pop(conditions_stack)
         /\ UNCHANGED lost
         /\ Top.orig \in Live /\ Top.t_result \in Live /\ memory \in Live
         /\ Top.orig # memory /\ Top.t_result # memory /\ Top.orig # Top.t_result
         /\ Path = PathBefore(Len(frames)) \ Top.cond
         /\ Top.t_error = 1 => PathBefore(Len(frames)) \cap Top.cond \subseteq lost
         /\ branch_error = 1 => PathBefore(Len(frames)) \ Top.cond \subseteq lost
<1>1. TypeOK /\ frames # <<>> /\ Top.kind = "forked" /\ ~Top.side
  BY DEF OwnerInv, FalseSideDone, InStage
<1>2. Len(frames) \in 1 .. Len(frames) /\ Top = frames[Len(frames)] /\ Top \in Frame
  BY <1>1, TopFrame
<1>3. Top.side = FALSE /\ Top.cond \in Literal
  BY <1>1, <1>2 DEF Frame
<1>4. Len(frames) \in Forked
  BY <1>1, <1>2 DEF Forked
<1>5. Pending(Top) = Top.t_result /\ PendingHeap(Top) = Top.t_heap
  BY <1>3 DEF Pending, PendingHeap
<1>6. /\ Top.orig \in Live /\ Top.t_result \in Live /\ memory \in Live
      /\ Top.orig # memory /\ Top.t_result # memory /\ Top.orig # Top.t_result
  BY <1>2, <1>4, <1>5 DEF OwnerInv, Distinct
<1>7. Path = PathBefore(Len(frames)) \ Top.cond
  <2>1. Path = PathBefore(Len(frames)) \cap LitIs(Top.cond, FALSE)
    BY <1>1, <1>3, PathOfTop
  <2> QED BY <2>1 DEF LitIs, LitNot, PathBefore
<1>8. Top.t_error = 1 => PathBefore(Len(frames)) \cap Top.cond \subseteq lost
  BY <1>1, <1>2 DEF PathInv, FrameErrors
<1>9. branch_error = 1 => PathBefore(Len(frames)) \ Top.cond \subseteq lost
  BY <1>7 DEF PathInv
<1>10. /\ frames' = Pop(frames) /\ conditions_stack' = Pop(conditions_stack)
       /\ UNCHANGED lost
  BY DEF FalseSideDone
<1> QED BY <1>1, <1>2, <1>3, <1>4, <1>5, <1>6, <1>7, <1>8, <1>9, <1>10

LEMMA ForkLeaves ==
  ASSUME OwnerInv, StackInv, RunInv, PathInv, OwnerInv', StackInv', FalseSideDone,
         \A h \in Live \ {Top.orig, Top.t_result, memory} : blocks'[h] = blocks[h],
         \A v \in PathBefore(Len(frames)) \ lost :
           IF v \in Top.cond THEN Keeps(v, blocks[Top.t_result], Top.t_heap[v])
                             ELSE Keeps(v, blocks[memory], heap_offset[v])
  PROVE  RunInv' /\ Concrete!Leave
<1>1. /\ TypeOK /\ TypeOK' /\ frames # <<>>
      /\ Top \in Frame /\ Top.kind = "forked" /\ Top.side = FALSE
      /\ frames' = Pop(frames) /\ conditions_stack' = Pop(conditions_stack)
      /\ UNCHANGED lost
  BY ForkTop DEF OwnerInv
<1>2. PICK n \in Nat : n = Len(frames) /\ n \in 1 .. n /\ n # 0 /\ n \in Forked /\ Top = frames[n]
  BY <1>1, ForkTop, TopFrame
<1>3. conditions_stack' = IF Top.kind = "direct" THEN conditions_stack
                                                 ELSE Pop(conditions_stack)
  BY <1>1
<1>4. /\ RunInv' /\ Forked' = Forked \ {n}
      /\ \A k \in 1 .. n - 1 : frames'[k] = frames[k]
      /\ \A v \in Valuation :
              /\ v \in Path' <=> v \in PathBefore(n)
              /\ v \in Path <=> v \in PathBefore(n) /\ On(Top, v)
              /\ v \in PathBefore(n) => v \in Path \/ Away(v, n)
              /\ v \notin PathBefore(n) => \E k \in 1 .. n - 1 : Away(v, k)
              /\ \A k \in 1 .. n - 1 : Away(v, k)' <=> Away(v, k)
  BY <1>1, <1>2, <1>3, PopRuns
<1>5. WhereRuns /\ WhereRuns'
  BY <1>4, RunsAreThere, RunsAreThereNext
<1>6. Len(frames') = n - 1 /\ \A k \in 1 .. n - 1 : k \in 1 .. n
  BY <1>1, <1>2, PopFrames
<1>7. ASSUME NEW v \in PathBefore(n) \ lost
      PROVE  /\ ConcreteRun(v)'.heap = ConcreteRun(v).heap
             /\ \A i \in Offset : ConcreteRun(v).cell[i] # Unwritten
                  => ConcreteRun(v)'.cell[i] = ConcreteRun(v).cell[i]
  <2>1. v \in Valuation /\ v \in Path' /\ v \in Valuation \ lost'
    BY <1>1, <1>4 DEF PathBefore
  <2>2. ConcreteRun(v)' = RunOf(blocks'[memory'], heap_offset'[v], v)
    BY <1>5, <2>1 DEF WhereRuns
  <2>3. ASSUME NEW B, NEW h, Keeps(v, B, h), ConcreteRun(v) = RunOf(B, h, v)
        PROVE  /\ ConcreteRun(v)'.heap = ConcreteRun(v).heap
               /\ \A i \in Offset : ConcreteRun(v).cell[i] # Unwritten
                    => ConcreteRun(v)'.cell[i] = ConcreteRun(v).cell[i]
    <3>1. RunOf(B, h, v).heap = h /\ RunOf(blocks'[memory'], h, v).heap = h
      BY DEF RunOf
    <3> QED BY <2>2, <2>3, <3>1 DEF Keeps
  <2>4. CASE v \in Top.cond
    <3>1. v \notin Path
      BY <1>2, <2>4, ForkTop
    <3>2. Away(v, n)
      BY <1>4, <2>1, <3>1
    <3>3. ConcreteRun(v) = RunOf(blocks[Top.t_result], Top.t_heap[v], v)
      BY <1>2, <1>5, <2>1, <3>2, ForkTop DEF WhereRuns
    <3> QED BY <1>2, <2>3, <2>4, <3>3
  <2>5. CASE v \notin Top.cond
    <3>1. v \in Path
      BY <1>2, <2>5, ForkTop
    <3>2. ConcreteRun(v) = RunOf(blocks[memory], heap_offset[v], v)
      BY <1>5, <2>1, <3>1 DEF WhereRuns
    <3> QED BY <1>2, <2>3, <2>5, <3>2
  <2> QED BY <2>4, <2>5
<1>8. ASSUME NEW v \in Valuation \ lost, v \notin PathBefore(n)
      PROVE  ConcreteRun(v)' = ConcreteRun(v)
  <2>1. PICK k \in 1 .. n - 1 : Away(v, k) /\ Away(v, k)'
    BY <1>4, <1>8
  <2>2. ConcreteRun(v) = RunOf(blocks[Pending(frames[k])], PendingHeap(frames[k])[v], v)
    BY <1>2, <1>5, <1>6, <2>1 DEF WhereRuns
  <2>3. ConcreteRun(v)' = RunOf(blocks'[Pending(frames[k])], PendingHeap(frames[k])[v], v)
    BY <1>1, <1>4, <1>5, <1>6, <2>1 DEF WhereRuns, Pending, PendingHeap
  <2>4. Pending(frames[k]) \in Live /\ Pending(frames[k]) # memory /\ k \in Forked /\ k # n
    BY <1>2, <2>1, AwayMemory
  <2>5. Pending(frames[k]) # Top.orig /\ Pending(frames[k]) # Top.t_result
    <3>1. Pending(frames[n]) = Top.t_result /\ frames[n].orig = Top.orig
      BY <1>2, ForkTop
    <3> QED BY <1>2, <2>4, <3>1 DEF OwnerInv, Distinct
  <2> QED BY <2>2, <2>3, <2>4, <2>5
<1>9. \A v \in Valuation \ lost :
        /\ runs'[v].heap = runs[v].heap
        /\ \A i \in Offset : runs[v].cell[i] # Unwritten
                               => runs'[v].cell[i] = runs[v].cell[i]
  BY <1>7, <1>8 DEF runs
<1>10. NowAndTodo(Top).todo = {}
  BY <1>1 DEF NowAndTodo
<1>11. PathBefore(Len(frames)) \cap NowAndTodo(Top).todo = {}
  BY <1>10
<1> QED BY <1>1, <1>4, <1>9, <1>11, LeaveSides

LEMMA KeepsSame ==
  ASSUME NEW v, NEW B, NEW h, heap_offset'[v] = h, blocks'[memory'] = B
  PROVE  Keeps(v, B, h)
BY DEF Keeps

LEMMA ForkEnds ==
  ASSUME OwnerInv, StackInv, RunInv, PathInv, OwnerInv', StackInv',
         KeepNeither \/ KeepFalse \/ KeepTrue \/ Merge
  PROVE  RunInv' /\ Concrete!Leave
<1>1. FalseSideDone
  BY DEF KeepNeither, KeepFalse, KeepTrue, Merge
<1>2. /\ TypeOK /\ Live \subseteq Handle
      /\ {Top.orig, Top.t_result, memory} \subseteq Live
      /\ Top.orig # memory /\ Top.t_result # memory /\ Top.orig # Top.t_result
      /\ blocks \in [Handle -> Block \cup {Freed}]
  BY <1>1, ForkTop DEF TypeOK, Live
<1>3. \A h \in Live \ {Top.orig, Top.t_result, memory} : blocks'[h] = blocks[h]
  BY <1>2 DEF KeepNeither, KeepFalse, KeepTrue, Merge, free
<1>4. ASSUME NEW v \in PathBefore(Len(frames)) \ lost
      PROVE  IF v \in Top.cond THEN Keeps(v, blocks[Top.t_result], Top.t_heap[v])
                               ELSE Keeps(v, blocks[memory], heap_offset[v])
  <2>1. /\ v \in Top.cond => Top.t_error # 1
        /\ v \notin Top.cond => branch_error # 1
    BY <1>1, ForkTop
  <2>2. CASE KeepNeither
    BY <2>1, <2>2 DEF KeepNeither
  <2>3. CASE KeepFalse
    <3>1. v \notin Top.cond
      BY <2>1, <2>3 DEF KeepFalse
    <3>2. heap_offset'[v] = heap_offset[v] /\ blocks'[memory'] = blocks[memory]
      BY <1>2, <2>3 DEF KeepFalse, free
    <3> QED BY <3>1, <3>2, KeepsSame
  <2>4. CASE KeepTrue
    <3>1. v \in Top.cond
      BY <2>1, <2>4 DEF KeepTrue
    <3>2. heap_offset'[v] = Top.t_heap[v] /\ blocks'[memory'] = blocks[Top.t_result]
      BY <1>2, <2>4 DEF KeepTrue, free
    <3> QED BY <3>1, <3>2, KeepsSame
  <2>5. CASE Merge
    <3>1. v \in Valuation /\ Top.cond \in Literal
      BY <1>1, ForkTop DEF PathBefore, Frame
    <3>2. /\ blocks'[memory'] = cMemory_ite(Top.cond, blocks[Top.t_result], blocks[memory])
          /\ heap_offset' = vec_ite(Top.cond, Top.t_heap, heap_offset)
      BY <1>2, <2>5 DEF Merge, free
    <3>3. heap_offset'[v] = IF v \in Top.cond THEN Top.t_heap[v] ELSE heap_offset[v]
      BY <3>1, <3>2 DEF vec_ite
    <3>4. blocks[Top.t_result] \in Block /\ blocks[memory] \in Block
      BY <1>2, LiveBlocks
    <3>5. CASE v \in Top.cond
      BY <3>1, <3>2, <3>3, <3>4, <3>5, IteRun DEF Keeps
    <3>6. CASE v \notin Top.cond
      BY <3>1, <3>2, <3>3, <3>4, <3>6, IteRun DEF Keeps
    <3> QED BY <3>5, <3>6
  <2> QED BY <2>2, <2>3, <2>4, <2>5
<1> QED BY <1>1, <1>3, <1>4, ForkLeaves
-----------------------------------------------------------------------------
(***************************************************************************)
(* The refinement.                                                         *)
(***************************************************************************)
LEMMA RunInit == Init => RunInv /\ Concrete!Init
<1> SUFFICES ASSUME Init
             PROVE  RunInv /\ Concrete!Init
  OBVIOUS
<1>1. frames = <<>> /\ Len(frames) = 0 /\ lost = {} /\ Path = Valuation
  BY DEF Init, Path
<1>2. RunInv
  BY <1>1 DEF RunInv
<1>3. opened = <<>>
  BY <1>1 DEF opened
<1>4. \A v : Elsewhere(v) = {}
  BY <1>1 DEF Elsewhere, Forked
<1>5. ASSUME NEW v \in Valuation
      PROVE  ConcreteRun(v) = [cell |-> [i \in Offset |-> Unwritten], heap |-> HeapStart]
  <2>1. Home(v) = memory /\ HomeHeap(v) = heap_offset[v]
    BY <1>4 DEF Home, HomeHeap
  <2>2. heap_offset[v] = HeapStart
    BY DEF Init, vec_getConstant
  <2>3. \A i \in Offset : ~Written(v, i)
    BY <2>1 DEF Init, Written, cMemory_init, Const0
  <2> QED BY <1>1, <2>1, <2>2, <2>3 DEF ConcreteRun
<1>6. runs = [v \in Valuation |-> [cell |-> [i \in Offset |-> Unwritten], heap |-> HeapStart]]
  BY <1>5 DEF runs
<1> QED BY <1>2, <1>3, <1>6 DEF Concrete!Init

LEMMA RunStep ==
  OwnerInv /\ OwnerInv' /\ StackInv /\ StackInv' /\ PathInv /\ RunInv /\ [Next]_vars
    => RunInv' /\ [Concrete!Next]_<<runs, opened>>
<1> SUFFICES ASSUME OwnerInv, OwnerInv', StackInv, StackInv', PathInv, RunInv, [Next]_vars
             PROVE  RunInv' /\ [Concrete!Next]_<<runs, opened>>
  OBVIOUS
<1>1. UNCHANGED <<frames, conditions_stack>> => RunInv'
  BY IdleRuns
<1>2. UNCHANGED <<runs, opened>> => [Concrete!Next]_<<runs, opened>>
  OBVIOUS
\* The operations of the program.
<1>3. ASSUME NEW st \in Stores, Store(st)
      PROVE  RunInv' /\ Concrete!Next
  <2>1. UNCHANGED <<frames, conditions_stack>>
    BY <1>3 DEF Store
  <2>2. Concrete!Store(st)
    BY <1>3, StoreRefines
  <2> QED BY <1>1, <2>1, <2>2 DEF Concrete!Next
<1>4. ASSUME NEW mv \in Moves, Move(mv)
      PROVE  RunInv' /\ Concrete!Next
  <2>1. UNCHANGED <<frames, conditions_stack>>
    BY <1>4 DEF Move
  <2>2. Concrete!Move(mv)
    BY <1>4, MoveRefines
  <2> QED BY <1>1, <2>1, <2>2 DEF Concrete!Next
<1>5. ASSUME NEW n \in Pops, NEW size \in MallocSizes, Malloc(size, n)
      PROVE  RunInv' /\ Concrete!Next
  <2>1. UNCHANGED <<frames, conditions_stack>>
    BY <1>5 DEF Malloc
  <2>2. Concrete!Malloc(size, n)
    BY <1>5, MallocRefines
  <2> QED BY <1>1, <2>1, <2>2 DEF Concrete!Next
<1>6. ASSUME NEW n \in Pops, LibraryCall(n) \/ AssertFails(n)
      PROVE  RunInv' /\ Concrete!Next
  <2>1. /\ blocks' = [blocks EXCEPT ![memory] = PopReturn(@, n)]
        /\ UNCHANGED <<memory, heap_offset, frames, conditions_stack, lost>>
    BY <1>6 DEF LibraryCall, AssertFails
  <2>2. Concrete!LibraryCall(n)
    BY <2>1, LibraryCallRefines
  <2> QED BY <1>1, <2>1, <2>2 DEF Concrete!Next
<1>7. ASSUME NEW n \in Pops, AssertUnreachable(n)
      PROVE  RunInv' /\ Concrete!Next
  <2>1. /\ blocks' = [blocks EXCEPT ![memory] = PopReturn(blocks[memory], n)]
        /\ lost' = lost \cup Path
        /\ UNCHANGED <<memory, frames, conditions_stack>>
    BY <1>7 DEF AssertUnreachable
  <2>2. Concrete!GiveUp
    BY <2>1, GiveUpRefines
  <2> QED BY <1>1, <2>1, <2>2 DEF Concrete!Next
<1>8. ASSUME UNCHANGED <<memory, blocks, heap_offset, frames, lost, conditions_stack>>
      PROVE  RunInv' /\ [Concrete!Next]_<<runs, opened>>
  BY <1>1, <1>2, <1>8, IdleRefines
<1>9. CASE \/ \E st \in Stores : StoreOutside(st)
           \/ \E mv \in Moves : MoveOutside(mv)
           \/ BranchSkipped
           \/ UNCHANGED vars
  BY <1>8, <1>9 DEF StoreOutside, MoveOutside, BranchSkipped, vars
\* A conditional starts.
<1>10. ASSUME NEW c \in Condition, BranchConstant(c)
       PROVE  RunInv' /\ Concrete!Next
  <2> DEFINE side == (c = Const1)
  <2>1. /\ frames' = Append(frames, NewFrame("direct", c, side))
        /\ c \in {Const0, Const1}
        /\ UNCHANGED <<memory, blocks, heap_offset, conditions_stack, lost>>
    BY <1>10 DEF BranchConstant
  <2>2. side \in BOOLEAN
    OBVIOUS
  <2>3. c = IF side THEN Const1 ELSE Const0
    BY <2>1
  <2> HIDE DEF side
  <2>4. RunInv' /\ Concrete!Enter
    BY <2>1, <2>2, <2>3, OneSidedEnters
  <2> QED BY <2>4 DEF Concrete!Next
<1>11. ASSUME NEW c \in Condition, NEW side \in BOOLEAN, BranchPruned(c, side)
       PROVE  RunInv' /\ Concrete!Next
  <2>1. /\ frames' = Append(frames, NewFrame("pruned", c, side))
        /\ conditions_stack' = Append(conditions_stack, LitIs(c, side))
        /\ Decided(c, side)
        /\ UNCHANGED <<memory, blocks, heap_offset, lost>>
    BY <1>11 DEF BranchPruned
  <2>2. Path \cap LitIs(c, ~side) = {}
    BY <2>1, ForcedSide, Zenon
  <2>3. RunInv' /\ Concrete!Enter
    BY <2>1, <2>2, OneSidedEnters
  <2> QED BY <2>3 DEF Concrete!Next
<1>12. ASSUME NEW c \in Condition, NEW side \in BOOLEAN, BranchInfeasible(c, side)
       PROVE  RunInv' /\ Concrete!Next
  <2>1. /\ UNCHANGED <<memory, blocks, frames, conditions_stack>>
        /\ lost' = lost \cup Path
    BY <1>12 DEF BranchInfeasible
  <2>2. blocks' = [blocks EXCEPT ![memory] = blocks[memory]]
    BY <2>1 DEF OwnerInv, TypeOK
  <2>3. Concrete!GiveUp
    BY <2>1, <2>2, GiveUpRefines
  <2> QED BY <1>1, <2>1, <2>3 DEF Concrete!Next
<1>13. ASSUME NEW c \in Condition, BranchForked(c)
       PROVE  RunInv' /\ Concrete!Next
  BY <1>13, ForkEnters DEF Concrete!Next
\* A callback returns.
<1>14. CASE BranchToCut
  BY <1>2, <1>14, CutRests
<1>15. CASE SkipCut \/ ReturnAfterCut
  <2>1. frames # <<>> /\ Top.kind # "forked" /\ ReturnOneSided
    BY <1>15 DEF SkipCut, ReturnAfterCut, InStage
  <2> QED BY <2>1, OneSidedLeaves DEF Concrete!Next
<1>16. CASE TrueSideDone
  BY <1>16, SideSwitches DEF Concrete!Next
<1>17. CASE KeepNeither \/ KeepFalse \/ KeepTrue \/ Merge
  BY <1>17, ForkEnds DEF Concrete!Next
<1> QED
  BY <1>3, <1>4, <1>5, <1>6, <1>7, <1>9, <1>10, <1>11, <1>12, <1>13, <1>14, <1>15,
     <1>16, <1>17 DEF Next

\* The path conditions and the open activations agree on where the run on each
\* input is: on the path, or waiting in exactly one activation.
THEOREM RunInvariant ==
  Spec => [](OwnerInv /\ StackInv /\ PathInv /\ RunInv)
<1>1. OwnerInv /\ StackInv /\ PathInv /\ RunInv /\ OwnerInv' /\ StackInv' /\ [Next]_vars
        => RunInv'
  BY RunStep
<1>2. Init => RunInv
  BY RunInit
<1> QED BY <1>1, <1>2, PathInvariant, PTL DEF Spec

\* Symbolic execution computes the concrete runs: for every program, every set
\* of inputs and any nesting of conditionals, each input that was not given up
\* has the registers and the heap offset of its own run, whatever was merged,
\* freed or kept on the way, also when the SAT solver gives up.
THEOREM RunsConcretelyAlways ==
  Spec => RunsConcretely
<1>1. Init => Concrete!Init
  BY RunInit
<1>2. OwnerInv /\ StackInv /\ PathInv /\ RunInv /\ OwnerInv' /\ StackInv' /\ [Next]_vars
        => [Concrete!Next]_<<runs, opened>>
  BY RunStep
<1> QED BY <1>1, <1>2, RunInvariant, PTL DEF Spec, RunsConcretely, Concrete!Spec
=============================================================================
