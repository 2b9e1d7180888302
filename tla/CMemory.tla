------------------------------ MODULE CMemory -------------------------------
(***************************************************************************)
(* The concretely addressed memory (registers) of a machine state: a block *)
(* of byte cells at base_address, each with the value last stored and the  *)
(* literal writtenTo that says whether it was stored to.                   *)
(*                                                                         *)
(* Only the data of one block is here, as pure operators; who owns a block *)
(* and when it is freed is the subject of ConditionalBranch.               *)
(***************************************************************************)
EXTENDS Literals

CONSTANTS
  ByteModulus,     \* number of values of a cell: 2^8 in the code
  base_address,    \* of every block of a machine state
  cMem_size        \* number of cells of a block

ASSUME CMemoryAssumption ==
  /\ base_address \in Nat
  /\ cMem_size \in Nat \ {0}
  /\ ByteModulus \in Nat \ {0}

Byte     == 0 .. ByteModulus - 1
Offset   == 0 .. cMem_size - 1
ByteVec  == [Valuation -> Byte]
Cell     == [value : ByteVec, writtenTo : Literal]
Block    == [Offset -> Cell]

\* cMemory_init: every byte the constant zero, none written.
cMemory_init ==
  [i \in Offset |-> [value |-> vec_getConstant(0), writtenTo |-> Const0]]

\* The bounds test every load and store makes before it touches a cell.
InBounds(address, size) ==
  /\ address >= base_address
  /\ (address - base_address) + size <= cMem_size

(***************************************************************************)
(* cMemory_store_le and cMemory_store_be.  bytes is the value split into   *)
(* size byte vectors, least significant first.                             *)
(***************************************************************************)
StoreBytes(cMem, address, bytes, size) ==
  [i \in Offset |->
     LET k == i - (address - base_address)
     IN  IF k \in 0 .. size - 1
           THEN [value |-> bytes[k], writtenTo |-> Const1]
           ELSE cMem[i]]

cMemory_store_le(cMem, address, bytes, size) ==
  StoreBytes(cMem, address, bytes, size)

cMemory_store_be(cMem, address, bytes, size) ==
  StoreBytes(cMem, address, [k \in 0 .. size - 1 |-> bytes[(size - 1) - k]], size)

(***************************************************************************)
(* cMemory_load_le and cMemory_load_be, as bytes, least significant first. *)
(* A byte that was never written is loaded, with a warning.                *)
(***************************************************************************)
cMemory_load_le(cMem, address, size) ==
  [k \in 0 .. size - 1 |-> cMem[(address - base_address) + k].value]

\* A bug: the bytes are not turned round.
cMemory_load_be_unreversed(cMem, address, size) ==
  cMemory_load_le(cMem, address, size)

cMemory_load_be(cMem, address, size) ==
  [k \in 0 .. size - 1 |-> cMem[(address - base_address) + ((size - 1) - k)].value]

(***************************************************************************)
(* cMemory_ite: the block that holds cMemT where c is true and cMemF where *)
(* it is not.  A cell that one side never wrote takes the other side's     *)
(* value and writtenTo as they are.                                        *)
(***************************************************************************)
IteCell(c, T, F) ==
  CASE F.writtenTo = Const0 -> T
    [] F.writtenTo # Const0 /\ T.writtenTo = Const0 -> F
    [] OTHER -> [value     |-> vec_ite(c, T.value, F.value),
                 writtenTo |-> HashMux(c, T.writtenTo, F.writtenTo)]

cMemory_ite(c, cMemT, cMemF) ==
  CASE c = Const0 -> cMemF
    [] c = Const1 -> cMemT
    [] OTHER      -> [i \in Offset |-> IteCell(c, cMemT[i], cMemF[i])]
=============================================================================
