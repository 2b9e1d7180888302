---------------------------- MODULE VectorProgram ----------------------------
(***************************************************************************)
(* A program on vectors: two-address code, as a translated binary is, that *)
(* replaces a register by the result of an operation on it and on another  *)
(* one, follows branches, and asks the solver about the path.              *)
(*                                                                         *)
(* values is what the program computes: for each valuation of the inputs   *)
(* the registers of the machine that runs it on words of the given size.   *)
(* Whatever sequence of concrete and symbolic cases an execution takes,    *)
(* and whatever an operation leaves in the bits of a word that do not      *)
(* count, the vectors have to denote these values.                         *)
(*                                                                         *)
(* An action's first conjuncts are the assertions of the operation.  Where *)
(* the code does not compute what the operation stands for the program     *)
(* does not go: those conditions are the operators below that are named    *)
(* for the operation and end in "IsRight".                                 *)
(***************************************************************************)
EXTENDS PcodeOperations, WordArithmetic

CONSTANTS
  Reg,
  InitialVectors,  \* of constants and inputs
  MaxSize,         \* bound on the size of vectors
  MaxOps           \* bound on the number of operations

\* The assertions of vec_verify, which the library calls on what it is given:
\* a vector has bits, one wider than a machine word is symbolic, and the
\* literals of a symbolic one are there.
IsVector(x) ==
  /\ x.size \in Nat \ {0}
  /\ x.isSymbolic \in BOOLEAN
  /\ IF x.isSymbolic THEN x.symWord \in [Bits(x.size) -> Literal]
     ELSE x.size <= WORD_BITS /\ x.conWord \in 0 .. Words - 1

ASSUME VectorProgramAssumption ==
  /\ MaxSize \in Nat
  /\ \A x \in InitialVectors : IsVector(x)

VARIABLES
  regs,    \* the vector in each register
  values,  \* what it should denote
  path,    \* conjunction of the conditions on the path executed
  ops      \* operations executed
vars == <<regs, values, path, ops>>

Bit(l, v) == IF v \in l THEN 1 ELSE 0

\* The word that x stands for under v.
Value(x, v) ==
  LET sum[i \in 0 .. x.size] ==
        IF i = 0 THEN 0 ELSE sum[i - 1] + 2^(i - 1) * Bit(Lits(x)[i - 1], v)
  IN  IF x.isSymbolic THEN sum[x.size] ELSE x.conWord % 2^x.size

Init ==
  /\ regs \in [Reg -> InitialVectors]
  /\ values = [r \in Reg |-> [v \in Valuation |-> Value(regs[r], v)]]
  /\ path = Const1
  /\ ops = 0
-----------------------------------------------------------------------------
Size(r) == regs[r].size

Set(d, vec, value) ==
  /\ ops < MaxOps
  /\ vec.size <= MaxSize
  /\ regs' = [regs EXCEPT ![d] = vec]
  /\ values' = [values EXCEPT ![d] = value]
  /\ ops' = ops + 1
  /\ UNCHANGED path

\* d := op(d), and d := op(d, s), which computes f on words.
Unary(d, op(_), f(_, _)) ==
  Set(d, op(regs[d]), [v \in Valuation |-> f(values[d][v], Size(d))])

Binary(d, s, op(_, _), f(_, _, _)) ==
  Set(d, op(regs[d], regs[s]), [v \in Valuation |-> f(values[d][v], values[s][v], Size(d))])

SameSize(d, s, op(_, _), f(_, _, _)) == Size(d) = Size(s) /\ Binary(d, s, op, f)

\* int_sextend reads the bits of the word above a sign bit that is not set.
SignIsRight(r) ==
  LET x == regs[r]
  IN  x.isSymbolic \/ BitLit(x.conWord, x.size - 1) = Const1 \/ x.conWord = Zext(x)

Signed2(d, s, op(_, _), f(_, _, _)) ==
  SignIsRight(d) /\ SignIsRight(s) /\ SameSize(d, s, op, f)
-----------------------------------------------------------------------------
COPY(d, s)      == Binary(d, s, LAMBDA x, y : pCOPY(y), LAMBDA a, b, n : b)
INT_ADD(d, s)   == SameSize(d, s, pINT_ADD, ADD)
INT_SUB(d, s)   == SameSize(d, s, pINT_SUB, SUB)
INT_DIV(d, s)   == SameSize(d, s, pINT_DIV, DIV)
INT_REM(d, s)   == SameSize(d, s, pINT_REM, REM)
INT_AND(d, s)   == SameSize(d, s, pINT_AND, AND)
INT_OR(d, s)    == SameSize(d, s, pINT_OR, OR)
INT_XOR(d, s)   == SameSize(d, s, pINT_XOR, XOR)
INT_2COMP(d)    == Unary(d, pINT_2COMP, NEG)
INT_NEGATE(d)   == Unary(d, pINT_NEGATE, NOT)
Absolute(d)     == Unary(d, vec_abs, ABS)
Reverse(d)     == Unary(d, vec_reverse, REVERSE)

\* A symbolic bit of the multiplier below a constant 1 lets vec_mult take
\* old bits of tmp_vec.
MultIsRight(d, s) ==
  LET Y == Lits(regs[s])
  IN  \/ ~regs[d].isSymbolic /\ ~regs[s].isSymbolic
      \/ \A i, j \in Bits(Size(s)) : i < j /\ Y[j] = Const1 => IsConst(Y[i])

INT_MULT(d, s) == MultIsRight(d, s) /\ SameSize(d, s, pINT_MULT, MULT)
-----------------------------------------------------------------------------
(***************************************************************************)
(* Signed operations.  The quotient of the least number by -1 does not fit *)
(* a machine word, in C too; the code has no case for it.                  *)
(***************************************************************************)
Least(n) == 2^(n - 1)

QuotientFits(x, y) ==
  ~x.isSymbolic /\ ~y.isSymbolic /\ x.size = WORD_BITS
    => ~(x.conWord = Least(WORD_BITS) /\ y.conWord = Words - 1)

SDivIsRight(d, s) == QuotientFits(regs[d], regs[s])

INT_SDIV(d, s) ==
  Size(d) <= WORD_BITS /\ SDivIsRight(d, s) /\ Signed2(d, s, pINT_SDIV, SDIV)

\* A constant zero divisor of a symbolic dividend gives 0, not the dividend.
SRemIsRight(d, s) ==
  SDivIsRight(d, s) /\ ~(regs[d].isSymbolic /\ ~regs[s].isSymbolic /\ regs[s].conWord = 0)

INT_SREM(d, s) == SRemIsRight(d, s) /\ Signed2(d, s, pINT_SREM, SREM)

\* A symbolic vector that fits a word and whose sign is not constant cannot be
\* shifted by its size or more.
SRightIsRight(d, s) == SignedShiftAsserts(regs[d], regs[s])

INT_SRIGHT(d, s) ==
  SignIsRight(d) /\ SRightIsRight(d, s) /\ Binary(d, s, pINT_SRIGHT, SRIGHT)

INT_LEFT(d, s)  == Binary(d, s, pINT_LEFT, LEFT)
INT_RIGHT(d, s) == Binary(d, s, pINT_RIGHT, RIGHT)

INT_SEXT(d, m) ==
  /\ m * BITS_IN_BYTE >= Size(d)
  /\ SignIsRight(d)
  /\ Unary(d, LAMBDA x : pINT_SEXT(x, m), LAMBDA a, n : SEXT(a, n, m * BITS_IN_BYTE))

INT_ZEXT(d, m) ==
  /\ m * BITS_IN_BYTE >= Size(d)
  /\ Unary(d, LAMBDA x : pINT_ZEXT(x, m), LAMBDA a, n : a)
-----------------------------------------------------------------------------
(***************************************************************************)
(* Comparisons and flags.                                                  *)
(***************************************************************************)
INT_EQUAL(d, s)      == SameSize(d, s, pINT_EQUAL, EQ)
INT_NOTEQUAL(d, s)   == SameSize(d, s, pINT_NOTEQUAL, LAMBDA a, b, n : 1 - EQ(a, b, n))
INT_LESS(d, s)       == SameSize(d, s, pINT_LESS, LAMBDA a, b, n : GT(b, a, n))
INT_LESSEQUAL(d, s)  == SameSize(d, s, pINT_LESSEQUAL, LAMBDA a, b, n : 1 - GT(a, b, n))
INT_CARRY(d, s)      == SameSize(d, s, pINT_CARRY, CARRY)
INT_SLESS(d, s)      == Signed2(d, s, pINT_SLESS, LAMBDA a, b, n : SGT(b, a, n))
INT_SLESSEQUAL(d, s) == Signed2(d, s, pINT_SLESSEQUAL, LAMBDA a, b, n : 1 - SGT(a, b, n))

\* The sign of a sum is looked for in the sum of the whole words: it is
\* covered by what else the words have, and the carry of a sum that is one
\* bit shorter than a word is taken for it.
SCarryIsRight(d, s) ==
  ~regs[d].isSymbolic /\ ~regs[s].isSymbolic =>
    /\ Size(d) # WORD_BITS - 1
    /\ regs[d].conWord = Zext(regs[d]) /\ regs[s].conWord = Zext(regs[s])

INT_SCARRY(d, s) == SCarryIsRight(d, s) /\ Signed2(d, s, pINT_SCARRY, SCARRY)

\* The least number is its own negation.
SBorrowIsRight(d, s) ==
  SCarryIsRight(d, s) /\ \A v \in Valuation : Value(regs[s], v) # Least(Size(s))

INT_SBORROW(d, s) == SBorrowIsRight(d, s) /\ Signed2(d, s, pINT_SBORROW, SBORROW)

BoolBinary(d, s, op(_, _), f(_, _, _)) ==
  /\ Size(d) = BITS_IN_BYTE /\ Size(s) = BITS_IN_BYTE
  /\ Binary(d, s, op, LAMBDA a, b, n : f(a % 2, b % 2, 1))

BOOL_AND(d, s) == BoolBinary(d, s, pBOOL_AND, AND)
BOOL_OR(d, s)  == BoolBinary(d, s, pBOOL_OR, OR)
BOOL_XOR(d, s) == BoolBinary(d, s, pBOOL_XOR, XOR)
BOOL_NEGATE(d) ==
  Size(d) = BITS_IN_BYTE /\ Unary(d, pBOOL_NEGATE, LAMBDA a, n : 1 - (a % 2))
-----------------------------------------------------------------------------
(***************************************************************************)
(* Parts.                                                                  *)
(***************************************************************************)
PIECES(d, s) ==
  Set(d, pPIECE(regs[d], regs[s]),
         [v \in Valuation |-> CAT(values[d][v], values[s][v], Size(s))])

SUBPIECE(d, k, m) ==
  Unary(d, LAMBDA x : pSUBPIECE(x, k, m),
           LAMBDA a, n : PIECE(a, k * BITS_IN_BYTE, m * BITS_IN_BYTE))

\* start + amount < size: the assertion leaves out the top bit.
Extract(d, start, amount) ==
  /\ start + amount < Size(d)
  /\ ExtractAsserts(regs[d], start, amount)
  /\ Unary(d, LAMBDA x : vec_extract(x, start, amount), LAMBDA a, n : PIECE(a, start, amount))

Truncate(d, amount) ==
  /\ amount <= Size(d)
  /\ ExtractAsserts(regs[d], 0, amount)
  /\ Unary(d, LAMBDA x : vec_trunc(x, amount), LAMBDA a, n : PIECE(a, 0, amount))

SelectBits(d, num_bits, bit_offset) ==
  /\ num_bits + bit_offset <= Size(d)
  /\ Unary(d, LAMBDA x : vec_selectBits(x, num_bits, bit_offset),
              LAMBDA a, n : PIECE(a, bit_offset, num_bits))

\* A word is stored byte by byte and loaded in the other byte order.
SwapBytes(d) ==
  LET k     == Size(d) \div BITS_IN_BYTE
      bytes == vec_splitIntoNewArray(regs[d], k)
  IN  /\ Size(d) % BITS_IN_BYTE = 0
      /\ Set(d, vec_joinArray([j \in Bits(k) |-> bytes[(k - 1) - j]], k),
                [v \in Valuation |-> SWAP(values[d][v], k, BITS_IN_BYTE)])

\* A concrete amount is taken with all bits of its word; a symbolic one has
\* few enough bits that 1<<i is defined, and wraps in vec_rotateleft where it
\* may be more than the size.
RotateIsRight(d, s) ==
  /\ Size(d) <= WORD_BITS
  /\ RotationFitsInt(regs[s])
  /\ ~regs[s].isSymbolic => regs[s].conWord = Zext(regs[s])

RotateRight(d, s) == RotateIsRight(d, s) /\ Binary(d, s, vec_rotateright, ROTR)

RotateLeftIsRight(d, s) ==
  /\ RotateIsRight(d, s)
  /\ IF regs[s].isSymbolic THEN 2^(Size(s) - 1) <= Size(d)
     ELSE regs[d].isSymbolic => regs[s].conWord % Size(d) = 0

RotateLeft(d, s) == RotateLeftIsRight(d, s) /\ Binary(d, s, vec_rotateleft, ROTL)
-----------------------------------------------------------------------------
(***************************************************************************)
(* Conditions.  The literal of one is bit 0 of a register.                 *)
(***************************************************************************)
Condition(r) == Lits(regs[r])[0]

\* d := IF c THEN d ELSE s, as a merge does.
IfThenElse(c, d, s) ==
  /\ Size(d) = Size(s)
  /\ Set(d, vec_ite(Condition(c), regs[d], regs[s]),
            [v \in Valuation |-> IF values[c][v] % 2 = 1 THEN values[d][v] ELSE values[s][v]])

\* d := IF d = s THEN c ELSE d, as a load does with an address.
IfEqual(c, d, s) ==
  /\ Size(d) = Size(s) /\ Size(c) = Size(d)
  /\ \E l \in vec_equal_SAT(path, regs[d], regs[s]) :
       Set(d, vec_ite(l, regs[c], regs[d]),
              [v \in Valuation |-> IF values[d][v] = values[s][v] THEN values[c][v]
                                   ELSE values[d][v]])

\* A branch on r that is followed.
Assume(r, value) ==
  /\ ops < MaxOps
  /\ path \cap LitIs(Condition(r), value) # {}
  /\ path' = path \cap LitIs(Condition(r), value)
  /\ ops' = ops + 1
  /\ UNCHANGED <<regs, values>>

Concretize(d) ==
  /\ ops < MaxOps
  /\ \E x \in vec_concretize_with_SAT(path, regs[d]) : regs' = [regs EXCEPT ![d] = x]
  /\ ops' = ops + 1
  /\ UNCHANGED <<values, path>>

Next ==
  \/ \E d, s \in Reg :
       \/ COPY(d, s)      \/ INT_ADD(d, s)       \/ INT_SUB(d, s)    \/ INT_MULT(d, s)
       \/ INT_DIV(d, s)   \/ INT_REM(d, s)       \/ INT_SDIV(d, s)   \/ INT_SREM(d, s)
       \/ INT_AND(d, s)   \/ INT_OR(d, s)        \/ INT_XOR(d, s)
       \/ INT_LEFT(d, s)  \/ INT_RIGHT(d, s)     \/ INT_SRIGHT(d, s)
       \/ INT_EQUAL(d, s) \/ INT_NOTEQUAL(d, s)  \/ INT_LESS(d, s)   \/ INT_LESSEQUAL(d, s)
       \/ INT_CARRY(d, s) \/ INT_SLESS(d, s)     \/ INT_SLESSEQUAL(d, s)
       \/ INT_SCARRY(d, s) \/ INT_SBORROW(d, s)
       \/ BOOL_AND(d, s)  \/ BOOL_OR(d, s)       \/ BOOL_XOR(d, s)
       \/ PIECES(d, s)    \/ RotateRight(d, s)   \/ RotateLeft(d, s)
       \/ \E c \in Reg : IfThenElse(c, d, s) \/ IfEqual(c, d, s)
  \/ \E d \in Reg :
       \/ INT_2COMP(d)    \/ INT_NEGATE(d)       \/ Absolute(d)      \/ Reverse(d)
       \/ BOOL_NEGATE(d)  \/ SwapBytes(d)        \/ Concretize(d)
       \/ \E m \in 1 .. MaxSize \div BITS_IN_BYTE :
            \/ INT_ZEXT(d, m)
            \/ INT_SEXT(d, m)
            \/ \E k \in 0 .. MaxSize \div BITS_IN_BYTE : SUBPIECE(d, k, m)
       \/ \E amount \in 1 .. MaxSize :
            \/ Truncate(d, amount)
            \/ \E start \in Bits(MaxSize) : Extract(d, start, amount) \/ SelectBits(d, amount, start)
       \/ \E value \in BOOLEAN : Assume(d, value)

Spec == Init /\ [][Next]_vars
-----------------------------------------------------------------------------
\* Whatever operations made them, the vectors pass vec_verify: no result that
\* is wider than a machine word was folded into one.
Verified == \A r \in Reg : IsVector(regs[r])

\* Every register denotes, for each input that takes the path, what the
\* program computes on words: across concrete, symbolic and folded results,
\* bits of words that no longer count, sizes above and below a machine word,
\* and what the solver made constant.
Denotes == \A r \in Reg : \A v \in path : Value(regs[r], v) = values[r][v]

\* "BV-SignExtend": the word int_sextend gives is the number that the bits of
\* a concrete vector are in two's complement, whatever made the vector.
SignExtends ==
  \A r \in Reg :
    ~regs[r].isSymbolic =>
      \A m \in Size(r) .. WORD_BITS :
        int_sextend(regs[r].conWord, Size(r), m) = SEXT(Zext(regs[r]), Size(r), m)
=============================================================================
