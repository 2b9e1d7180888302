--------------------------- MODULE PcodeOperations ---------------------------
(***************************************************************************)
(* The p-code operations (pcode_definitions.c) that the code generated for *)
(* a binary calls.  Most hand their operands to a vector operation; those  *)
(* on signed numbers, flags and parts have a concrete and a symbolic case  *)
(* of their own.                                                           *)
(***************************************************************************)
EXTENDS BitVectors

\* A flag is a byte with the literal l in bit 0.
SymbolicFlag(l) ==
  Symbolic(BITS_IN_BYTE, [i \in Bits(BITS_IN_BYTE) |-> IF i = 0 THEN l ELSE Const0])

Flag(l) ==
  IF IsConst(l) THEN Concrete(BITS_IN_BYTE, IF l = Const1 THEN 1 ELSE 0) ELSE SymbolicFlag(l)

pCOPY(x)         == x
pINT_ADD(x, y)   == vec_add(x, y)
pINT_SUB(x, y)   == vec_sub(x, y)
pINT_MULT(x, y)  == vec_mult(x, y)
pINT_DIV(x, y)   == vec_quot_rem(x, y, TRUE)
pINT_REM(x, y)   == vec_quot_rem(x, y, FALSE)
pINT_AND(x, y)   == vec_and(x, y)
pINT_OR(x, y)    == vec_or(x, y)
pINT_XOR(x, y)   == vec_xor(x, y)
pINT_LEFT(x, y)  == vec_shiftleft(x, y)
pINT_RIGHT(x, y) == vec_shiftright(x, y)
pINT_SRIGHT(x, y) == vec_signedshiftright(x, y)
pINT_2COMP(x)    == vec_negate(x)
pINT_NEGATE(x)   == vec_invert(x)
pPIECE(x, y)     == vec_cat(x, y)
pINT_ZEXT(x, output_size) == vec_zextend(x, output_size * BITS_IN_BYTE)
pINT_SEXT(x, output_size) == vec_sextend(x, output_size * BITS_IN_BYTE)

pINT_EQUAL(x, y)     == Flag(vec_equal(x, y))
pINT_NOTEQUAL(x, y)  == Flag(LitNot(vec_equal(x, y)))
pINT_LESS(x, y)      == Flag(vec_lessthan(x, y))
pINT_LESSEQUAL(x, y) == Flag(LitNot(vec_greaterthan(x, y)))
pINT_CARRY(x, y)     == Flag(vec_carry(x, y))
pINT_SLESS(x, y)     == Flag(vec_signed_lessthan(x, y))
-----------------------------------------------------------------------------
(***************************************************************************)
(* Signed quotients.  / and % of C round to zero.                          *)
(***************************************************************************)
Magnitude(i) == IF i < 0 THEN -i ELSE i

CQuotient(i, j) ==
  LET q == Magnitude(i) \div Magnitude(j) IN IF (i < 0) = (j < 0) THEN q ELSE -q

CRemainder(i, j) == i - j * CQuotient(i, j)

\* On absolute values, negated where sign holds.
Unsigned(x, y, quot_rem, sign) ==
  LET ret == vec_quot_rem(vec_abs(x), vec_abs(y), quot_rem)
  IN  vec_ite(sign, vec_negate(ret), ret)

pINT_SDIV(x, y) ==
  LET zerotest == vec_equal(y, Concrete(x.size, 0))
      sign     == HashXor(Lits(x)[x.size - 1], Lits(y)[y.size - 1])
  IN  CASE ~x.isSymbolic /\ ~y.isSymbolic ->
             Concrete(x.size, IF SignedWord(y) = 0 THEN 0
                              ELSE CQuotient(SignedWord(x), SignedWord(y)))
        [] x.isSymbolic /\ ~y.isSymbolic /\ y.conWord = 0 -> Concrete(x.size, 0)
        [] OTHER ->
             IF zerotest = Const1 THEN Concrete(x.size, 0)
             ELSE vec_ite(zerotest, Concrete(x.size, 0), Unsigned(x, y, TRUE, sign))

\* The second case is that of pINT_SDIV, although the first one and the
\* last give the dividend for a zero divisor.
pINT_SREM(x, y) ==
  CASE ~x.isSymbolic /\ ~y.isSymbolic ->
         Concrete(x.size, IF SignedWord(y) = 0 THEN x.conWord
                          ELSE CRemainder(SignedWord(x), SignedWord(y)))
    [] x.isSymbolic /\ ~y.isSymbolic /\ y.conWord = 0 -> Concrete(x.size, 0)
    [] OTHER -> Unsigned(x, y, FALSE, Lits(x)[x.size - 1])
-----------------------------------------------------------------------------
(***************************************************************************)
(* Signed flags.                                                           *)
(***************************************************************************)
pINT_SLESSEQUAL(x, y) ==
  LET sless == pINT_SLESS(x, y)
      equal == pINT_EQUAL(x, y)
  IN  CASE ~sless.isSymbolic -> IF sless.conWord = 1 THEN sless ELSE equal
        [] sless.isSymbolic /\ ~equal.isSymbolic -> IF equal.conWord = 1 THEN equal ELSE sless
        [] sless.isSymbolic /\ equal.isSymbolic ->
             SymbolicFlag(HashOr(sless.symWord[0], equal.symWord[0]))

\* Two numbers of one sign whose sum has the other; on literals, the carries
\* into and out of the top bit differ.
pINT_SCARRY(x, y) ==
  LET sum   == AsSigned(int_sextend((x.conWord + y.conWord) % Words, x.size, WORD_BITS))
      carry == Carry(Lits(x), Lits(y), x.size)
  IN  IF ~x.isSymbolic /\ ~y.isSymbolic
        THEN vec_setValue(BITS_IN_BYTE,
               IF \/ SignedWord(x) > 0 /\ SignedWord(y) > 0 /\ sum <= 0
                  \/ SignedWord(x) < 0 /\ SignedWord(y) < 0 /\ sum >= 0
               THEN 1 ELSE 0)
        ELSE Flag(HashXor(carry[x.size - 1], carry[x.size]))

pINT_SBORROW(x, y) == pINT_SCARRY(x, pINT_2COMP(y))
-----------------------------------------------------------------------------
(***************************************************************************)
(* Booleans, which are bit 0 of a byte, and parts, counted in bytes.       *)
(***************************************************************************)
BoolOp(x, y, op(_, _)) == Flag(op(Lits(x)[0], Lits(y)[0]))

pBOOL_AND(x, y) == BoolOp(x, y, HashAnd)
pBOOL_OR(x, y)  == BoolOp(x, y, HashOr)
pBOOL_XOR(x, y) == BoolOp(x, y, HashXor)

pBOOL_NEGATE(x) ==
  LET negated == LitNot(Lits(x)[0])
  IN  IF x.isSymbolic THEN SymbolicFlag(negated) ELSE Flag(negated)

pSUBPIECE(x, input1, output_size) ==
  LET n == output_size * BITS_IN_BYTE
      k == input1 * BITS_IN_BYTE
  IN  CASE k >= x.size -> vec_setValue(n, 0)
        [] k < x.size /\ ~x.isSymbolic /\ n <= WORD_BITS -> Concrete(n, Zext(x) \div 2^k)
        [] OTHER -> Folded(n, [i \in Bits(n) |-> IF i + k < x.size THEN Lits(x)[i + k]
                                                 ELSE Const0])
=============================================================================
