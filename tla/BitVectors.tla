----------------------------- MODULE BitVectors -----------------------------
(***************************************************************************)
(* The vector operations (aig_vectors.c).  A vector is concrete, and then  *)
(* its bits are the low size bits of the machine word conWord, whose other *)
(* bits are whatever the operation that made it left there; or symbolic,   *)
(* and then symWord has a literal for each bit.  Every operation has a     *)
(* case on words and a case on literals.                                   *)
(*                                                                         *)
(* symWord of a concrete vector and conWord of a symbolic one are never    *)
(* read: vec_calc_sym fills in the literals of a concrete operand where an *)
(* operation needs them.  Both are left empty here, and vec_calc_sym is    *)
(* the operator Lits.  The vectors of an operation are new; where they     *)
(* come from is the subject of VectorPool.                                 *)
(***************************************************************************)
EXTENDS Aig

CONSTANTS
  WORD_BITS,      \* 64 in the code
  BITS_IN_BYTE,   \* 8 in the code
  INT_BITS        \* of an int of C, 32 in the build

ASSUME BitVectorsAssumption ==
  /\ WORD_BITS \in Nat \ {0}
  /\ BITS_IN_BYTE \in 1 .. WORD_BITS
  /\ INT_BITS \in Nat \ {0}

Words   == 2^WORD_BITS
Bits(n) == 0 .. n - 1

\* uintmax_t w seen as intmax_t, and its bit i as a literal.
AsSigned(w)  == IF 2 * w >= Words THEN w - Words ELSE w
BitLit(w, i) == IF (w \div 2^i) % 2 = 1 THEN Const1 ELSE Const0

Concrete(n, w) == [size |-> n, isSymbolic |-> FALSE, conWord |-> w % Words, symWord |-> <<>>]
Symbolic(n, s) == [size |-> n, isSymbolic |-> TRUE, conWord |-> 0, symWord |-> s]

Lits(x) ==
  IF x.isSymbolic THEN x.symWord ELSE [i \in Bits(x.size) |-> BitLit(x.conWord, i)]

vec_setValue(n, w) ==
  IF n > WORD_BITS THEN Symbolic(n, [i \in Bits(n) |-> BitLit(w, i)]) ELSE Concrete(n, w)

vec_getInput(n, inputs) == Symbolic(n, inputs)

AllConst(s, n) == \A i \in Bits(n) : IsConst(s[i])

\* vec_sym_to_con: the word whose bits are the constants s.
ConWord(s, n) ==
  LET word[i \in 0 .. n] ==
        IF i = 0 THEN 0 ELSE word[i - 1] + (IF s[i - 1] = Const1 THEN 2^(i - 1) ELSE 0)
  IN  word[n]

\* A bug: without the test for room in a word.
FoldedAnySize(n, s) == IF AllConst(s, n) THEN Concrete(n, ConWord(s, n)) ELSE Symbolic(n, s)

\* vec_sym_to_con_attempt, and the flag isSymbolic the operations keep in
\* their loops to call vec_sym_to_con.
Folded(n, s) ==
  IF n <= WORD_BITS /\ AllConst(s, n) THEN Concrete(n, ConWord(s, n)) ELSE Symbolic(n, s)
-----------------------------------------------------------------------------
(***************************************************************************)
(* Sizes.                                                                  *)
(***************************************************************************)
int_zextend(w, n) == w % 2^n

\* The bits above n are set when the sign bit is, and are left alone if not.
int_sextend(w, n, m) ==
  IF n = WORD_BITS THEN w
  ELSE int_zextend(IF BitLit(w, n - 1) = Const1 THEN int_zextend(w, n) + Words - 2^n ELSE w, m)

\* The word of x extended to a whole machine word, as intmax_t.
SignedWord(x) == AsSigned(int_sextend(x.conWord, x.size, WORD_BITS))

vec_zextend(x, m) ==
  IF ~x.isSymbolic /\ m <= WORD_BITS
    THEN Concrete(m, int_zextend(x.conWord, x.size))
    ELSE Symbolic(m, [i \in Bits(m) |-> IF i < x.size THEN Lits(x)[i] ELSE Const0])

vec_sextend(x, m) ==
  IF ~x.isSymbolic /\ m <= WORD_BITS
    THEN Concrete(m, int_sextend(x.conWord, x.size, m))
    ELSE Symbolic(m, [i \in Bits(m) |-> Lits(x)[IF i < x.size THEN i ELSE x.size - 1]])

\* A bug: what an operation left above y goes into the bits of x.
vec_cat_unmasked(x, y) ==
  LET n == x.size + y.size
  IN  IF ~x.isSymbolic /\ ~y.isSymbolic /\ n <= WORD_BITS
        THEN Concrete(n, x.conWord * 2^y.size + y.conWord)
        ELSE Symbolic(n, [i \in Bits(n) |-> IF i < y.size THEN Lits(y)[i]
                                            ELSE Lits(x)[i - y.size]])

vec_cat(x, y) ==
  LET n == x.size + y.size
  IN  IF ~x.isSymbolic /\ ~y.isSymbolic /\ n <= WORD_BITS
        THEN Concrete(n, x.conWord * 2^y.size + int_zextend(y.conWord, y.size))
        ELSE Symbolic(n, [i \in Bits(n) |-> IF i < y.size THEN Lits(y)[i]
                                            ELSE Lits(x)[i - y.size]])

\* vec_extract, and vec_trunc from bit 0 on.  The literals are made a word
\* if all are constant, however many there are; vec_sym_to_con asserts that
\* a word has room for them.
vec_extract(x, start, amount) ==
  LET s == [i \in Bits(amount) |-> Lits(x)[start + i]]
  IN  CASE ~x.isSymbolic -> Concrete(amount, int_zextend(x.conWord \div 2^start, amount))
        [] x.isSymbolic /\ AllConst(s, amount)  -> Concrete(amount, ConWord(s, amount))
        [] x.isSymbolic /\ ~AllConst(s, amount) -> Symbolic(amount, s)

vec_trunc(x, amount) == vec_extract(x, 0, amount)

\* The assertions of the two, that in vec_sym_to_con among them.
ExtractAsserts(x, start, amount) ==
  x.isSymbolic /\ AllConst([i \in Bits(amount) |-> x.symWord[start + i]], amount)
    => amount <= WORD_BITS

\* The bits above num_bits are left in the word.
vec_selectBits(x, num_bits, bit_offset) ==
  IF ~x.isSymbolic
    THEN Concrete(num_bits, int_zextend(x.conWord, x.size) \div 2^bit_offset)
    ELSE Folded(num_bits, [i \in Bits(num_bits) |-> x.symWord[i + bit_offset]])

\* vec_joinArray, element 0 in the low bits, and vec_splitIntoNewArray.
vec_joinArray(xs, k) ==
  LET m == xs[0].size
  IN  Folded(k * m, [i \in Bits(k * m) |-> Lits(xs[i \div m])[i % m]])

vec_splitIntoNewArray(x, k) ==
  LET m == x.size \div k
  IN  [j \in Bits(k) |-> Folded(m, [i \in Bits(m) |-> Lits(x)[j * m + i]])]

vec_reverse(x) ==
  LET s == [i \in Bits(x.size) |-> Lits(x)[(x.size - 1) - i]]
  IN  IF x.isSymbolic THEN Symbolic(x.size, s) ELSE Concrete(x.size, ConWord(s, x.size))
-----------------------------------------------------------------------------
(***************************************************************************)
(* Bits.                                                                   *)
(***************************************************************************)
\* vec_and, vec_or and vec_xor, op being the operation on a literal.  Words
\* are combined with all their bits.
Bitwise(x, y, op(_, _)) ==
  IF ~x.isSymbolic /\ ~y.isSymbolic
    THEN Concrete(x.size, ConWord([i \in Bits(WORD_BITS) |->
                                     op(BitLit(x.conWord, i), BitLit(y.conWord, i))], WORD_BITS))
    ELSE Folded(x.size, [i \in Bits(x.size) |-> op(Lits(x)[i], Lits(y)[i])])

vec_and(x, y) == Bitwise(x, y, HashAnd)
vec_or(x, y)  == Bitwise(x, y, HashOr)
vec_xor(x, y) == Bitwise(x, y, HashXor)

vec_invert(x) ==
  IF ~x.isSymbolic
    THEN Concrete(x.size, int_zextend(Words - 1 - x.conWord, x.size))
    ELSE Symbolic(x.size, [i \in Bits(x.size) |-> LitNot(x.symWord[i])])

vec_ite(c, x, y) ==
  CASE c = Const0 -> y
    [] c = Const1 -> x
    [] ~IsConst(c) /\ ~x.isSymbolic /\ ~y.isSymbolic /\ x.conWord = y.conWord -> x
    [] OTHER -> Symbolic(x.size, [i \in Bits(x.size) |-> HashMux(c, Lits(x)[i], Lits(y)[i])])
-----------------------------------------------------------------------------
(***************************************************************************)
(* Sums.  The loops over bits, which carry a literal from one bit to the   *)
(* next, are functions that give the literal before bit i.                 *)
(***************************************************************************)
Carry(X, Y, n) ==
  LET carry[i \in 0 .. n] ==
        IF i = 0 THEN Const0
        ELSE HashMux(carry[i - 1], HashOr(X[i - 1], Y[i - 1]), HashAnd(X[i - 1], Y[i - 1]))
  IN  carry

Borrow(X, Y, n) ==
  LET borrow[i \in 0 .. n] ==
        IF i = 0 THEN Const0
        ELSE HashMux(X[i - 1], HashAnd(borrow[i - 1], Y[i - 1]), HashOr(borrow[i - 1], Y[i - 1]))
  IN  borrow

SumBits(X, Y, n) ==
  [i \in Bits(n) |-> HashXor(Carry(X, Y, n)[i], HashXor(X[i], Y[i]))]

DifferenceBits(X, Y, n) ==
  [i \in Bits(n) |-> HashXor(HashMux(Borrow(X, Y, n)[i], LitNot(X[i]), X[i]), Y[i])]

\* An operation on concrete operands gives the word con, which the C
\* operators +, - and * wrap to WORD_BITS, not to the size of the vector.
Arithmetic(x, y, con, s) ==
  IF ~x.isSymbolic /\ ~y.isSymbolic THEN Concrete(x.size, con) ELSE Folded(x.size, s)

Zext(x) == int_zextend(x.conWord, x.size)

vec_add(x, y) ==
  Arithmetic(x, y, Zext(x) + Zext(y), SumBits(Lits(x), Lits(y), x.size))

vec_sub(x, y) ==
  Arithmetic(x, y, Zext(x) - Zext(y), DifferenceBits(Lits(x), Lits(y), x.size))

vec_carry(x, y) ==
  LET sum == int_zextend(x.conWord + y.conWord, x.size)
  IN  IF ~x.isSymbolic /\ ~y.isSymbolic
        THEN IF sum < Zext(x) \/ sum < Zext(y) THEN Const1 ELSE Const0
        ELSE Carry(Lits(x), Lits(y), x.size)[x.size]

\* A bit is inverted when one below it is set.
vec_negate(x) ==
  IF ~x.isSymbolic
    THEN Concrete(x.size, -int_sextend(x.conWord, x.size, WORD_BITS))
    ELSE Symbolic(x.size,
           [i \in Bits(x.size) |->
              HashMux(UNION {x.symWord[k] : k \in Bits(i)}, LitNot(x.symWord[i]), x.symWord[i])])

vec_abs(x) ==
  IF ~x.isSymbolic
    THEN IF BitLit(x.conWord, x.size - 1) = Const0 THEN x ELSE vec_negate(x)
    ELSE vec_ite(x.symWord[x.size - 1], vec_negate(x), x)
-----------------------------------------------------------------------------
(***************************************************************************)
(* Comparisons.                                                            *)
(***************************************************************************)
\* From the top bit down: the first bit in which X and Y differ makes the
\* result known.  start is the result, and whether it is known, before.
Greater(X, Y, n, start) ==
  LET from[i \in 0 .. n] ==   \* after bit i
        IF i = n THEN [known |-> start, ret |-> start]
        ELSE LET above == from[i + 1]
             IN  [known |-> HashOr(above.known, HashXor(X[i], Y[i])),
                  ret   |-> HashMux(above.known, above.ret, HashAnd(X[i], LitNot(Y[i])))]
  IN  from[0].ret

vec_equal(x, y) ==
  IF ~x.isSymbolic /\ ~y.isSymbolic
    THEN IF Zext(x) = Zext(y) THEN Const1 ELSE Const0
    ELSE {v \in Valuation : \A i \in Bits(x.size) : v \in Lits(x)[i] <=> v \in Lits(y)[i]}

\* A literal the solver may have made constant, assuming path.  The solver
\* answers no question it has no time for.
SolvedLit(path, l) ==
  {l} \cup (IF path \cap l = {} THEN {Const0} ELSE {})
      \cup (IF path \subseteq l THEN {Const1} ELSE {})

vec_equal_SAT(path, x, y) == SolvedLit(path, vec_equal(x, y))

\* What vec_concretize_with_SAT may leave in x.
vec_concretize_with_SAT(path, x) ==
  IF ~x.isSymbolic THEN {x}
  ELSE {Folded(x.size, s) :
          s \in {s \in [Bits(x.size) -> UNION {SolvedLit(path, x.symWord[i]) : i \in Bits(x.size)}] :
                   \A i \in Bits(x.size) : s[i] \in SolvedLit(path, x.symWord[i])}}

vec_greaterthan(x, y) ==
  IF ~x.isSymbolic /\ ~y.isSymbolic
    THEN IF Zext(x) > Zext(y) THEN Const1 ELSE Const0
    ELSE Greater(Lits(x), Lits(y), x.size, Const0)

\* Where the signs differ the positive one is greater, where both are
\* negative the one with the smaller absolute value.  The cases the code has
\* for signs that are constant or equal are this one with that put in.
vec_signed_greaterthan(x, y) ==
  LET sign_x == Lits(x)[x.size - 1]
      sign_y == Lits(y)[y.size - 1]
  IN  IF ~x.isSymbolic /\ ~y.isSymbolic
        THEN IF SignedWord(x) > SignedWord(y) THEN Const1 ELSE Const0
        ELSE HashMux(HashXor(sign_x, sign_y), LitNot(sign_x),
                     HashMux(sign_x, vec_greaterthan(vec_abs(y), vec_abs(x)),
                                     vec_greaterthan(x, y)))

vec_lessthan(x, y)        == vec_greaterthan(y, x)
vec_signed_lessthan(x, y) == vec_signed_greaterthan(y, x)
-----------------------------------------------------------------------------
(***************************************************************************)
(* Shifts.  At(s, j, k) is the literal that a shift of s by k puts at j.   *)
(***************************************************************************)
\* With a symbolic amount: shift by 2^i where bit i of the amount is set,
\* for each i in turn.  2^i is 1<<i, an int: the shifts compute no more of
\* them once one is above the size (short_circuit), the rotations do.
Barrel(s, n, amount, At(_, _, _)) ==
  LET after[i \in 0 .. amount.size] ==
        IF i = 0 THEN s
        ELSE [j \in Bits(n) |-> HashMux(amount.symWord[i - 1],
                                        At(after[i - 1], j, 2^(i - 1)), after[i - 1][j])]
  IN  after[amount.size]

Shift(x, amount, con, At(_, _, _)) ==
  CASE ~amount.isSymbolic /\ ~x.isSymbolic -> Concrete(x.size, con)
    [] ~amount.isSymbolic /\ x.isSymbolic ->
         Folded(x.size, [j \in Bits(x.size) |-> At(x.symWord, j, Zext(amount))])
    [] amount.isSymbolic -> Symbolic(x.size, Barrel(Lits(x), x.size, amount, At))

vec_shiftright(x, amount) ==
  Shift(x, amount, IF Zext(amount) >= x.size THEN 0 ELSE Zext(x) \div 2^Zext(amount),
        LAMBDA s, j, k : IF j + k < x.size THEN s[j + k] ELSE Const0)

\* >> on intmax_t keeps the sign; the word shifted is the extended one.
SignedShift(x, amount) ==
  Shift(x, amount,
        SignedWord(x) \div 2^(IF Zext(amount) >= x.size THEN WORD_BITS - 1 ELSE Zext(amount)),
        LAMBDA s, j, k : IF j + k < x.size THEN s[j + k] ELSE Lits(x)[x.size - 1])

\* The loop that looks for a literal that is not constant starts at the
\* amount.  From the size on it looks at none, and the copies of the sign are
\* made a word; vec_sym_to_con asserts that they are constant.
ShiftsOutAll(x, amount) ==
  x.isSymbolic /\ ~amount.isSymbolic /\ x.size <= WORD_BITS /\ Zext(amount) >= x.size

vec_signedshiftright(x, amount) ==
  IF ShiftsOutAll(x, amount)
    THEN Concrete(x.size, ConWord([j \in Bits(x.size) |-> x.symWord[x.size - 1]], x.size))
    ELSE SignedShift(x, amount)

SignedShiftAsserts(x, amount) == ShiftsOutAll(x, amount) => IsConst(x.symWord[x.size - 1])

vec_shiftleft(x, amount) ==
  Shift(x, amount, IF Zext(amount) >= x.size THEN 0 ELSE Zext(x) * 2^Zext(amount),
        LAMBDA s, j, k : IF k <= j THEN s[j - k] ELSE Const0)

\* Rotations take a concrete amount modulo the size, all bits of its word
\* included, and do not look for constants.
Rotate(x, amount, con, s, At(_, _, _)) ==
  CASE ~amount.isSymbolic /\ ~x.isSymbolic ->
         IF amount.conWord % x.size = 0 THEN x ELSE Concrete(x.size, int_zextend(con, x.size))
    [] ~amount.isSymbolic /\ x.isSymbolic -> Symbolic(x.size, s)
    [] amount.isSymbolic -> Symbolic(x.size, Barrel(Lits(x), x.size, amount, At))

vec_rotateright(x, amount) ==
  LET n == x.size
      m == amount.conWord % n
  IN  Rotate(x, amount, x.conWord * 2^(n - m) + (Zext(x) \div 2^m),
             [j \in Bits(n) |-> Lits(x)[(j + m) % n]],
             LAMBDA s, j, k : s[(j + k) % n])

\* Every 1<<i is defined.
RotationFitsInt(amount) == amount.isSymbolic => amount.size < INT_BITS

\* The second loop of the case with a concrete amount takes bit j for bit j.
vec_rotateleft(x, amount) ==
  LET n == x.size
      m == amount.conWord % n
  IN  Rotate(x, amount, x.conWord * 2^m + (Zext(x) \div 2^(n - m)),
             [j \in Bits(n) |-> Lits(x)[IF j < m THEN n - m + j ELSE j]],
             LAMBDA s, j, k : s[((n - k + j) % Words) % n])
-----------------------------------------------------------------------------
(***************************************************************************)
(* Products and quotients.                                                 *)
(***************************************************************************)
\* For each bit j of y, x is added to ret from bit j up, into tmp_vec.  The
\* bits of tmp_vec below j are those of the last bit of y that was added; if
\* bit j of y is the constant 1, ret becomes a copy of all of tmp_vec.
MultiplyBits(X, Y, n) ==
  LET zero == [i \in Bits(n) |-> Const0]
      after[j \in 0 .. n] ==
        IF j = 0 THEN [ret |-> zero, tmp |-> zero]
        ELSE LET p   == after[j - 1]
                 at  == j - 1
                 sum == SumBits(X, [i \in Bits(n - at) |-> p.ret[i + at]], n - at)
                 tmp == [i \in Bits(n) |-> IF i < at THEN p.tmp[i] ELSE sum[i - at]]
             IN  CASE Y[at] = Const0 -> p
                   [] Y[at] = Const1 -> [ret |-> tmp, tmp |-> tmp]
                   [] ~IsConst(Y[at]) ->
                        [ret |-> [i \in Bits(n) |-> IF i < at THEN p.ret[i]
                                                    ELSE HashMux(Y[at], tmp[i], p.ret[i])],
                         tmp |-> tmp]
  IN  after[n].ret

vec_mult(x, y) ==
  Arithmetic(x, y, Zext(x) * Zext(y), MultiplyBits(Lits(x), Lits(y), x.size))

\* Long division, from the top bit of the quotient down: bit j is set where y
\* shifted left by j loses no bit and is not greater than what remains, and
\* there it is subtracted.
DivisionBits(X, Y, n) ==
  LET above[j \in 0 .. n] ==   \* after bit j of the quotient
        IF j = n THEN [quot |-> [i \in Bits(n) |-> Const0], ret |-> X]
        ELSE LET p     == above[j + 1]
                 Yj    == [i \in Bits(n) |-> IF i >= j THEN Y[i - j] ELSE Const0]
                 lost  == UNION {Y[i] : i \in (n - j) .. n - 1}
                 bit   == LitNot(Greater(Yj, p.ret, n, lost))
                 minus == DifferenceBits(p.ret, Yj, n)
             IN  [quot |-> [p.quot EXCEPT ![j] = bit],
                  ret  |-> [i \in Bits(n) |-> HashMux(bit, minus[i], p.ret[i])]]
  IN  above[0]

vec_quot_rem(x, y, quot_rem) ==
  LET bits == DivisionBits(Lits(x), Lits(y), x.size)
  IN  IF quot_rem
        THEN Arithmetic(x, y, IF Zext(y) = 0 THEN -1 ELSE Zext(x) \div Zext(y), bits.quot)
        ELSE Arithmetic(x, y, IF Zext(y) = 0 THEN Zext(x) ELSE Zext(x) % Zext(y), bits.ret)
=============================================================================
