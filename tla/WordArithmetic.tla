--------------------------- MODULE WordArithmetic ---------------------------
(***************************************************************************)
(* What the vector operations promise: arithmetic on n-bit machine words,  *)
(* which are the naturals below 2^n, written without bits wherever that is *)
(* possible.  Nothing here is taken from the code of the operations; their *)
(* names and comments say which of these functions each one stands for.    *)
(***************************************************************************)
EXTENDS Integers

Wrap(i, n)   == i % 2^n                                \* to n bits
SignBit(a, n) == a >= 2^(n - 1)
Signed(a, n) == IF SignBit(a, n) THEN a - 2^n ELSE a   \* two's complement
Abs(i)       == IF i < 0 THEN -i ELSE i
Truth(b)     == IF b THEN 1 ELSE 0

ADD(a, b, n)  == Wrap(a + b, n)
SUB(a, b, n)  == Wrap(a - b, n)
MULT(a, b, n) == Wrap(a * b, n)
NEG(a, n)     == Wrap(-a, n)
NOT(a, n)     == 2^n - 1 - a
ABS(a, n)     == Wrap(Abs(Signed(a, n)), n)

\* Division truncates; what a division by zero gives is the code's choice,
\* the same whether its operands are concrete or not.
Quotient(i, j) == IF (i < 0) = (j < 0) THEN Abs(i) \div Abs(j) ELSE -(Abs(i) \div Abs(j))
DIV(a, b, n)  == IF b = 0 THEN 2^n - 1 ELSE a \div b
REM(a, b, n)  == IF b = 0 THEN a ELSE a % b
SDIV(a, b, n) == IF b = 0 THEN 0 ELSE Wrap(Quotient(Signed(a, n), Signed(b, n)), n)
SREM(a, b, n) ==
  IF b = 0 THEN a
  ELSE Wrap(Signed(a, n) - Signed(b, n) * Quotient(Signed(a, n), Signed(b, n)), n)

\* Bit by bit, f giving the bit of the result.
BitByBit(a, b, n, f(_, _)) ==
  LET low[k \in 0 .. n] ==
        IF k = 0 THEN 0
        ELSE low[k - 1] + 2^(k - 1) * f((a \div 2^(k - 1)) % 2, (b \div 2^(k - 1)) % 2)
  IN  low[n]

AND(a, b, n) == BitByBit(a, b, n, LAMBDA p, q : p * q)
OR(a, b, n)  == BitByBit(a, b, n, LAMBDA p, q : p + q - p * q)
XOR(a, b, n) == BitByBit(a, b, n, LAMBDA p, q : (p + q) % 2)

\* Shifts by any amount, also by more than there are bits.
LEFT(a, k, n)   == IF k >= n THEN 0 ELSE Wrap(a * 2^k, n)
RIGHT(a, k, n)  == IF k >= n THEN 0 ELSE a \div 2^k
SRIGHT(a, k, n) == Wrap(Signed(a, n) \div 2^(IF k >= n THEN n ELSE k), n)
ROTR(a, k, n)   == LET m == k % n IN Wrap(a * 2^(n - m), n) + a \div 2^m
ROTL(a, k, n)   == ROTR(a, n - (k % n), n)

REVERSE(a, n) ==
  LET low[k \in 0 .. n] ==
        IF k = 0 THEN 0 ELSE 2 * low[k - 1] + ((a \div 2^(k - 1)) % 2)
  IN  low[n]

\* n bits of a from bit k on.
PIECE(a, k, n)  == Wrap(a \div 2^k, n)
SWAP(a, k, n)   ==                 \* the pieces of n bits of a word of k, reversed
  LET low[j \in 0 .. k] ==
        IF j = 0 THEN 0 ELSE low[j - 1] * 2^n + PIECE(a, (j - 1) * n, n)
  IN  low[k]
SEXT(a, n, m)   == Wrap(Signed(a, n), m)
CAT(a, b, n)    == a * 2^n + b      \* b has n bits

\* Comparisons and flags.
EQ(a, b, n)      == Truth(a = b)
GT(a, b, n)      == Truth(a > b)
SGT(a, b, n)     == Truth(Signed(a, n) > Signed(b, n))
CARRY(a, b, n)   == Truth(a + b >= 2^n)
SCARRY(a, b, n)  == Truth(Signed(a, n) + Signed(b, n) \notin -(2^(n - 1)) .. 2^(n - 1) - 1)
SBORROW(a, b, n) == Truth(Signed(a, n) - Signed(b, n) \notin -(2^(n - 1)) .. 2^(n - 1) - 1)
=============================================================================
