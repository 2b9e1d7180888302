------------------------ MODULE MCConditionalBranch -------------------------
(***************************************************************************)
(* ConditionalBranch on two one-bit inputs, x (bit 0 of a valuation) and y *)
(* (bit 1).  The program may branch on either, on a constant, and store    *)
(* a constant or a value that depends on x.                                *)
(***************************************************************************)
EXTENDS ConditionalBranch, TLC

CONSTANTS h1, h2, h3, h4, h5

mcValuation == 0 .. 3
X == {1, 3}
Y == {2, 3}

mcCondition == {X, Y}
mcConditionConst == {X, Y, Const0, Const1}

Constant(b) == [v \in mcValuation |-> b]
OfX(a, b)   == [v \in mcValuation |-> IF v \in X THEN a ELSE b]

\* A one-byte store, a two-byte one in each byte order, and one that is out
\* of the block's bounds.
mcStores ==
  {[address |-> 0, size |-> 1, big_endian |-> FALSE,
    bytes |-> [k \in 0 .. 0 |-> Constant(2)]],
   [address |-> 0, size |-> 2, big_endian |-> FALSE,
    bytes |-> [k \in 0 .. 1 |-> IF k = 0 THEN OfX(1, 3) ELSE Constant(0)]],
   [address |-> 0, size |-> 2, big_endian |-> TRUE,
    bytes |-> [k \in 0 .. 1 |-> IF k = 0 THEN Constant(3) ELSE OfX(2, 1)]],
   [address |-> 1, size |-> 2, big_endian |-> FALSE,
    bytes |-> [k \in 0 .. 1 |-> Constant(1)]]}

\* Only the first store, for the runs that look at nested conditionals.
mcOneStore == {[address |-> 0, size |-> 1, big_endian |-> FALSE,
                bytes |-> [k \in 0 .. 0 |-> OfX(2, 1)]]}

\* Both registers turned round, one copied to the other, and one load and one
\* store out of bounds.
mcMoves ==
  {[from |-> 0, to |-> 0, size |-> 2, from_big_endian |-> TRUE,  big_endian |-> FALSE],
   [from |-> 0, to |-> 1, size |-> 1, from_big_endian |-> FALSE, big_endian |-> TRUE],
   [from |-> 1, to |-> 0, size |-> 2, from_big_endian |-> FALSE, big_endian |-> FALSE],
   [from |-> 0, to |-> 1, size |-> 2, from_big_endian |-> FALSE, big_endian |-> FALSE]}

\* An allocation whose size depends on x.
mcMallocSizes == {OfX(1, 2)}

HandleSymmetry == Permutations({h1, h2, h3, h4, h5})
=============================================================================
