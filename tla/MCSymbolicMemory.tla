-------------------------- MODULE MCSymbolicMemory --------------------------
(***************************************************************************)
(* SymbolicMemory on two one-bit inputs, x (bit 0 of a valuation) and y    *)
(* (bit 1), with an address of one bit that is 0 or x.                     *)
(***************************************************************************)
EXTENDS SymbolicMemory

mcValuation == 0 .. 3
X == {1, 3}
Y == {2, 3}

OfX(a, b) == [v \in mcValuation |-> IF v \in X THEN a ELSE b]

mcCondition == {X, Y}
mcVectors == {OfX(0, 0), OfX(1, 0)}
mcWords == {<<OfX(1, 1)>>, <<OfX(2, 2), OfX(1, 2)>>}
mcOneWord == {<<OfX(2, 1)>>}
=============================================================================
