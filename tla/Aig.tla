-------------------------------- MODULE Aig ---------------------------------
(***************************************************************************)
(* Literals of the and-inverter graph (AIG) that ABC keeps for the library.*)
(*                                                                         *)
(* A literal stands for a Boolean function of the symbolic inputs.  It is  *)
(* modelled by the set of input valuations under which it is true.  ABC    *)
(* itself is outside src/: its operators are modelled by what the library  *)
(* asks of them.  Literals of the same function are the same literal: the  *)
(* graph finds a literal constant whenever it is.  A literal that the      *)
(* code's graph fails to fold behaves as one that differs from a constant  *)
(* on one more valuation.                                                  *)
(***************************************************************************)
EXTENDS Integers

CONSTANT Valuation  \* the assignments of values to the symbolic inputs

Literal == SUBSET Valuation

Const0 == {}            \* Gia_ManConst0Lit
Const1 == Valuation     \* Gia_ManConst1Lit

IsConst(l) == l \in {Const0, Const1}               \* Gia_ManIsConstLit

LitNot(l)        == Valuation \ l                  \* Abc_LitNot
HashAnd(k, l)    == k \cap l                       \* Gia_ManHashAnd
HashOr(k, l)     == k \cup l                       \* Gia_ManHashOr
HashXor(k, l)    == (k \ l) \cup (l \ k)           \* Gia_ManHashXor
HashMux(c, t, f) == (c \cap t) \cup (f \ c)        \* Gia_ManHashMux

\* The literal "node = value" that push_condition hands to the sweeper.
LitIs(node, value) == IF value THEN node ELSE LitNot(node)

(***************************************************************************)
(* Gia_SweeperCondCheckUnsat under the assumptions whose conjunction is l: *)
(* 1 when they are unsatisfiable, 0 when they are not, and -1 (undecided)  *)
(* when set_sat_solver_limits gave the solver a limit and it ran into it.  *)
(***************************************************************************)
CondCheckUnsat(l, limited) ==
  {IF l = {} THEN 1 ELSE 0} \cup (IF limited THEN {-1} ELSE {})
=============================================================================
