------------------------------ MODULE Literals ------------------------------
(***************************************************************************)
(* Vectors of literals as the memories and conditional_branch see them: a  *)
(* function from valuations to the value the vector has under each of      *)
(* them; the library's concrete vectors are the constant functions.  The   *)
(* bits are the subject of BitVectors.                                     *)
(***************************************************************************)
EXTENDS Aig

(***************************************************************************)
(* vec_getConstant: the same value under every valuation.                  *)
(***************************************************************************)
vec_getConstant(x) == [v \in Valuation |-> x]

(***************************************************************************)
(* vec_ite on two vectors: x where c holds and y elsewhere.  The code has  *)
(* a case for constant literals and one that muxes bit by bit; on          *)
(* valuations the two are this one function.                               *)
(***************************************************************************)
vec_ite(c, x, y) == [v \in Valuation |-> IF v \in c THEN x[v] ELSE y[v]]
=============================================================================
