--------------------------- MODULE MCVectorProgram ---------------------------
(***************************************************************************)
(* Machine words of 4 bits, bytes of 2, and two inputs of one bit, a and b.*)
(***************************************************************************)
EXTENDS VectorProgram, Sequences

Two  == {1, 2}
Vals == 0 .. 3

a == {1, 3}
b == {2, 3}

Input(s) == vec_getInput(Len(s), [i \in Bits(Len(s)) |-> s[i + 1]])

\* Constants and inputs of a byte, of an odd size, of a word and wider.
Vectors ==
  {vec_setValue(2, 1), vec_setValue(2, 3), Input(<<a, b>>),
   vec_setValue(3, 5), Input(<<b, Const0, a>>),
   vec_setValue(4, 0), vec_setValue(4, 8), vec_setValue(4, 15),
   Input(<<a, b, Const1, Const0>>), Input(<<Const1, a, Const0, b>>),
   vec_setValue(6, 9), Input(<<b, Const0, a, Const0, Const0, b>>)}
=============================================================================
