------------------------ MODULE VectorProgram_proofs ------------------------
(***************************************************************************)
(* Proofs about the vector operations and the programs made of them, for   *)
(* every width of a machine word and of a byte, all sizes of vectors and   *)
(* any valuations.                                                         *)
(***************************************************************************)
EXTENDS VectorProgram, FiniteSetTheorems, WellFoundedInduction, TLAPS

(***************************************************************************)
(* Induction and recursion on numbers, by least elements.                  *)
(***************************************************************************)
LEMMA LeastElement ==
  ASSUME NEW S, S \subseteq Nat, S # {}
  PROVE  \E m \in S : \A k \in S : m <= k
<1> DEFINE Less == {pair \in Nat \X Nat : pair[1] < pair[2]}
<1>1. IsWellFoundedOn(Less, Nat)
  BY NatLessThanWellFounded DEF OpToRel
<1>2. \E m \in S : \A k \in S : <<k, m>> \notin Less
  <2> HIDE DEF Less
  <2> QED BY <1>1, WFMin, Zenon
<1>3. PICK m \in S : \A k \in S : <<k, m>> \notin Less
  BY <1>2
<1>4. \A k \in S : ~ (k < m)
  <2> TAKE k \in S
  <2>1. <<k, m>> \in Nat \X Nat
    OBVIOUS
  <2> QED BY <1>3, <2>1
<1> QED BY <1>4

LEMMA UpTo ==
  ASSUME NEW n \in Nat, NEW G, 0 \in G, \A k \in 1 .. n : k - 1 \in G => k \in G
  PROVE  0 .. n \subseteq G
<1> DEFINE T == (0 .. n) \ G
<1> SUFFICES ASSUME T # {} PROVE FALSE
  OBVIOUS
<1>1. T \subseteq Nat
  OBVIOUS
<1>2. PICK m \in T : \A k \in T : m <= k
  <2> HIDE DEF T
  <2> QED BY <1>1, LeastElement, Zenon
<1>3. m \in 1 .. n
  OBVIOUS
<1>4. m - 1 \in 0 .. n /\ ~ (m <= m - 1)
  BY <1>3
<1> QED BY <1>2, <1>3, <1>4

Steps(n, S) == [1 .. n -> [S -> S]]

\* f is base and then what step makes of the value before.
StepByStep(f, n, S, base, step) ==
  f \in [0 .. n -> S] /\ f[0] = base /\ \A k \in 1 .. n : f[k] = step[k][f[k - 1]]

LEMMA Recursion ==
  ASSUME NEW n \in Nat, NEW S, NEW base \in S, NEW step \in Steps(n, S)
  PROVE  \E f : StepByStep(f, n, S, base, step)
<1> DEFINE Has(j) == \E f \in [0 .. n -> S] :
                       f[0] = base /\ \A k \in 1 .. j : f[k] = step[k][f[k - 1]]
           G == {j \in 0 .. n : Has(j)}
<1>1. 0 \in G
  <2> DEFINE f == [k \in 0 .. n |-> base]
  <2>1. f \in [0 .. n -> S] /\ f[0] = base
    OBVIOUS
  <2> HIDE DEF f
  <2>2. \A k \in 1 .. 0 : f[k] = step[k][f[k - 1]]
    OBVIOUS
  <2>3. Has(0)
    BY <2>1, <2>2
  <2> QED BY <2>3
<1>2. ASSUME NEW j \in 1 .. n, j - 1 \in G
      PROVE  j \in G
  <2>1. PICK f \in [0 .. n -> S] :
               f[0] = base /\ \A k \in 1 .. (j - 1) : f[k] = step[k][f[k - 1]]
    BY <1>2
  <2> DEFINE g == [f EXCEPT ![j] = step[j][f[j - 1]]]
  <2>2. step[j][f[j - 1]] \in S
    BY DEF Steps
  <2>3. g \in [0 .. n -> S] /\ g[j] = step[j][f[j - 1]] /\ \A k \in 0 .. (j - 1) : g[k] = f[k]
    BY <2>2
  <2> HIDE DEF g
  <2>4. g[0] = base
    BY <2>1, <2>3
  <2>5. ASSUME NEW k \in 1 .. j PROVE g[k] = step[k][g[k - 1]]
    <3>1. k - 1 \in 0 .. (j - 1)
      OBVIOUS
    <3>2. CASE k = j
      BY <2>3, <3>1, <3>2
    <3>3. CASE k # j
      <4>1. k \in 1 .. (j - 1) /\ k \in 0 .. (j - 1)
        BY <3>3
      <4> QED BY <2>1, <2>3, <3>1, <4>1
    <3> QED BY <3>2, <3>3
  <2>6. Has(j)
    BY <2>3, <2>4, <2>5
  <2> QED BY <2>6
<1>3. 0 .. n \subseteq G
  <2> HIDE DEF G
  <2> QED BY <1>1, <1>2, UpTo
<1>4. Has(n)
  BY <1>3
<1> QED BY <1>4 DEF StepByStep
-----------------------------------------------------------------------------
(***************************************************************************)
(* Powers of two, as the numbers of subsets.                               *)
(***************************************************************************)
LEMMA PowerType == \A n \in Nat : 2^n \in Nat \ {0}
<1> TAKE n \in Nat
<1> DEFINE S == SUBSET (1 .. n)
<1>1. IsFiniteSet(1 .. n) /\ Cardinality(1 .. n) = n
  BY FS_Interval
<1>2. IsFiniteSet(S) /\ Cardinality(S) = 2^n
  BY <1>1, FS_SUBSET
<1>3. S # {}
  OBVIOUS
<1>4. Cardinality(S) \in Nat /\ Cardinality(S) # 0
  <2> HIDE DEF S
  <2> QED BY <1>2, <1>3, FS_CardinalityType, FS_EmptySet
<1> QED BY <1>2, <1>4

LEMMA ModType ==
  ASSUME NEW a \in Int, NEW m \in Nat \ {0}
  PROVE  a % m \in 0 .. m - 1 /\ a \div m \in Int /\ (a \in Nat => a \div m \in Nat)
OBVIOUS

LEMMA WordsType == Words \in Nat \ {0} /\ WORD_BITS \in Nat \ {0} /\ BITS_IN_BYTE \in 1 .. WORD_BITS
BY PowerType, BitVectorsAssumption DEF Words
-----------------------------------------------------------------------------
(***************************************************************************)
(* Types of literals and vectors.                                          *)
(***************************************************************************)
LEMMA LiteralType ==
  /\ Const0 \in Literal /\ Const1 \in Literal
  /\ \A a \in Literal : LitNot(a) \in Literal
  /\ \A a, b \in Literal : /\ HashAnd(a, b) \in Literal
                           /\ HashOr(a, b) \in Literal
                           /\ HashXor(a, b) \in Literal
  /\ \A a, b, c \in Literal : HashMux(a, b, c) \in Literal
  /\ \A w, i : BitLit(w, i) \in Literal
BY DEF Literal, Const0, Const1, LitNot, HashAnd, HashOr, HashXor, HashMux, BitLit

\* Literals for n bits, and the vectors of n bits.
LitVec(n) == [Bits(n) -> Literal]

Sized(x, n) == IsVector(x) /\ x.size = n

LEMMA ConcreteType ==
  ASSUME NEW n \in Nat \ {0}, n <= WORD_BITS, NEW w \in Int
  PROVE  Sized(Concrete(n, w), n)
<1>1. w % Words \in 0 .. Words - 1
  BY WordsType, ModType
<1> QED BY <1>1 DEF Sized, IsVector, Concrete

LEMMA SymbolicType ==
  ASSUME NEW n \in Nat \ {0}, NEW s \in LitVec(n)
  PROVE  Sized(Symbolic(n, s), n)
BY DEF Sized, IsVector, Symbolic, LitVec

LEMMA SizedFacts ==
  ASSUME NEW n, NEW x, Sized(x, n)
  PROVE  /\ n \in Nat \ {0}
         /\ x.size = n
         /\ x.isSymbolic \in BOOLEAN
         /\ Lits(x) \in LitVec(n)
         /\ x.isSymbolic => x.symWord \in LitVec(n) /\ Lits(x) = x.symWord
         /\ ~x.isSymbolic => /\ n <= WORD_BITS
                             /\ x.conWord \in 0 .. Words - 1
                             /\ x.conWord \in Nat
                             /\ Zext(x) \in Nat
<1>1. CASE x.isSymbolic
  BY <1>1 DEF Sized, IsVector, Lits, LitVec
<1>2. CASE ~x.isSymbolic
  <2>1. n \in Nat \ {0} /\ x.size = n /\ n <= WORD_BITS /\ x.conWord \in 0 .. Words - 1
    BY <1>2 DEF Sized, IsVector
  <2>2. x.conWord \in Nat
    BY <2>1, WordsType
  <2>3. Zext(x) \in Nat
    <3> DEFINE m == 2^n
    <3>1. m \in Nat \ {0}
      BY <2>1, PowerType
    <3>2. Zext(x) = x.conWord % m
      BY <2>1 DEF Zext, int_zextend
    <3> HIDE DEF m
    <3> QED BY <2>2, <3>1, <3>2
  <2>4. Lits(x) \in LitVec(n)
    BY <1>2, <2>1, LiteralType DEF Lits, LitVec
  <2> QED BY <1>2, <2>1, <2>2, <2>3, <2>4 DEF Sized, IsVector
<1> QED BY <1>1, <1>2 DEF Sized, IsVector

\* The first n literals of s, which may have more.
HasBits(s, n) == \A i \in Bits(n) : s[i] \in Literal

LEMMA LitVecHasBits ==
  ASSUME NEW n, NEW s \in LitVec(n)
  PROVE  HasBits(s, n)
BY DEF LitVec, HasBits

LEMMA LitType ==
  ASSUME NEW n, NEW s \in LitVec(n), NEW i \in Bits(n)
  PROVE  s[i] \in Literal
BY DEF LitVec

LEMMA ConWordIs ==
  ASSUME NEW n \in Nat, NEW s
  PROVE  /\ ConWord(s, n) \in Nat
         /\ \E word \in [0 .. n -> Nat] :
              /\ word[0] = 0
              /\ \A i \in 1 .. n :
                   word[i] = word[i - 1] + (IF s[i - 1] = Const1 THEN 2^(i - 1) ELSE 0)
              /\ ConWord(s, n) = word[n]
<1> DEFINE add(i) == IF s[i - 1] = Const1 THEN 2^(i - 1) ELSE 0
           step == [i \in 1 .. n |-> [w \in Nat |-> w + add(i)]]
           Is(f) == f = [i \in 0 .. n |-> IF i = 0 THEN 0 ELSE f[i - 1] + add(i)]
           word == CHOOSE f : Is(f)
<1>1. \A i \in 1 .. n : add(i) \in Nat
  BY PowerType
<1> HIDE DEF add
<1>2. step \in Steps(n, Nat)
  BY <1>1 DEF Steps
<1>3. PICK f : StepByStep(f, n, Nat, 0, step)
  <2> HIDE DEF step
  <2> QED BY <1>2, Recursion
<1>4. Is(f)
  <2>1. \A i \in 0 .. n : f[i] = IF i = 0 THEN 0 ELSE f[i - 1] + add(i)
    <3>1. \A i \in 1 .. n : f[i - 1] \in Nat /\ f[i] = step[i][f[i - 1]]
      BY <1>3 DEF StepByStep
    <3>2. \A i \in 1 .. n : f[i] = f[i - 1] + add(i)
      BY <3>1
    <3>3. f[0] = 0
      BY <1>3 DEF StepByStep
    <3> QED BY <3>2, <3>3
  <2>2. f \in [0 .. n -> Nat]
    BY <1>3 DEF StepByStep
  <2> QED BY ONLY <2>1, <2>2
<1>5. Is(word)
  BY <1>4
<1>6. ConWord(s, n) = word[n]
  BY DEF ConWord, add
<1> HIDE DEF word
<1>7. word[0] = 0 /\ \A i \in 1 .. n : word[i] = word[i - 1] + add(i)
  BY <1>5
<1>8. \A i \in 0 .. n : word[i] \in Nat
  <2> DEFINE G == {i \in 0 .. n : word[i] \in Nat}
  <2>1. 0 \in G /\ \A i \in 1 .. n : i - 1 \in G => i \in G
    BY <1>1, <1>7
  <2> HIDE DEF G
  <2>2. 0 .. n \subseteq G
    BY <2>1, UpTo
  <2> QED BY <2>2 DEF G
<1>9. word \in [0 .. n -> Nat]
  BY <1>5, <1>8
<1> QED BY <1>6, <1>7, <1>9 DEF add

LEMMA FoldedType ==
  ASSUME NEW n \in Nat \ {0}, NEW s \in LitVec(n)
  PROVE  Sized(Folded(n, s), n)
<1>1. ConWord(s, n) \in Int
  BY ConWordIs
<1> QED BY <1>1, ConcreteType, SymbolicType DEF Folded
-----------------------------------------------------------------------------
(***************************************************************************)
(* The loops over bits: what goes from one bit to the next is a literal.   *)
(***************************************************************************)
CarryStep(X, Y, i, c) == HashMux(c, HashOr(X[i - 1], Y[i - 1]), HashAnd(X[i - 1], Y[i - 1]))

BorrowStep(X, Y, i, c) == HashMux(X[i - 1], HashAnd(c, Y[i - 1]), HashOr(c, Y[i - 1]))

LEMMA CarryIs ==
  ASSUME NEW n \in Nat, NEW X, NEW Y, HasBits(X, n), HasBits(Y, n)
  PROVE  /\ Carry(X, Y, n) \in [0 .. n -> Literal]
         /\ Carry(X, Y, n)[0] = Const0
         /\ \A i \in 1 .. n : Carry(X, Y, n)[i] = CarryStep(X, Y, i, Carry(X, Y, n)[i - 1])
<1> DEFINE next(i, c) == CarryStep(X, Y, i, c)
           step == [i \in 1 .. n |-> [c \in Literal |-> next(i, c)]]
           Is(f) == f = [i \in 0 .. n |-> IF i = 0 THEN Const0 ELSE next(i, f[i - 1])]
           carry == CHOOSE f : Is(f)
<1>1. \A i \in 1 .. n, c \in Literal : next(i, c) \in Literal
  <2> TAKE i \in 1 .. n, c \in Literal
  <2>1. X[i - 1] \in Literal /\ Y[i - 1] \in Literal
    BY DEF HasBits, Bits
  <2> QED BY <2>1, LiteralType DEF CarryStep
<1>2. Carry(X, Y, n) = carry
  BY DEF Carry, CarryStep
<1> HIDE DEF next
<1>3. step \in Steps(n, Literal)
  BY <1>1 DEF Steps
<1>4. PICK f : StepByStep(f, n, Literal, Const0, step)
  <2> HIDE DEF step
  <2> QED BY <1>3, LiteralType, Recursion
<1>5. Is(f)
  <2>1. f \in [0 .. n -> Literal] /\ f[0] = Const0
    BY <1>4 DEF StepByStep
  <2>2. \A i \in 1 .. n : f[i - 1] \in Literal /\ f[i] = step[i][f[i - 1]]
    BY <1>4 DEF StepByStep
  <2>3. \A i \in 1 .. n : f[i] = next(i, f[i - 1])
    BY <2>2
  <2>4. \A i \in 0 .. n : f[i] = IF i = 0 THEN Const0 ELSE next(i, f[i - 1])
    BY <2>1, <2>3
  <2> QED BY ONLY <2>1, <2>4
<1>6. Is(carry)
  BY <1>5
<1> HIDE DEF carry
<1>7. carry[0] = Const0 /\ \A i \in 1 .. n : carry[i] = next(i, carry[i - 1])
  BY <1>6
<1>8. \A i \in 0 .. n : carry[i] \in Literal
  <2> DEFINE G == {i \in 0 .. n : carry[i] \in Literal}
  <2>1. 0 \in G /\ \A i \in 1 .. n : i - 1 \in G => i \in G
    BY <1>1, <1>7, LiteralType
  <2> HIDE DEF G
  <2>2. 0 .. n \subseteq G
    BY <2>1, UpTo
  <2> QED BY <2>2 DEF G
<1>9. carry \in [0 .. n -> Literal]
  BY <1>6, <1>8
<1> QED BY <1>2, <1>7, <1>9 DEF next

LEMMA BorrowIs ==
  ASSUME NEW n \in Nat, NEW X, NEW Y, HasBits(X, n), HasBits(Y, n)
  PROVE  /\ Borrow(X, Y, n) \in [0 .. n -> Literal]
         /\ Borrow(X, Y, n)[0] = Const0
         /\ \A i \in 1 .. n : Borrow(X, Y, n)[i] = BorrowStep(X, Y, i, Borrow(X, Y, n)[i - 1])
<1> DEFINE next(i, c) == BorrowStep(X, Y, i, c)
           step == [i \in 1 .. n |-> [c \in Literal |-> next(i, c)]]
           Is(f) == f = [i \in 0 .. n |-> IF i = 0 THEN Const0 ELSE next(i, f[i - 1])]
           borrow == CHOOSE f : Is(f)
<1>1. \A i \in 1 .. n, c \in Literal : next(i, c) \in Literal
  <2> TAKE i \in 1 .. n, c \in Literal
  <2>1. X[i - 1] \in Literal /\ Y[i - 1] \in Literal
    BY DEF HasBits, Bits
  <2> QED BY <2>1, LiteralType DEF BorrowStep
<1>2. Borrow(X, Y, n) = borrow
  BY DEF Borrow, BorrowStep
<1> HIDE DEF next
<1>3. step \in Steps(n, Literal)
  BY <1>1 DEF Steps
<1>4. PICK f : StepByStep(f, n, Literal, Const0, step)
  <2> HIDE DEF step
  <2> QED BY <1>3, LiteralType, Recursion
<1>5. Is(f)
  <2>1. f \in [0 .. n -> Literal] /\ f[0] = Const0
    BY <1>4 DEF StepByStep
  <2>2. \A i \in 1 .. n : f[i - 1] \in Literal /\ f[i] = step[i][f[i - 1]]
    BY <1>4 DEF StepByStep
  <2>3. \A i \in 1 .. n : f[i] = next(i, f[i - 1])
    BY <2>2
  <2>4. \A i \in 0 .. n : f[i] = IF i = 0 THEN Const0 ELSE next(i, f[i - 1])
    BY <2>1, <2>3
  <2> QED BY ONLY <2>1, <2>4
<1>6. Is(borrow)
  BY <1>5
<1> HIDE DEF borrow
<1>7. borrow[0] = Const0 /\ \A i \in 1 .. n : borrow[i] = next(i, borrow[i - 1])
  BY <1>6
<1>8. \A i \in 0 .. n : borrow[i] \in Literal
  <2> DEFINE G == {i \in 0 .. n : borrow[i] \in Literal}
  <2>1. 0 \in G /\ \A i \in 1 .. n : i - 1 \in G => i \in G
    BY <1>1, <1>7, LiteralType
  <2> HIDE DEF G
  <2>2. 0 .. n \subseteq G
    BY <2>1, UpTo
  <2> QED BY <2>2 DEF G
<1>9. borrow \in [0 .. n -> Literal]
  BY <1>6, <1>8
<1> QED BY <1>2, <1>7, <1>9 DEF next

LEMMA SumType ==
  ASSUME NEW n \in Nat, NEW X, NEW Y, HasBits(X, n), HasBits(Y, n)
  PROVE  SumBits(X, Y, n) \in LitVec(n) /\ DifferenceBits(X, Y, n) \in LitVec(n)
<1>1. ASSUME NEW i \in Bits(n)
      PROVE  /\ X[i] \in Literal /\ Y[i] \in Literal
             /\ Carry(X, Y, n)[i] \in Literal /\ Borrow(X, Y, n)[i] \in Literal
  <2>1. i \in 0 .. n
    BY DEF Bits
  <2> QED BY <2>1, CarryIs, BorrowIs DEF HasBits
<1>2. ASSUME NEW i \in Bits(n)
      PROVE  /\ HashXor(Carry(X, Y, n)[i], HashXor(X[i], Y[i])) \in Literal
             /\ HashXor(HashMux(Borrow(X, Y, n)[i], LitNot(X[i]), X[i]), Y[i]) \in Literal
  BY <1>1, LiteralType
<1> QED BY <1>2 DEF SumBits, DifferenceBits, LitVec
\* What the loop of vec_greaterthan knows after bit i, from what it knew before.
Comparison == [known : Literal, ret : Literal]

GreaterStep(X, Y, i, above) ==
  [known |-> HashOr(above.known, HashXor(X[i], Y[i])),
   ret   |-> HashMux(above.known, above.ret, HashAnd(X[i], LitNot(Y[i])))]

LEMMA GreaterIs ==
  ASSUME NEW n \in Nat, NEW X, NEW Y, HasBits(X, n), HasBits(Y, n), NEW start \in Literal
  PROVE  \E from \in [0 .. n -> Comparison] :
           /\ from[n] = [known |-> start, ret |-> start]
           /\ \A i \in Bits(n) : from[i] = GreaterStep(X, Y, i, from[i + 1])
           /\ Greater(X, Y, n, start) = from[0].ret
<1> DEFINE next(i, c) == GreaterStep(X, Y, i, c)
           first == [known |-> start, ret |-> start]
           step == [k \in 1 .. n |-> [c \in Comparison |-> next(n - k, c)]]
           Is(f) == f = [i \in 0 .. n |-> IF i = n THEN first ELSE next(i, f[i + 1])]
           from == CHOOSE f : Is(f)
<1>1. \A i \in Bits(n), c \in Comparison : next(i, c) \in Comparison
  <2> TAKE i \in Bits(n), c \in Comparison
  <2>1. X[i] \in Literal /\ Y[i] \in Literal /\ c.known \in Literal /\ c.ret \in Literal
    BY DEF HasBits, Comparison
  <2> QED BY <2>1, LiteralType DEF GreaterStep, Comparison
<1>2. Greater(X, Y, n, start) = from[0].ret
  BY DEF Greater, GreaterStep
<1>3. first \in Comparison
  BY DEF Comparison
<1> HIDE DEF next, first
<1>4. step \in Steps(n, Comparison)
  <2>1. \A k \in 1 .. n : n - k \in Bits(n)
    BY DEF Bits
  <2> QED BY <1>1, <2>1 DEF Steps
<1>5. PICK g : StepByStep(g, n, Comparison, first, step)
  <2> HIDE DEF step
  <2> QED BY <1>3, <1>4, Recursion
<1>6. \E f : Is(f)
  <2> DEFINE f == [i \in 0 .. n |-> g[n - i]]
  <2>1. g \in [0 .. n -> Comparison] /\ g[0] = first
    BY <1>5 DEF StepByStep
  <2>2. \A k \in 1 .. n : g[k - 1] \in Comparison /\ g[k] = step[k][g[k - 1]]
    BY <1>5 DEF StepByStep
  <2>3. \A k \in 1 .. n : g[k] = next(n - k, g[k - 1])
    BY <2>2
  <2>4. f[n] = first /\ \A i \in 0 .. n : f[i] = g[n - i]
    BY <2>1
  <2>5. ASSUME NEW i \in 0 .. n, i # n
        PROVE  f[i] = next(i, f[i + 1])
    <3>1. n - i \in 1 .. n /\ n - (n - i) = i /\ (n - i) - 1 = n - (i + 1) /\ i + 1 \in 0 .. n
      BY <2>5
    <3>2. g[n - i] = next(n - (n - i), g[(n - i) - 1])
      BY <2>3, <3>1
    <3> QED BY <2>4, <3>1, <3>2
  <2>6. f = [i \in 0 .. n |-> f[i]]
    OBVIOUS
  <2> HIDE DEF f
  <2>7. Is(f)
    BY <2>4, <2>5, <2>6
  <2> QED BY <2>7
<1>7. Is(from)
  BY <1>6
<1> HIDE DEF from
<1>8. from[n] = first /\ \A i \in Bits(n) : from[i] = next(i, from[i + 1])
  BY <1>7 DEF Bits
<1>9. \A i \in 0 .. n : from[i] \in Comparison
  <2> DEFINE G == {k \in 0 .. n : from[n - k] \in Comparison}
  <2>1. 0 \in G
    BY <1>3, <1>8
  <2>2. ASSUME NEW k \in 1 .. n, k - 1 \in G
        PROVE  k \in G
    <3>1. n - k \in Bits(n) /\ n - (k - 1) = (n - k) + 1
      BY DEF Bits
    <3> QED BY <1>1, <1>8, <2>2, <3>1
  <2> HIDE DEF G
  <2>3. 0 .. n \subseteq G
    BY <2>1, <2>2, UpTo
  <2>4. \A i \in 0 .. n : n - i \in 0 .. n /\ n - (n - i) = i
    OBVIOUS
  <2> QED BY <2>3, <2>4 DEF G
<1>10. from \in [0 .. n -> Comparison]
  BY <1>7, <1>9
<1> QED BY <1>2, <1>8, <1>10 DEF next, first

LEMMA GreaterType ==
  ASSUME NEW n \in Nat, NEW X, NEW Y, HasBits(X, n), HasBits(Y, n), NEW start \in Literal
  PROVE  Greater(X, Y, n, start) \in Literal
<1>1. PICK from \in [0 .. n -> Comparison] :
             /\ from[n] = [known |-> start, ret |-> start]
             /\ \A i \in Bits(n) : from[i] = GreaterStep(X, Y, i, from[i + 1])
             /\ Greater(X, Y, n, start) = from[0].ret
  BY GreaterIs
<1>2. from[0] \in Comparison
  OBVIOUS
<1> QED BY <1>1, <1>2 DEF Comparison
\* The loop of vec_mult on bit j - 1 of the multiplier.
Product(n) == [ret : LitVec(n), tmp : LitVec(n)]

MultiplyStep(X, Y, n, j, p) ==
  LET at  == j - 1
      sum == SumBits(X, [i \in Bits(n) |-> p.ret[i + at]], n - at)
      tmp == [i \in Bits(n) |-> IF i < at THEN p.tmp[i] ELSE sum[i - at]]
  IN  CASE Y[at] = Const0 -> p
        [] Y[at] = Const1 -> [ret |-> tmp, tmp |-> tmp]
        [] ~IsConst(Y[at]) ->
             [ret |-> [i \in Bits(n) |-> IF i < at THEN p.ret[i]
                                         ELSE HashMux(Y[at], tmp[i], p.ret[i])],
              tmp |-> tmp]

LEMMA MultiplyStepType ==
  ASSUME NEW n \in Nat, NEW X \in LitVec(n), NEW Y \in LitVec(n), NEW j \in 1 .. n,
         NEW p \in Product(n)
  PROVE  MultiplyStep(X, Y, n, j, p) \in Product(n)
<1> DEFINE at  == j - 1
           rest == [i \in Bits(n) |-> p.ret[i + at]]
           sum == SumBits(X, rest, n - at)
           tmp == [i \in Bits(n) |-> IF i < at THEN p.tmp[i] ELSE sum[i - at]]
           ret == [i \in Bits(n) |-> IF i < at THEN p.ret[i] ELSE HashMux(Y[at], tmp[i], p.ret[i])]
<1>1. at \in Bits(n) /\ n - at \in Nat
  BY DEF Bits
<1>2. p.ret \in LitVec(n) /\ p.tmp \in LitVec(n) /\ p = [ret |-> p.ret, tmp |-> p.tmp]
  BY DEF Product
<1>3. HasBits(X, n - at) /\ HasBits(rest, n - at)
  <2>1. \A i \in Bits(n - at) : i \in Bits(n) /\ i + at \in Bits(n)
    BY DEF Bits
  <2> QED BY <1>2, <2>1 DEF HasBits, LitVec
<1>4. sum \in LitVec(n - at)
  BY <1>1, <1>3, SumType
<1> HIDE DEF sum
<1>5. tmp \in LitVec(n)
  <2>1. \A i \in Bits(n) : ~(i < at) => i - at \in Bits(n - at)
    BY <1>1 DEF Bits
  <2>2. \A i \in Bits(n) : p.tmp[i] \in Literal /\ (~(i < at) => sum[i - at] \in Literal)
    BY <1>2, <1>4, <2>1 DEF LitVec
  <2> QED BY <2>2 DEF LitVec
<1>6. Y[at] \in Literal
  BY <1>1 DEF LitVec
<1>7. ret \in LitVec(n)
  <2> HIDE DEF tmp, at
  <2>1. \A i \in Bits(n) : p.ret[i] \in Literal /\ HashMux(Y[at], tmp[i], p.ret[i]) \in Literal
    BY <1>2, <1>5, <1>6, LiteralType DEF LitVec
  <2> QED BY <2>1 DEF LitVec
<1>8. \/ MultiplyStep(X, Y, n, j, p) = p
      \/ MultiplyStep(X, Y, n, j, p) = [ret |-> tmp, tmp |-> tmp]
      \/ MultiplyStep(X, Y, n, j, p) = [ret |-> ret, tmp |-> tmp]
  BY <1>6 DEF MultiplyStep, sum, IsConst
<1> HIDE DEF tmp, ret
<1> QED BY <1>5, <1>7, <1>8 DEF Product

LEMMA MultiplyIs ==
  ASSUME NEW n \in Nat, NEW X \in LitVec(n), NEW Y \in LitVec(n)
  PROVE  \E after \in [0 .. n -> Product(n)] :
           /\ after[0] = [ret |-> [i \in Bits(n) |-> Const0], tmp |-> [i \in Bits(n) |-> Const0]]
           /\ \A j \in 1 .. n : after[j] = MultiplyStep(X, Y, n, j, after[j - 1])
           /\ MultiplyBits(X, Y, n) = after[n].ret
<1> DEFINE next(j, p) == MultiplyStep(X, Y, n, j, p)
           zero == [i \in Bits(n) |-> Const0]
           first == [ret |-> zero, tmp |-> zero]
           step == [j \in 1 .. n |-> [p \in Product(n) |-> next(j, p)]]
           Is(f) == f = [j \in 0 .. n |-> IF j = 0 THEN first ELSE next(j, f[j - 1])]
           after == CHOOSE f : Is(f)
<1>1. \A j \in 1 .. n, p \in Product(n) : next(j, p) \in Product(n)
  BY MultiplyStepType
<1>2. MultiplyBits(X, Y, n) = after[n].ret
  BY DEF MultiplyBits, MultiplyStep
<1>3. first \in Product(n)
  BY LiteralType DEF Product, LitVec
<1> HIDE DEF next, first
<1>4. step \in Steps(n, Product(n))
  BY <1>1 DEF Steps
<1>5. PICK f : StepByStep(f, n, Product(n), first, step)
  <2> HIDE DEF step
  <2> QED BY <1>3, <1>4, Recursion
<1>6. Is(f)
  <2>1. f \in [0 .. n -> Product(n)] /\ f[0] = first
    BY <1>5 DEF StepByStep
  <2>2. \A j \in 1 .. n : f[j - 1] \in Product(n) /\ f[j] = step[j][f[j - 1]]
    BY <1>5 DEF StepByStep
  <2>3. \A j \in 1 .. n : f[j] = next(j, f[j - 1])
    BY <2>2
  <2>4. \A j \in 0 .. n : f[j] = IF j = 0 THEN first ELSE next(j, f[j - 1])
    BY <2>1, <2>3
  <2> QED BY ONLY <2>1, <2>4
<1>7. Is(after)
  BY <1>6
<1> HIDE DEF after
<1>8. after[0] = first /\ \A j \in 1 .. n : after[j] = next(j, after[j - 1])
  BY <1>7
<1>9. \A j \in 0 .. n : after[j] \in Product(n)
  <2> DEFINE G == {j \in 0 .. n : after[j] \in Product(n)}
  <2>1. 0 \in G /\ \A j \in 1 .. n : j - 1 \in G => j \in G
    BY <1>1, <1>3, <1>8
  <2> HIDE DEF G
  <2>2. 0 .. n \subseteq G
    BY <2>1, UpTo
  <2> QED BY <2>2 DEF G
<1>10. after \in [0 .. n -> Product(n)]
  BY <1>7, <1>9
<1> QED BY <1>2, <1>8, <1>10 DEF next, first
\* The loop of vec_quot_rem on bit j of the quotient.
Division(n) == [quot : LitVec(n), ret : LitVec(n)]

DivisionStep(X, Y, n, j, p) ==
  LET Yj    == [i \in Bits(n) |-> IF i >= j THEN Y[i - j] ELSE Const0]
      lost  == UNION {Y[i] : i \in (n - j) .. n - 1}
      bit   == LitNot(Greater(Yj, p.ret, n, lost))
      minus == DifferenceBits(p.ret, Yj, n)
  IN  [quot |-> [p.quot EXCEPT ![j] = bit],
       ret  |-> [i \in Bits(n) |-> HashMux(bit, minus[i], p.ret[i])]]

LEMMA DivisionStepType ==
  ASSUME NEW n \in Nat, NEW X \in LitVec(n), NEW Y \in LitVec(n), NEW j \in Bits(n),
         NEW p \in Division(n)
  PROVE  DivisionStep(X, Y, n, j, p) \in Division(n)
<1> DEFINE Yj    == [i \in Bits(n) |-> IF i >= j THEN Y[i - j] ELSE Const0]
           lost  == UNION {Y[i] : i \in (n - j) .. n - 1}
           bit   == LitNot(Greater(Yj, p.ret, n, lost))
           minus == DifferenceBits(p.ret, Yj, n)
<1>1. p.quot \in LitVec(n) /\ p.ret \in LitVec(n)
  BY DEF Division
<1>2. Yj \in LitVec(n)
  <2>1. \A i \in Bits(n) : i >= j => Y[i - j] \in Literal
    BY DEF Bits, LitVec
  <2> QED BY <2>1, LiteralType DEF LitVec
<1>3. lost \in Literal
  <2>1. \A i \in (n - j) .. n - 1 : Y[i] \in Literal
    BY DEF Bits, LitVec
  <2> QED BY <2>1 DEF Literal
<1> HIDE DEF Yj, lost
<1>4. HasBits(Yj, n) /\ HasBits(p.ret, n)
  BY <1>1, <1>2, LitVecHasBits
<1>5. bit \in Literal
  BY <1>3, <1>4, GreaterType, LiteralType
<1>6. minus \in LitVec(n)
  BY <1>4, SumType
<1> HIDE DEF bit, minus
<1>7. [p.quot EXCEPT ![j] = bit] \in LitVec(n)
  BY <1>1, <1>5 DEF LitVec
<1>8. [i \in Bits(n) |-> HashMux(bit, minus[i], p.ret[i])] \in LitVec(n)
  <2>1. \A i \in Bits(n) : minus[i] \in Literal /\ p.ret[i] \in Literal
    BY <1>1, <1>6 DEF LitVec
  <2> QED BY <1>5, <2>1, LiteralType DEF LitVec
<1>9. DivisionStep(X, Y, n, j, p) =
        [quot |-> [p.quot EXCEPT ![j] = bit],
         ret |-> [i \in Bits(n) |-> HashMux(bit, minus[i], p.ret[i])]]
  BY DEF DivisionStep, Yj, lost, bit, minus
<1> QED BY <1>7, <1>8, <1>9 DEF Division

LEMMA DivisionIs ==
  ASSUME NEW n \in Nat, NEW X \in LitVec(n), NEW Y \in LitVec(n)
  PROVE  \E above \in [0 .. n -> Division(n)] :
           /\ above[n] = [quot |-> [i \in Bits(n) |-> Const0], ret |-> X]
           /\ \A j \in Bits(n) : above[j] = DivisionStep(X, Y, n, j, above[j + 1])
           /\ DivisionBits(X, Y, n) = above[0]
<1> DEFINE next(j, p) == DivisionStep(X, Y, n, j, p)
           first == [quot |-> [i \in Bits(n) |-> Const0], ret |-> X]
           step == [k \in 1 .. n |-> [p \in Division(n) |-> next(n - k, p)]]
           Is(f) == f = [j \in 0 .. n |-> IF j = n THEN first ELSE next(j, f[j + 1])]
           above == CHOOSE f : Is(f)
<1>1. \A j \in Bits(n), p \in Division(n) : next(j, p) \in Division(n)
  BY DivisionStepType
<1>2. DivisionBits(X, Y, n) = above[0]
  BY DEF DivisionBits, DivisionStep
<1>3. first \in Division(n)
  BY LiteralType DEF Division, LitVec
<1> HIDE DEF next, first
<1>4. step \in Steps(n, Division(n))
  <2>1. \A k \in 1 .. n : n - k \in Bits(n)
    BY DEF Bits
  <2> QED BY <1>1, <2>1 DEF Steps
<1>5. PICK g : StepByStep(g, n, Division(n), first, step)
  <2> HIDE DEF step
  <2> QED BY <1>3, <1>4, Recursion
<1>6. \E f : Is(f)
  <2> DEFINE f == [j \in 0 .. n |-> g[n - j]]
  <2>1. g \in [0 .. n -> Division(n)] /\ g[0] = first
    BY <1>5 DEF StepByStep
  <2>2. \A k \in 1 .. n : g[k - 1] \in Division(n) /\ g[k] = step[k][g[k - 1]]
    BY <1>5 DEF StepByStep
  <2>3. \A k \in 1 .. n : g[k] = next(n - k, g[k - 1])
    BY <2>2
  <2>4. f[n] = first /\ \A j \in 0 .. n : f[j] = g[n - j]
    BY <2>1
  <2>5. ASSUME NEW j \in 0 .. n, j # n
        PROVE  f[j] = next(j, f[j + 1])
    <3>1. n - j \in 1 .. n /\ n - (n - j) = j /\ (n - j) - 1 = n - (j + 1) /\ j + 1 \in 0 .. n
      BY <2>5
    <3>2. g[n - j] = next(n - (n - j), g[(n - j) - 1])
      BY <2>3, <3>1
    <3> QED BY <2>4, <3>1, <3>2
  <2>6. f = [j \in 0 .. n |-> f[j]]
    OBVIOUS
  <2> HIDE DEF f
  <2>7. Is(f)
    BY <2>4, <2>5, <2>6
  <2> QED BY <2>7
<1>7. Is(above)
  BY <1>6
<1> HIDE DEF above
<1>8. above[n] = first /\ \A j \in Bits(n) : above[j] = next(j, above[j + 1])
  BY <1>7 DEF Bits
<1>9. \A j \in 0 .. n : above[j] \in Division(n)
  <2> DEFINE G == {k \in 0 .. n : above[n - k] \in Division(n)}
  <2>1. 0 \in G
    BY <1>3, <1>8
  <2>2. ASSUME NEW k \in 1 .. n, k - 1 \in G
        PROVE  k \in G
    <3>1. n - k \in Bits(n) /\ n - (k - 1) = (n - k) + 1
      BY DEF Bits
    <3> QED BY <1>1, <1>8, <2>2, <3>1
  <2> HIDE DEF G
  <2>3. 0 .. n \subseteq G
    BY <2>1, <2>2, UpTo
  <2>4. \A j \in 0 .. n : n - j \in 0 .. n /\ n - (n - j) = j
    OBVIOUS
  <2> QED BY <2>3, <2>4 DEF G
<1>10. above \in [0 .. n -> Division(n)]
  BY <1>7, <1>9
<1> QED BY <1>2, <1>8, <1>10 DEF next, first

LEMMA ProductType ==
  ASSUME NEW n \in Nat, NEW X \in LitVec(n), NEW Y \in LitVec(n)
  PROVE  /\ MultiplyBits(X, Y, n) \in LitVec(n)
         /\ DivisionBits(X, Y, n).quot \in LitVec(n)
         /\ DivisionBits(X, Y, n).ret \in LitVec(n)
<1>1. PICK after \in [0 .. n -> Product(n)] :
           /\ after[0] = [ret |-> [i \in Bits(n) |-> Const0], tmp |-> [i \in Bits(n) |-> Const0]]
           /\ \A j \in 1 .. n : after[j] = MultiplyStep(X, Y, n, j, after[j - 1])
           /\ MultiplyBits(X, Y, n) = after[n].ret
  BY MultiplyIs
<1>2. PICK above \in [0 .. n -> Division(n)] :
           /\ above[n] = [quot |-> [i \in Bits(n) |-> Const0], ret |-> X]
           /\ \A j \in Bits(n) : above[j] = DivisionStep(X, Y, n, j, above[j + 1])
           /\ DivisionBits(X, Y, n) = above[0]
  BY DivisionIs
<1>3. after[n] \in Product(n) /\ above[0] \in Division(n)
  OBVIOUS
<1> QED BY <1>1, <1>2, <1>3 DEF Product, Division
-----------------------------------------------------------------------------
(***************************************************************************)
(* The loops of shifts and rotations by a symbolic amount.  Each has its   *)
(* own literal for bit j after a move by k.                                *)
(***************************************************************************)
ShiftedRight(n, fill, s, j, k) == IF j + k < n THEN s[j + k] ELSE fill
ShiftedLeft(n, s, j, k)        == IF k <= j THEN s[j - k] ELSE Const0
RotatedRight(n, s, j, k)       == s[(j + k) % n]
RotatedLeft(n, s, j, k)        == s[((n - k + j) % Words) % n]

RightShifter(s, n, amount, fill) ==
  Barrel(s, n, amount, LAMBDA t, j, k : ShiftedRight(n, fill, t, j, k))
LeftShifter(s, n, amount)  == Barrel(s, n, amount, LAMBDA t, j, k : ShiftedLeft(n, t, j, k))
RightRotator(s, n, amount) == Barrel(s, n, amount, LAMBDA t, j, k : RotatedRight(n, t, j, k))
LeftRotator(s, n, amount)  == Barrel(s, n, amount, LAMBDA t, j, k : RotatedLeft(n, t, j, k))

\* The literals after each bit of the amount.
ShiftsRight(after, s, n, amount, fill) ==
  /\ after[0] = s
  /\ \A i \in 1 .. amount.size :
       after[i] = [j \in Bits(n) |-> HashMux(amount.symWord[i - 1],
                                             ShiftedRight(n, fill, after[i - 1], j, 2^(i - 1)),
                                             after[i - 1][j])]

ShiftsLeft(after, s, n, amount) ==
  /\ after[0] = s
  /\ \A i \in 1 .. amount.size :
       after[i] = [j \in Bits(n) |-> HashMux(amount.symWord[i - 1],
                                             ShiftedLeft(n, after[i - 1], j, 2^(i - 1)),
                                             after[i - 1][j])]

RotatesRight(after, s, n, amount) ==
  /\ after[0] = s
  /\ \A i \in 1 .. amount.size :
       after[i] = [j \in Bits(n) |-> HashMux(amount.symWord[i - 1],
                                             RotatedRight(n, after[i - 1], j, 2^(i - 1)),
                                             after[i - 1][j])]

RotatesLeft(after, s, n, amount) ==
  /\ after[0] = s
  /\ \A i \in 1 .. amount.size :
       after[i] = [j \in Bits(n) |-> HashMux(amount.symWord[i - 1],
                                             RotatedLeft(n, after[i - 1], j, 2^(i - 1)),
                                             after[i - 1][j])]

LEMMA RightShifterIs ==
  ASSUME NEW n \in Nat \ {0}, NEW s \in LitVec(n), NEW amount, NEW m \in Nat,
         amount.size = m, amount.symWord \in LitVec(m), NEW fill \in Literal
  PROVE  \E after \in [0 .. m -> LitVec(n)] :
           /\ ShiftsRight(after, s, n, amount, fill)
           /\ RightShifter(s, n, amount, fill) = after[m]
<1> DEFINE next(i, t) == [j \in Bits(n) |-> HashMux(amount.symWord[i - 1],
                                                   ShiftedRight(n, fill, t, j, 2^(i - 1)), t[j])]
           step == [i \in 1 .. m |-> [t \in LitVec(n) |-> next(i, t)]]
           Is(f) == f = [i \in 0 .. m |-> IF i = 0 THEN s ELSE next(i, f[i - 1])]
           after == CHOOSE f : Is(f)
<1>1. \A i \in 1 .. m, t \in LitVec(n) : next(i, t) \in LitVec(n)
  <2> TAKE i \in 1 .. m, t \in LitVec(n)
  <2>1. amount.symWord[i - 1] \in Literal
    BY DEF LitVec, Bits
  <2> DEFINE d == 2^(i - 1)
  <2>2. d \in Nat
    BY PowerType
  <2> HIDE DEF d
  <2>3. \A j \in Bits(n) : ShiftedRight(n, fill, t, j, d) \in Literal /\ t[j] \in Literal
    <3> TAKE j \in Bits(n)
    <3>1. t[j] \in Literal
      BY DEF LitVec
    <3>2. CASE j + d < n
      <4>1. j + d \in Bits(n)
        BY <2>2, <3>2 DEF Bits
      <4> QED BY <3>1, <3>2, <4>1 DEF ShiftedRight, LitVec
    <3>3. CASE ~(j + d < n)
      BY <3>1, <3>3, LiteralType DEF ShiftedRight
    <3> QED BY <3>2, <3>3
  <2>4. \A j \in Bits(n) : HashMux(amount.symWord[i - 1], ShiftedRight(n, fill, t, j, d), t[j]) \in Literal
    BY <2>1, <2>3, LiteralType
  <2> QED BY <2>4 DEF LitVec, d
<1>2. RightShifter(s, n, amount, fill) = after[m]
  BY DEF RightShifter, Barrel
<1> HIDE DEF next
<1>3. step \in Steps(m, LitVec(n))
  BY <1>1 DEF Steps
<1>4. PICK f : StepByStep(f, m, LitVec(n), s, step)
  <2> HIDE DEF step
  <2> QED BY <1>3, Recursion
<1>5. Is(f)
  <2>1. f \in [0 .. m -> LitVec(n)] /\ f[0] = s
    BY <1>4 DEF StepByStep
  <2>2. \A i \in 1 .. m : f[i - 1] \in LitVec(n) /\ f[i] = step[i][f[i - 1]]
    BY <1>4 DEF StepByStep
  <2>3. \A i \in 1 .. m : f[i] = next(i, f[i - 1])
    BY <2>2
  <2>4. \A i \in 0 .. m : f[i] = IF i = 0 THEN s ELSE next(i, f[i - 1])
    BY <2>1, <2>3
  <2> QED BY ONLY <2>1, <2>4
<1>6. Is(after)
  BY <1>5
<1> HIDE DEF after
<1>7. after[0] = s /\ \A i \in 1 .. m : after[i] = next(i, after[i - 1])
  BY <1>6
<1>8. \A i \in 0 .. m : after[i] \in LitVec(n)
  <2> DEFINE G == {i \in 0 .. m : after[i] \in LitVec(n)}
  <2>1. 0 \in G /\ \A i \in 1 .. m : i - 1 \in G => i \in G
    BY <1>1, <1>7
  <2> HIDE DEF G
  <2>2. 0 .. m \subseteq G
    BY <2>1, UpTo
  <2> QED BY <2>2 DEF G
<1>9. after \in [0 .. m -> LitVec(n)]
  BY <1>6, <1>8
<1> QED BY <1>2, <1>7, <1>9 DEF next, ShiftsRight

LEMMA RightShifterType ==
  ASSUME NEW n \in Nat \ {0}, NEW s \in LitVec(n), NEW amount, NEW m \in Nat,
         amount.size = m, amount.symWord \in LitVec(m), NEW fill \in Literal
  PROVE  RightShifter(s, n, amount, fill) \in LitVec(n)
BY RightShifterIs

LEMMA LeftShifterIs ==
  ASSUME NEW n \in Nat \ {0}, NEW s \in LitVec(n), NEW amount, NEW m \in Nat,
         amount.size = m, amount.symWord \in LitVec(m)
  PROVE  \E after \in [0 .. m -> LitVec(n)] :
           /\ ShiftsLeft(after, s, n, amount)
           /\ LeftShifter(s, n, amount) = after[m]
<1> DEFINE next(i, t) == [j \in Bits(n) |-> HashMux(amount.symWord[i - 1],
                                                   ShiftedLeft(n, t, j, 2^(i - 1)), t[j])]
           step == [i \in 1 .. m |-> [t \in LitVec(n) |-> next(i, t)]]
           Is(f) == f = [i \in 0 .. m |-> IF i = 0 THEN s ELSE next(i, f[i - 1])]
           after == CHOOSE f : Is(f)
<1>1. \A i \in 1 .. m, t \in LitVec(n) : next(i, t) \in LitVec(n)
  <2> TAKE i \in 1 .. m, t \in LitVec(n)
  <2>1. amount.symWord[i - 1] \in Literal
    BY DEF LitVec, Bits
  <2> DEFINE d == 2^(i - 1)
  <2>2. d \in Nat
    BY PowerType
  <2> HIDE DEF d
  <2>3. \A j \in Bits(n) : ShiftedLeft(n, t, j, d) \in Literal /\ t[j] \in Literal
    <3> TAKE j \in Bits(n)
    <3>1. t[j] \in Literal
      BY DEF LitVec
    <3>2. CASE d <= j
      <4>1. j - d \in Bits(n)
        BY <2>2, <3>2 DEF Bits
      <4> QED BY <3>1, <3>2, <4>1 DEF ShiftedLeft, LitVec
    <3>3. CASE ~(d <= j)
      BY <3>1, <3>3, LiteralType DEF ShiftedLeft
    <3> QED BY <3>2, <3>3
  <2>4. \A j \in Bits(n) : HashMux(amount.symWord[i - 1], ShiftedLeft(n, t, j, d), t[j]) \in Literal
    BY <2>1, <2>3, LiteralType
  <2> QED BY <2>4 DEF LitVec, d
<1>2. LeftShifter(s, n, amount) = after[m]
  BY DEF LeftShifter, Barrel
<1> HIDE DEF next
<1>3. step \in Steps(m, LitVec(n))
  BY <1>1 DEF Steps
<1>4. PICK f : StepByStep(f, m, LitVec(n), s, step)
  <2> HIDE DEF step
  <2> QED BY <1>3, Recursion
<1>5. Is(f)
  <2>1. f \in [0 .. m -> LitVec(n)] /\ f[0] = s
    BY <1>4 DEF StepByStep
  <2>2. \A i \in 1 .. m : f[i - 1] \in LitVec(n) /\ f[i] = step[i][f[i - 1]]
    BY <1>4 DEF StepByStep
  <2>3. \A i \in 1 .. m : f[i] = next(i, f[i - 1])
    BY <2>2
  <2>4. \A i \in 0 .. m : f[i] = IF i = 0 THEN s ELSE next(i, f[i - 1])
    BY <2>1, <2>3
  <2> QED BY ONLY <2>1, <2>4
<1>6. Is(after)
  BY <1>5
<1> HIDE DEF after
<1>7. after[0] = s /\ \A i \in 1 .. m : after[i] = next(i, after[i - 1])
  BY <1>6
<1>8. \A i \in 0 .. m : after[i] \in LitVec(n)
  <2> DEFINE G == {i \in 0 .. m : after[i] \in LitVec(n)}
  <2>1. 0 \in G /\ \A i \in 1 .. m : i - 1 \in G => i \in G
    BY <1>1, <1>7
  <2> HIDE DEF G
  <2>2. 0 .. m \subseteq G
    BY <2>1, UpTo
  <2> QED BY <2>2 DEF G
<1>9. after \in [0 .. m -> LitVec(n)]
  BY <1>6, <1>8
<1> QED BY <1>2, <1>7, <1>9 DEF next, ShiftsLeft

LEMMA LeftShifterType ==
  ASSUME NEW n \in Nat \ {0}, NEW s \in LitVec(n), NEW amount, NEW m \in Nat,
         amount.size = m, amount.symWord \in LitVec(m)
  PROVE  LeftShifter(s, n, amount) \in LitVec(n)
BY LeftShifterIs

LEMMA RightRotatorIs ==
  ASSUME NEW n \in Nat \ {0}, NEW s \in LitVec(n), NEW amount, NEW m \in Nat,
         amount.size = m, amount.symWord \in LitVec(m)
  PROVE  \E after \in [0 .. m -> LitVec(n)] :
           /\ RotatesRight(after, s, n, amount)
           /\ RightRotator(s, n, amount) = after[m]
<1> DEFINE next(i, t) == [j \in Bits(n) |-> HashMux(amount.symWord[i - 1],
                                                   RotatedRight(n, t, j, 2^(i - 1)), t[j])]
           step == [i \in 1 .. m |-> [t \in LitVec(n) |-> next(i, t)]]
           Is(f) == f = [i \in 0 .. m |-> IF i = 0 THEN s ELSE next(i, f[i - 1])]
           after == CHOOSE f : Is(f)
<1>1. \A i \in 1 .. m, t \in LitVec(n) : next(i, t) \in LitVec(n)
  <2> TAKE i \in 1 .. m, t \in LitVec(n)
  <2>1. amount.symWord[i - 1] \in Literal
    BY DEF LitVec, Bits
  <2> DEFINE d == 2^(i - 1)
  <2>2. d \in Nat
    BY PowerType
  <2> HIDE DEF d
  <2>3. \A j \in Bits(n) : RotatedRight(n, t, j, d) \in Literal /\ t[j] \in Literal
    <3> TAKE j \in Bits(n)
    <3>1. (j + d) % n \in Bits(n)
      <4>1. j + d \in Int
        BY <2>2 DEF Bits
      <4> QED BY <4>1, ModType DEF Bits
    <3> QED BY <3>1 DEF RotatedRight, LitVec
  <2>4. \A j \in Bits(n) : HashMux(amount.symWord[i - 1], RotatedRight(n, t, j, d), t[j]) \in Literal
    BY <2>1, <2>3, LiteralType
  <2> QED BY <2>4 DEF LitVec, d
<1>2. RightRotator(s, n, amount) = after[m]
  BY DEF RightRotator, Barrel
<1> HIDE DEF next
<1>3. step \in Steps(m, LitVec(n))
  BY <1>1 DEF Steps
<1>4. PICK f : StepByStep(f, m, LitVec(n), s, step)
  <2> HIDE DEF step
  <2> QED BY <1>3, Recursion
<1>5. Is(f)
  <2>1. f \in [0 .. m -> LitVec(n)] /\ f[0] = s
    BY <1>4 DEF StepByStep
  <2>2. \A i \in 1 .. m : f[i - 1] \in LitVec(n) /\ f[i] = step[i][f[i - 1]]
    BY <1>4 DEF StepByStep
  <2>3. \A i \in 1 .. m : f[i] = next(i, f[i - 1])
    BY <2>2
  <2>4. \A i \in 0 .. m : f[i] = IF i = 0 THEN s ELSE next(i, f[i - 1])
    BY <2>1, <2>3
  <2> QED BY ONLY <2>1, <2>4
<1>6. Is(after)
  BY <1>5
<1> HIDE DEF after
<1>7. after[0] = s /\ \A i \in 1 .. m : after[i] = next(i, after[i - 1])
  BY <1>6
<1>8. \A i \in 0 .. m : after[i] \in LitVec(n)
  <2> DEFINE G == {i \in 0 .. m : after[i] \in LitVec(n)}
  <2>1. 0 \in G /\ \A i \in 1 .. m : i - 1 \in G => i \in G
    BY <1>1, <1>7
  <2> HIDE DEF G
  <2>2. 0 .. m \subseteq G
    BY <2>1, UpTo
  <2> QED BY <2>2 DEF G
<1>9. after \in [0 .. m -> LitVec(n)]
  BY <1>6, <1>8
<1> QED BY <1>2, <1>7, <1>9 DEF next, RotatesRight

LEMMA RightRotatorType ==
  ASSUME NEW n \in Nat \ {0}, NEW s \in LitVec(n), NEW amount, NEW m \in Nat,
         amount.size = m, amount.symWord \in LitVec(m)
  PROVE  RightRotator(s, n, amount) \in LitVec(n)
BY RightRotatorIs

LEMMA LeftRotatorIs ==
  ASSUME NEW n \in Nat \ {0}, NEW s \in LitVec(n), NEW amount, NEW m \in Nat,
         amount.size = m, amount.symWord \in LitVec(m)
  PROVE  \E after \in [0 .. m -> LitVec(n)] :
           /\ RotatesLeft(after, s, n, amount)
           /\ LeftRotator(s, n, amount) = after[m]
<1> DEFINE next(i, t) == [j \in Bits(n) |-> HashMux(amount.symWord[i - 1],
                                                   RotatedLeft(n, t, j, 2^(i - 1)), t[j])]
           step == [i \in 1 .. m |-> [t \in LitVec(n) |-> next(i, t)]]
           Is(f) == f = [i \in 0 .. m |-> IF i = 0 THEN s ELSE next(i, f[i - 1])]
           after == CHOOSE f : Is(f)
<1>1. \A i \in 1 .. m, t \in LitVec(n) : next(i, t) \in LitVec(n)
  <2> TAKE i \in 1 .. m, t \in LitVec(n)
  <2>1. amount.symWord[i - 1] \in Literal
    BY DEF LitVec, Bits
  <2> DEFINE d == 2^(i - 1)
  <2>2. d \in Nat
    BY PowerType
  <2> HIDE DEF d
  <2>3. \A j \in Bits(n) : RotatedLeft(n, t, j, d) \in Literal /\ t[j] \in Literal
    <3> TAKE j \in Bits(n)
    <3>1. ((n - d + j) % Words) % n \in Bits(n)
      <4>1. n - d + j \in Int
        BY <2>2 DEF Bits
      <4>2. (n - d + j) % Words \in Int
        BY <4>1, WordsType, ModType
      <4> QED BY <4>2, ModType DEF Bits
    <3> QED BY <3>1 DEF RotatedLeft, LitVec
  <2>4. \A j \in Bits(n) : HashMux(amount.symWord[i - 1], RotatedLeft(n, t, j, d), t[j]) \in Literal
    BY <2>1, <2>3, LiteralType
  <2> QED BY <2>4 DEF LitVec, d
<1>2. LeftRotator(s, n, amount) = after[m]
  BY DEF LeftRotator, Barrel
<1> HIDE DEF next
<1>3. step \in Steps(m, LitVec(n))
  BY <1>1 DEF Steps
<1>4. PICK f : StepByStep(f, m, LitVec(n), s, step)
  <2> HIDE DEF step
  <2> QED BY <1>3, Recursion
<1>5. Is(f)
  <2>1. f \in [0 .. m -> LitVec(n)] /\ f[0] = s
    BY <1>4 DEF StepByStep
  <2>2. \A i \in 1 .. m : f[i - 1] \in LitVec(n) /\ f[i] = step[i][f[i - 1]]
    BY <1>4 DEF StepByStep
  <2>3. \A i \in 1 .. m : f[i] = next(i, f[i - 1])
    BY <2>2
  <2>4. \A i \in 0 .. m : f[i] = IF i = 0 THEN s ELSE next(i, f[i - 1])
    BY <2>1, <2>3
  <2> QED BY ONLY <2>1, <2>4
<1>6. Is(after)
  BY <1>5
<1> HIDE DEF after
<1>7. after[0] = s /\ \A i \in 1 .. m : after[i] = next(i, after[i - 1])
  BY <1>6
<1>8. \A i \in 0 .. m : after[i] \in LitVec(n)
  <2> DEFINE G == {i \in 0 .. m : after[i] \in LitVec(n)}
  <2>1. 0 \in G /\ \A i \in 1 .. m : i - 1 \in G => i \in G
    BY <1>1, <1>7
  <2> HIDE DEF G
  <2>2. 0 .. m \subseteq G
    BY <2>1, UpTo
  <2> QED BY <2>2 DEF G
<1>9. after \in [0 .. m -> LitVec(n)]
  BY <1>6, <1>8
<1> QED BY <1>2, <1>7, <1>9 DEF next, RotatesLeft

LEMMA LeftRotatorType ==
  ASSUME NEW n \in Nat \ {0}, NEW s \in LitVec(n), NEW amount, NEW m \in Nat,
         amount.size = m, amount.symWord \in LitVec(m)
  PROVE  LeftRotator(s, n, amount) \in LitVec(n)
BY LeftRotatorIs
-----------------------------------------------------------------------------
(***************************************************************************)
(* The operations give vectors of the size they should have.               *)
(***************************************************************************)
LEMMA ExtendType ==
  ASSUME NEW w \in Int, NEW n \in Nat \ {0}, NEW m \in Nat
  PROVE  int_zextend(w, n) \in Nat /\ int_sextend(w, n, m) \in Int
<1> DEFINE p == 2^n
           q == 2^m
<1>1. p \in Nat \ {0} /\ q \in Nat \ {0}
  BY PowerType
<1>2. int_zextend(w, n) = w % p
  BY DEF int_zextend
<1>3. w % p \in Nat
  <2> HIDE DEF p, q
  <2> QED BY <1>1, ModType
<1>4. \A u \in Int : int_zextend(u, m) \in Int
  <2> TAKE u \in Int
  <2>1. int_zextend(u, m) = u % q
    BY DEF int_zextend
  <2> HIDE DEF p, q
  <2> QED BY <1>1, <2>1, ModType
<1>5. int_zextend(w, n) + Words - p \in Int
  <2> HIDE DEF p, q
  <2> QED BY <1>1, <1>2, <1>3, WordsType
<1>6. \/ int_sextend(w, n, m) = w
      \/ int_sextend(w, n, m) = int_zextend(int_zextend(w, n) + Words - p, m)
      \/ int_sextend(w, n, m) = int_zextend(w, m)
  BY DEF int_sextend
<1> HIDE DEF p, q
<1> QED BY <1>2, <1>3, <1>4, <1>5, <1>6

LEMMA SignedWordType ==
  ASSUME NEW n, NEW x, Sized(x, n), ~x.isSymbolic
  PROVE  SignedWord(x) \in Int
<1>1. int_sextend(x.conWord, x.size, WORD_BITS) \in Int
  <2>1. x.conWord \in Int /\ x.size \in Nat \ {0}
    BY SizedFacts
  <2>2. WORD_BITS \in Nat
    BY WordsType
  <2> QED BY <2>1, <2>2, ExtendType
<1>2. \A w \in Int : AsSigned(w) \in Int
  BY WordsType DEF AsSigned
<1> QED BY <1>1, <1>2 DEF SignedWord

LEMMA ArithmeticType ==
  ASSUME NEW n, NEW x, NEW y, Sized(x, n), Sized(y, n),
         NEW con, ~x.isSymbolic /\ ~y.isSymbolic => con \in Int, NEW s \in LitVec(n)
  PROVE  Sized(Arithmetic(x, y, con, s), n)
<1>1. n \in Nat \ {0} /\ x.size = n /\ (~x.isSymbolic => n <= WORD_BITS)
  BY SizedFacts
<1>2. CASE ~x.isSymbolic /\ ~y.isSymbolic
  BY <1>1, <1>2, ConcreteType DEF Arithmetic
<1>3. CASE ~(~x.isSymbolic /\ ~y.isSymbolic)
  BY <1>1, <1>3, FoldedType DEF Arithmetic
<1> QED BY <1>2, <1>3

LEMMA AddSubType ==
  ASSUME NEW n, NEW x, NEW y, Sized(x, n), Sized(y, n)
  PROVE  /\ Sized(vec_add(x, y), n) /\ Sized(vec_sub(x, y), n) /\ Sized(vec_mult(x, y), n)
         /\ \A quot_rem \in BOOLEAN : Sized(vec_quot_rem(x, y, quot_rem), n)
<1>1. /\ n \in Nat \ {0} /\ x.size = n
      /\ Lits(x) \in LitVec(n) /\ Lits(y) \in LitVec(n)
  BY SizedFacts
<1>2. HasBits(Lits(x), n) /\ HasBits(Lits(y), n)
  BY <1>1, LitVecHasBits
<1>3. /\ SumBits(Lits(x), Lits(y), n) \in LitVec(n)
      /\ DifferenceBits(Lits(x), Lits(y), n) \in LitVec(n)
  BY <1>1, <1>2, SumType
<1>4. /\ MultiplyBits(Lits(x), Lits(y), n) \in LitVec(n)
      /\ DivisionBits(Lits(x), Lits(y), n).quot \in LitVec(n)
      /\ DivisionBits(Lits(x), Lits(y), n).ret \in LitVec(n)
  BY <1>1, ProductType
<1>5. ~x.isSymbolic /\ ~y.isSymbolic => Zext(x) \in Nat /\ Zext(y) \in Nat
  BY SizedFacts
<1>6. Sized(vec_add(x, y), n)
  <2>1. ~x.isSymbolic /\ ~y.isSymbolic => Zext(x) + Zext(y) \in Int
    BY <1>5
  <2> QED BY <1>1, <1>3, <2>1, ArithmeticType DEF vec_add
<1>7. Sized(vec_sub(x, y), n)
  <2>1. ~x.isSymbolic /\ ~y.isSymbolic => Zext(x) - Zext(y) \in Int
    BY <1>5
  <2> QED BY <1>1, <1>3, <2>1, ArithmeticType DEF vec_sub
<1>8. Sized(vec_mult(x, y), n)
  <2>1. ~x.isSymbolic /\ ~y.isSymbolic => Zext(x) * Zext(y) \in Int
    BY <1>5
  <2> QED BY <1>1, <1>4, <2>1, ArithmeticType DEF vec_mult
<1>9. Sized(vec_quot_rem(x, y, TRUE), n)
  <2>1. ~x.isSymbolic /\ ~y.isSymbolic =>
          (IF Zext(y) = 0 THEN -1 ELSE Zext(x) \div Zext(y)) \in Int
    BY <1>5
  <2> QED BY <1>1, <1>4, <2>1, ArithmeticType DEF vec_quot_rem
<1>10. Sized(vec_quot_rem(x, y, FALSE), n)
  <2>1. ~x.isSymbolic /\ ~y.isSymbolic =>
          (IF Zext(y) = 0 THEN Zext(x) ELSE Zext(x) % Zext(y)) \in Int
    BY <1>5
  <2> QED BY <1>1, <1>4, <2>1, ArithmeticType DEF vec_quot_rem
<1> QED BY <1>6, <1>7, <1>8, <1>9, <1>10

LEMMA BitwiseType ==
  ASSUME NEW n, NEW x, NEW y, Sized(x, n), Sized(y, n)
  PROVE  Sized(vec_and(x, y), n) /\ Sized(vec_or(x, y), n) /\ Sized(vec_xor(x, y), n)
<1>1. /\ n \in Nat \ {0} /\ x.size = n
      /\ Lits(x) \in LitVec(n) /\ Lits(y) \in LitVec(n)
  BY SizedFacts
<1>2. CASE ~x.isSymbolic /\ ~y.isSymbolic
  <2>1. n <= WORD_BITS
    BY <1>2, SizedFacts
  <2>2. WORD_BITS \in Nat
    BY WordsType
  <2>3. \A s : ConWord(s, WORD_BITS) \in Int
    BY <2>2, ConWordIs
  <2> QED BY <1>1, <1>2, <2>1, <2>3, ConcreteType DEF vec_and, vec_or, vec_xor, Bitwise
<1>3. CASE ~(~x.isSymbolic /\ ~y.isSymbolic)
  <2>1. \A i \in Bits(n) : Lits(x)[i] \in Literal /\ Lits(y)[i] \in Literal
    BY <1>1 DEF LitVec
  <2>2. /\ [i \in Bits(n) |-> HashAnd(Lits(x)[i], Lits(y)[i])] \in LitVec(n)
        /\ [i \in Bits(n) |-> HashOr(Lits(x)[i], Lits(y)[i])] \in LitVec(n)
        /\ [i \in Bits(n) |-> HashXor(Lits(x)[i], Lits(y)[i])] \in LitVec(n)
    BY <2>1, LiteralType DEF LitVec
  <2> QED BY <1>1, <1>3, <2>2, FoldedType DEF vec_and, vec_or, vec_xor, Bitwise
<1> QED BY <1>2, <1>3

LEMMA IteType ==
  ASSUME NEW n, NEW x, NEW y, Sized(x, n), Sized(y, n), NEW c \in Literal
  PROVE  Sized(vec_ite(c, x, y), n)
<1> DEFINE s == [i \in Bits(n) |-> HashMux(c, Lits(x)[i], Lits(y)[i])]
<1>1. /\ n \in Nat \ {0} /\ x.size = n
      /\ Lits(x) \in LitVec(n) /\ Lits(y) \in LitVec(n)
  BY SizedFacts
<1>2. s \in LitVec(n)
  <2>1. \A i \in Bits(n) : Lits(x)[i] \in Literal /\ Lits(y)[i] \in Literal
    BY <1>1 DEF LitVec
  <2> QED BY <2>1, LiteralType DEF LitVec
<1>3. vec_ite(c, x, y) \in {x, y, Symbolic(n, s)}
  BY <1>1 DEF vec_ite, IsConst
<1> HIDE DEF s
<1> QED BY <1>1, <1>2, <1>3, SymbolicType

LEMMA NegateType ==
  ASSUME NEW n, NEW x, Sized(x, n)
  PROVE  Sized(vec_negate(x), n) /\ Sized(vec_invert(x), n) /\ Sized(vec_abs(x), n)
<1>1. n \in Nat \ {0} /\ x.size = n /\ Lits(x) \in LitVec(n)
  BY SizedFacts
<1>2. CASE ~x.isSymbolic
  <2>1. n <= WORD_BITS /\ x.conWord \in Nat
    BY <1>2, SizedFacts
  <2>2. -int_sextend(x.conWord, n, WORD_BITS) \in Int
    <3>1. x.conWord \in Int /\ WORD_BITS \in Nat
      BY <2>1, WordsType
    <3>2. int_sextend(x.conWord, n, WORD_BITS) \in Int
      BY <1>1, <3>1, ExtendType
    <3> QED BY <3>2
  <2>3. int_zextend(Words - 1 - x.conWord, n) \in Int
    <3>1. Words - 1 - x.conWord \in Int
      BY <2>1, WordsType
    <3> QED BY <1>1, <3>1, ExtendType
  <2>4. Sized(vec_negate(x), n)
    BY <1>1, <1>2, <2>1, <2>2, ConcreteType DEF vec_negate
  <2>5. Sized(vec_invert(x), n)
    BY <1>1, <1>2, <2>1, <2>3, ConcreteType DEF vec_invert
  <2> QED BY <1>2, <2>4, <2>5 DEF vec_abs
<1>3. CASE x.isSymbolic
  <2>1. x.symWord \in LitVec(n)
    BY <1>3, SizedFacts
  <2>2. ASSUME NEW i \in Bits(n)
        PROVE  /\ HashMux(UNION {x.symWord[k] : k \in Bits(i)},
                          LitNot(x.symWord[i]), x.symWord[i]) \in Literal
               /\ LitNot(x.symWord[i]) \in Literal
    <3>1. \A k \in Bits(i) : x.symWord[k] \in Literal
      <4>1. \A k \in Bits(i) : k \in Bits(n)
        BY <1>1 DEF Bits
      <4> QED BY <2>1, <4>1 DEF LitVec
    <3>2. UNION {x.symWord[k] : k \in Bits(i)} \in Literal
      BY <3>1 DEF Literal
    <3> QED BY <2>1, <3>2, LiteralType DEF LitVec
  <2>3. Sized(vec_negate(x), n)
    <3>1. [i \in Bits(n) |-> HashMux(UNION {x.symWord[k] : k \in Bits(i)},
                                     LitNot(x.symWord[i]), x.symWord[i])] \in LitVec(n)
      BY <2>2 DEF LitVec
    <3> QED BY <1>1, <1>3, <3>1, SymbolicType DEF vec_negate
  <2>4. Sized(vec_invert(x), n)
    <3>1. [i \in Bits(n) |-> LitNot(x.symWord[i])] \in LitVec(n)
      BY <2>2 DEF LitVec
    <3> QED BY <1>1, <1>3, <3>1, SymbolicType DEF vec_invert
  <2>5. x.symWord[n - 1] \in Literal
    BY <1>1, <2>1 DEF LitVec, Bits
  <2> QED BY <1>1, <1>3, <2>3, <2>4, <2>5, IteType DEF vec_abs
<1> QED BY <1>2, <1>3

\* Extensions and parts.
LEMMA ZextType ==
  ASSUME NEW n, NEW x, Sized(x, n), NEW m \in Nat \ {0}, m >= n
  PROVE  Sized(vec_zextend(x, m), m) /\ Sized(vec_sextend(x, m), m)
<1>1. n \in Nat \ {0} /\ x.size = n /\ Lits(x) \in LitVec(n)
  BY SizedFacts
<1>2. CASE ~x.isSymbolic /\ m <= WORD_BITS
  <2>1. x.conWord \in Int
    BY <1>2, SizedFacts
  <2>2. int_zextend(x.conWord, n) \in Int /\ int_sextend(x.conWord, n, m) \in Int
    <3>1. m \in Nat
      OBVIOUS
    <3>2. int_zextend(x.conWord, n) \in Nat /\ int_sextend(x.conWord, n, m) \in Int
      BY <1>1, <2>1, <3>1, ExtendType
    <3> QED BY <3>2
  <2> QED BY <1>1, <1>2, <2>2, ConcreteType DEF vec_zextend, vec_sextend
<1>3. CASE ~(~x.isSymbolic /\ m <= WORD_BITS)
  <2>1. [i \in Bits(m) |-> IF i < n THEN Lits(x)[i] ELSE Const0] \in LitVec(m)
    <3>1. \A i \in Bits(m) : i < n => Lits(x)[i] \in Literal
      BY <1>1 DEF LitVec, Bits
    <3> QED BY <3>1, LiteralType DEF LitVec
  <2>2. [i \in Bits(m) |-> Lits(x)[IF i < n THEN i ELSE n - 1]] \in LitVec(m)
    <3>1. \A i \in Bits(m) : (IF i < n THEN i ELSE n - 1) \in Bits(n)
      BY <1>1 DEF Bits
    <3> QED BY <1>1, <3>1 DEF LitVec
  <2> QED BY <1>1, <1>3, <2>1, <2>2, SymbolicType DEF vec_zextend, vec_sextend
<1> QED BY <1>2, <1>3

LEMMA CatType ==
  ASSUME NEW n, NEW x, Sized(x, n), NEW m, NEW y, Sized(y, m)
  PROVE  Sized(vec_cat(x, y), n + m)
<1>1. /\ n \in Nat \ {0} /\ x.size = n /\ Lits(x) \in LitVec(n)
      /\ m \in Nat \ {0} /\ y.size = m /\ Lits(y) \in LitVec(m)
  BY SizedFacts
<1>2. n + m \in Nat \ {0}
  BY <1>1
<1>3. CASE ~x.isSymbolic /\ ~y.isSymbolic /\ n + m <= WORD_BITS
  <2> DEFINE p == 2^m
  <2>1. x.conWord \in Int /\ Zext(y) \in Int /\ p \in Int
    BY <1>1, <1>3, SizedFacts, PowerType
  <2>2. x.conWord * p + Zext(y) \in Int
    <3> HIDE DEF p
    <3> QED BY <2>1
  <2> QED BY <1>1, <1>2, <1>3, <2>2, ConcreteType DEF vec_cat, Zext
<1>4. CASE ~(~x.isSymbolic /\ ~y.isSymbolic /\ n + m <= WORD_BITS)
  <2> DEFINE s == [i \in Bits(n + m) |-> IF i < m THEN Lits(y)[i] ELSE Lits(x)[i - m]]
  <2>1. s \in LitVec(n + m)
    <3>1. ASSUME NEW i \in Bits(n + m)
          PROVE  (IF i < m THEN Lits(y)[i] ELSE Lits(x)[i - m]) \in Literal
      <4>1. CASE i < m
        <5>1. i \in Bits(m)
          BY <1>1, <4>1 DEF Bits
        <5> QED BY <1>1, <4>1, <5>1 DEF LitVec
      <4>2. CASE ~(i < m)
        <5>1. i - m \in Bits(n)
          BY <1>1, <4>2 DEF Bits
        <5> QED BY <1>1, <4>2, <5>1 DEF LitVec
      <4> QED BY <4>1, <4>2
    <3> QED BY <3>1 DEF LitVec
  <2>2. vec_cat(x, y) = Symbolic(n + m, s)
    BY <1>1, <1>4 DEF vec_cat
  <2> HIDE DEF s
  <2> QED BY <1>2, <2>1, <2>2, SymbolicType
<1> QED BY <1>3, <1>4

LEMMA PartBits ==
  ASSUME NEW n, NEW x, Sized(x, n), NEW start \in Nat, NEW amount \in Nat \ {0},
         start + amount <= n
  PROVE  [i \in Bits(amount) |-> Lits(x)[start + i]] \in LitVec(amount)
<1>1. n \in Nat \ {0} /\ Lits(x) \in LitVec(n)
  BY SizedFacts
<1>2. \A i \in Bits(amount) : start + i \in Bits(n)
  BY <1>1 DEF Bits
<1> QED BY <1>1, <1>2 DEF LitVec

LEMMA PowerQuotient ==
  ASSUME NEW w \in Int, NEW k \in Nat
  PROVE  w \div 2^k \in Int
<1> DEFINE p == 2^k
<1>1. p \in Nat \ {0}
  BY PowerType
<1> HIDE DEF p
<1>2. w \div p \in Int
  BY <1>1, ModType
<1> QED BY <1>2 DEF p

LEMMA ExtractType ==
  ASSUME NEW n, NEW x, Sized(x, n), NEW start \in Nat, NEW amount \in Nat \ {0},
         start + amount <= n
  PROVE  /\ ExtractAsserts(x, start, amount) => Sized(vec_extract(x, start, amount), amount)
         /\ Sized(vec_selectBits(x, amount, start), amount)
<1> DEFINE s == [i \in Bits(amount) |-> Lits(x)[start + i]]
<1>1. n \in Nat \ {0} /\ x.size = n /\ s \in LitVec(amount)
  BY SizedFacts, PartBits
<1>2. CASE ~x.isSymbolic
  <2>1. amount <= WORD_BITS /\ x.conWord \in Int
    <3>1. n <= WORD_BITS /\ amount <= n
      BY <1>1, <1>2, SizedFacts
    <3> QED BY <1>1, <1>2, <3>1, SizedFacts, WordsType
  <2>2. int_zextend(x.conWord \div 2^start, amount) \in Int
    <3>1. x.conWord \in Int
      BY <2>1
    <3>2. x.conWord \div 2^start \in Int
      BY <3>1, PowerQuotient
    <3>3. amount \in Nat
      OBVIOUS
    <3> QED BY <3>2, <3>3, ExtendType
  <2>3. int_zextend(x.conWord, n) \div 2^start \in Int
    <3>1. n \in Nat
      BY <1>1
    <3>2. int_zextend(x.conWord, n) \in Nat
      BY <1>1, <2>1, <3>1, ExtendType
    <3>3. int_zextend(x.conWord, n) \in Int
      BY <3>2
    <3> QED BY <3>3, PowerQuotient
  <2> QED BY <1>1, <1>2, <2>1, <2>2, <2>3, ConcreteType DEF vec_extract, vec_selectBits
<1>3. CASE x.isSymbolic
  <2>1. Lits(x) = x.symWord
    BY <1>3, SizedFacts
  <2>2. ConWord(s, amount) \in Int
    BY ConWordIs
  <2>3. AllConst(s, amount) /\ ExtractAsserts(x, start, amount) => amount <= WORD_BITS
    BY <1>3, <2>1 DEF ExtractAsserts
  <2>4. ExtractAsserts(x, start, amount) => Sized(vec_extract(x, start, amount), amount)
    <3>1. CASE AllConst(s, amount)
      <4>1. vec_extract(x, start, amount) = Concrete(amount, ConWord(s, amount))
        BY <1>3, <3>1 DEF vec_extract
      <4> QED BY <2>2, <2>3, <3>1, <4>1, ConcreteType
    <3>2. CASE ~AllConst(s, amount)
      <4>1. vec_extract(x, start, amount) = Symbolic(amount, s)
        BY <1>3, <3>2 DEF vec_extract
      <4> HIDE DEF s
      <4> QED BY <1>1, <4>1, SymbolicType
    <3> QED BY <3>1, <3>2
  <2>5. Sized(vec_selectBits(x, amount, start), amount)
    <3>1. s = [i \in Bits(amount) |-> x.symWord[i + start]]
      <4>1. \A i \in Bits(amount) : start + i = i + start
        BY DEF Bits
      <4> QED BY <2>1, <4>1
    <3>2. vec_selectBits(x, amount, start) = Folded(amount, s)
      BY <1>3, <3>1 DEF vec_selectBits
    <3> HIDE DEF s
    <3> QED BY <1>1, <3>2, FoldedType
  <2> QED BY <2>4, <2>5
<1> QED BY <1>2, <1>3

LEMMA ReverseType ==
  ASSUME NEW n, NEW x, Sized(x, n)
  PROVE  Sized(vec_reverse(x), n)
<1> DEFINE s == [i \in Bits(n) |-> Lits(x)[(n - 1) - i]]
<1>1. n \in Nat \ {0} /\ x.size = n /\ Lits(x) \in LitVec(n)
  BY SizedFacts
<1>2. s \in LitVec(n)
  <2>1. \A i \in Bits(n) : (n - 1) - i \in Bits(n)
    BY <1>1 DEF Bits
  <2> QED BY <1>1, <2>1 DEF LitVec
<1>3. vec_reverse(x) = IF x.isSymbolic THEN Symbolic(n, s) ELSE Concrete(n, ConWord(s, n))
  BY <1>1 DEF vec_reverse
<1>4. ConWord(s, n) \in Int
  BY <1>1, ConWordIs
<1>5. ~x.isSymbolic => n <= WORD_BITS
  BY SizedFacts
<1> HIDE DEF s
<1> QED BY <1>1, <1>2, <1>3, <1>4, <1>5, SymbolicType, ConcreteType

\* Shifts and rotations.  The vector that gives the amount may have any size.
LEMMA ShiftRightType ==
  ASSUME NEW x, IsVector(x), NEW amount, IsVector(amount)
  PROVE  Sized(vec_shiftright(x, amount), x.size)
<1>1. Sized(x, x.size) /\ Sized(amount, amount.size)
  BY DEF Sized
<1>2. /\ x.size \in Nat \ {0} /\ amount.size \in Nat /\ Lits(x) \in LitVec(x.size)
      /\ ~x.isSymbolic => x.size <= WORD_BITS /\ x.conWord \in Nat /\ Zext(x) \in Nat
      /\ ~amount.isSymbolic => amount.conWord \in Nat /\ Zext(amount) \in Nat
      /\ amount.isSymbolic => amount.symWord \in LitVec(amount.size)
      /\ x.isSymbolic => x.symWord = Lits(x)
  BY <1>1, SizedFacts
<1>3. CASE ~amount.isSymbolic /\ ~x.isSymbolic
  <2> DEFINE con == IF Zext(amount) >= x.size THEN 0 ELSE Zext(x) \div 2^Zext(amount)
  <2>1. con \in Int
    <3>1. Zext(x) \in Int /\ Zext(amount) \in Nat
      BY <1>2, <1>3
    <3>2. Zext(x) \div 2^Zext(amount) \in Int
      BY <3>1, PowerQuotient
    <3> QED BY <3>2
  <2>2. vec_shiftright(x, amount) = Concrete(x.size, con)
    BY <1>3 DEF vec_shiftright, Shift
  <2> HIDE DEF con
  <2> QED BY <1>2, <1>3, <2>1, <2>2, ConcreteType
<1>4. CASE ~amount.isSymbolic /\ x.isSymbolic
  <2> DEFINE s == [j \in Bits(x.size) |->
                     IF j + Zext(amount) < x.size THEN x.symWord[j + Zext(amount)] ELSE Const0]
  <2>1. s \in LitVec(x.size)
    <3> DEFINE k == Zext(amount)
    <3>1. k \in Nat
      BY <1>2, <1>4
    <3> HIDE DEF k
    <3>2. ASSUME NEW j \in Bits(x.size)
          PROVE  (IF j + k < x.size THEN x.symWord[j + k] ELSE Const0) \in Literal
      <4>1. CASE j + k < x.size
        <5>1. j + k \in Bits(x.size)
          BY <1>2, <3>1, <4>1 DEF Bits
        <5> QED BY <1>2, <1>4, <4>1, <5>1 DEF LitVec
      <4>2. CASE ~(j + k < x.size)
        BY <1>2, <4>2, LiteralType DEF LitVec, Bits
      <4> QED BY <4>1, <4>2
    <3> QED BY <3>2 DEF LitVec, k
  <2>2. vec_shiftright(x, amount) = Folded(x.size, s)
    BY <1>4 DEF vec_shiftright, Shift
  <2> HIDE DEF s
  <2> QED BY <1>2, <2>1, <2>2, FoldedType
<1>5. CASE amount.isSymbolic
  <2> DEFINE moved == RightShifter(Lits(x), x.size, amount, Const0)
  <2>1. moved \in LitVec(x.size)
    <3> DEFINE m == amount.size
    <3>1. m \in Nat /\ amount.size = m /\ amount.symWord \in LitVec(m)
      BY <1>2, <1>5
    <3> HIDE DEF m
    <3>2. Const0 \in Literal /\ Lits(x)[x.size - 1] \in Literal
      BY <1>2, LiteralType DEF LitVec, Bits
    <3> QED BY <1>2, <3>1, <3>2, RightShifterType
  <2>2. vec_shiftright(x, amount) = Symbolic(x.size, moved)
    BY <1>5 DEF vec_shiftright, Shift, Barrel, RightShifter, ShiftedRight
  <2> HIDE DEF moved
  <2> QED BY <1>2, <2>1, <2>2, SymbolicType
<1> QED BY <1>3, <1>4, <1>5

\* Where its assertion holds, vec_signedshiftright folds as if it had looked at
\* all literals.
LEMMA SignedShiftMeets ==
  ASSUME NEW x, IsVector(x), NEW amount, IsVector(amount), SignedShiftAsserts(x, amount)
  PROVE  vec_signedshiftright(x, amount) = SignedShift(x, amount)
<1> SUFFICES ASSUME ShiftsOutAll(x, amount)
    PROVE  vec_signedshiftright(x, amount) = SignedShift(x, amount)
  BY DEF vec_signedshiftright
<1> DEFINE n == x.size
           k == Zext(amount)
           sign == x.symWord[n - 1]
           s == [j \in Bits(n) |-> sign]
           t == [j \in Bits(n) |-> IF j + k < n THEN x.symWord[j + k] ELSE Lits(x)[n - 1]]
<1>1. x.isSymbolic /\ ~amount.isSymbolic /\ n <= WORD_BITS /\ k >= n /\ IsConst(sign)
  BY DEF ShiftsOutAll, SignedShiftAsserts
<1>2. n \in Nat \ {0} /\ k \in Nat /\ Lits(x) = x.symWord
  <2>1. Sized(amount, amount.size) /\ Sized(x, x.size)
    BY DEF Sized
  <2> QED BY <1>1, <2>1, SizedFacts
<1>3. SignedShift(x, amount) = Folded(n, t)
  BY <1>1 DEF SignedShift, Shift
<1>4. t = s
  <2> HIDE DEF n, k
  <2>1. \A j \in Bits(n) : ~(j + k < n)
    BY <1>1, <1>2 DEF Bits
  <2> QED BY <1>2, <2>1
<1>5. Folded(n, s) = Concrete(n, ConWord(s, n))
  <2>1. AllConst(s, n)
    BY <1>1 DEF AllConst
  <2> HIDE DEF s, n
  <2> QED BY <1>1, <2>1 DEF Folded
<1>6. vec_signedshiftright(x, amount) = Concrete(n, ConWord(s, n))
  BY DEF vec_signedshiftright
<1> QED BY <1>3, <1>4, <1>5, <1>6

LEMMA SignedShiftRightType ==
  ASSUME NEW x, IsVector(x), NEW amount, IsVector(amount), SignedShiftAsserts(x, amount)
  PROVE  Sized(vec_signedshiftright(x, amount), x.size)
<1>0. vec_signedshiftright(x, amount) = SignedShift(x, amount)
  BY SignedShiftMeets
<1>1. Sized(x, x.size) /\ Sized(amount, amount.size)
  BY DEF Sized
<1>2. /\ x.size \in Nat \ {0} /\ amount.size \in Nat /\ Lits(x) \in LitVec(x.size)
      /\ ~x.isSymbolic => x.size <= WORD_BITS /\ x.conWord \in Nat /\ Zext(x) \in Nat
      /\ ~amount.isSymbolic => amount.conWord \in Nat /\ Zext(amount) \in Nat
      /\ amount.isSymbolic => amount.symWord \in LitVec(amount.size)
      /\ x.isSymbolic => x.symWord = Lits(x)
  BY <1>1, SizedFacts
<1>3. CASE ~amount.isSymbolic /\ ~x.isSymbolic
  <2> DEFINE con == SignedWord(x) \div 2^(IF Zext(amount) >= x.size THEN WORD_BITS - 1 ELSE Zext(amount))
  <2>1. con \in Int
    <3>1. SignedWord(x) \in Int
      BY <1>1, <1>3, SignedWordType
    <3>2. Zext(amount) \in Nat /\ WORD_BITS - 1 \in Nat
      BY <1>2, <1>3, WordsType
    <3>3. (IF Zext(amount) >= x.size THEN WORD_BITS - 1 ELSE Zext(amount)) \in Nat
      BY <3>2
    <3> QED BY <3>1, <3>3, PowerQuotient
  <2>2. vec_signedshiftright(x, amount) = Concrete(x.size, con)
    BY <1>0, <1>3 DEF SignedShift, Shift
  <2> HIDE DEF con
  <2> QED BY <1>2, <1>3, <2>1, <2>2, ConcreteType
<1>4. CASE ~amount.isSymbolic /\ x.isSymbolic
  <2> DEFINE s == [j \in Bits(x.size) |-> IF j + Zext(amount) < x.size THEN x.symWord[j + Zext(amount)]
                                         ELSE Lits(x)[x.size - 1]]
  <2>1. s \in LitVec(x.size)
    <3> DEFINE k == Zext(amount)
    <3>1. k \in Nat
      BY <1>2, <1>4
    <3> HIDE DEF k
    <3>2. ASSUME NEW j \in Bits(x.size)
          PROVE  (IF j + k < x.size THEN x.symWord[j + k] ELSE Lits(x)[x.size - 1]) \in Literal
      <4>1. CASE j + k < x.size
        <5>1. j + k \in Bits(x.size)
          BY <1>2, <3>1, <4>1 DEF Bits
        <5> QED BY <1>2, <1>4, <4>1, <5>1 DEF LitVec
      <4>2. CASE ~(j + k < x.size)
        BY <1>2, <4>2, LiteralType DEF LitVec, Bits
      <4> QED BY <4>1, <4>2
    <3> QED BY <3>2 DEF LitVec, k
  <2>2. vec_signedshiftright(x, amount) = Folded(x.size, s)
    BY <1>0, <1>4 DEF SignedShift, Shift
  <2> HIDE DEF s
  <2> QED BY <1>2, <2>1, <2>2, FoldedType
<1>5. CASE amount.isSymbolic
  <2> DEFINE moved == RightShifter(Lits(x), x.size, amount, Lits(x)[x.size - 1])
  <2>1. moved \in LitVec(x.size)
    <3> DEFINE m == amount.size
    <3>1. m \in Nat /\ amount.size = m /\ amount.symWord \in LitVec(m)
      BY <1>2, <1>5
    <3> HIDE DEF m
    <3>2. Const0 \in Literal /\ Lits(x)[x.size - 1] \in Literal
      BY <1>2, LiteralType DEF LitVec, Bits
    <3> QED BY <1>2, <3>1, <3>2, RightShifterType
  <2>2. vec_signedshiftright(x, amount) = Symbolic(x.size, moved)
    BY <1>0, <1>5 DEF SignedShift, Shift, Barrel, RightShifter, ShiftedRight
  <2> HIDE DEF moved
  <2> QED BY <1>2, <2>1, <2>2, SymbolicType
<1> QED BY <1>3, <1>4, <1>5

LEMMA ShiftLeftType ==
  ASSUME NEW x, IsVector(x), NEW amount, IsVector(amount)
  PROVE  Sized(vec_shiftleft(x, amount), x.size)
<1>1. Sized(x, x.size) /\ Sized(amount, amount.size)
  BY DEF Sized
<1>2. /\ x.size \in Nat \ {0} /\ amount.size \in Nat /\ Lits(x) \in LitVec(x.size)
      /\ ~x.isSymbolic => x.size <= WORD_BITS /\ x.conWord \in Nat /\ Zext(x) \in Nat
      /\ ~amount.isSymbolic => amount.conWord \in Nat /\ Zext(amount) \in Nat
      /\ amount.isSymbolic => amount.symWord \in LitVec(amount.size)
      /\ x.isSymbolic => x.symWord = Lits(x)
  BY <1>1, SizedFacts
<1>3. CASE ~amount.isSymbolic /\ ~x.isSymbolic
  <2> DEFINE con == IF Zext(amount) >= x.size THEN 0 ELSE Zext(x) * 2^Zext(amount)
  <2>1. con \in Int
    <3> DEFINE p == 2^Zext(amount)
    <3>1. Zext(x) \in Int /\ p \in Int
      BY <1>2, <1>3, PowerType
    <3>2. Zext(x) * p \in Int
      <4> HIDE DEF p
      <4> QED BY <3>1
    <3> QED BY <3>2
  <2>2. vec_shiftleft(x, amount) = Concrete(x.size, con)
    BY <1>3 DEF vec_shiftleft, Shift
  <2> HIDE DEF con
  <2> QED BY <1>2, <1>3, <2>1, <2>2, ConcreteType
<1>4. CASE ~amount.isSymbolic /\ x.isSymbolic
  <2> DEFINE s == [j \in Bits(x.size) |-> IF Zext(amount) <= j THEN x.symWord[j - Zext(amount)] ELSE Const0]
  <2>1. s \in LitVec(x.size)
    <3> DEFINE k == Zext(amount)
    <3>1. k \in Nat
      BY <1>2, <1>4
    <3> HIDE DEF k
    <3>2. ASSUME NEW j \in Bits(x.size)
          PROVE  (IF k <= j THEN x.symWord[j - k] ELSE Const0) \in Literal
      <4>1. CASE k <= j
        <5>1. j - k \in Bits(x.size)
          BY <1>2, <3>1, <4>1 DEF Bits
        <5> QED BY <1>2, <1>4, <4>1, <5>1 DEF LitVec
      <4>2. CASE ~(k <= j)
        BY <4>2, LiteralType
      <4> QED BY <4>1, <4>2
    <3> QED BY <3>2 DEF LitVec, k
  <2>2. vec_shiftleft(x, amount) = Folded(x.size, s)
    BY <1>4 DEF vec_shiftleft, Shift
  <2> HIDE DEF s
  <2> QED BY <1>2, <2>1, <2>2, FoldedType
<1>5. CASE amount.isSymbolic
  <2> DEFINE moved == LeftShifter(Lits(x), x.size, amount)
  <2>1. moved \in LitVec(x.size)
    <3> DEFINE m == amount.size
    <3>1. m \in Nat /\ amount.size = m /\ amount.symWord \in LitVec(m)
      BY <1>2, <1>5
    <3> HIDE DEF m
    <3>2. Const0 \in Literal /\ Lits(x)[x.size - 1] \in Literal
      BY <1>2, LiteralType DEF LitVec, Bits
    <3> QED BY <1>2, <3>1, <3>2, LeftShifterType
  <2>2. vec_shiftleft(x, amount) = Symbolic(x.size, moved)
    BY <1>5 DEF vec_shiftleft, Shift, Barrel, LeftShifter, ShiftedLeft
  <2> HIDE DEF moved
  <2> QED BY <1>2, <2>1, <2>2, SymbolicType
<1> QED BY <1>3, <1>4, <1>5

LEMMA RotateRightType ==
  ASSUME NEW x, IsVector(x), NEW amount, IsVector(amount)
  PROVE  Sized(vec_rotateright(x, amount), x.size)
<1>1. Sized(x, x.size) /\ Sized(amount, amount.size)
  BY DEF Sized
<1>2. /\ x.size \in Nat \ {0} /\ amount.size \in Nat /\ Lits(x) \in LitVec(x.size)
      /\ ~x.isSymbolic => x.size <= WORD_BITS /\ x.conWord \in Nat /\ Zext(x) \in Nat
      /\ ~amount.isSymbolic => amount.conWord \in Nat /\ Zext(amount) \in Nat
      /\ amount.isSymbolic => amount.symWord \in LitVec(amount.size)
      /\ x.isSymbolic => x.symWord = Lits(x)
  BY <1>1, SizedFacts
<1>3. CASE ~amount.isSymbolic /\ ~x.isSymbolic
  <2> DEFINE m   == amount.conWord % x.size
             con == x.conWord * 2^(x.size - m) + (Zext(x) \div 2^m)
  <2>1. int_zextend(con, x.size) \in Int
    <3>1. (x.size - m) \in Nat /\ m \in Nat
      <4>1. m \in 0 .. x.size - 1
        <5>1. amount.conWord \in Int
          BY <1>2, <1>3
        <5> QED BY <1>2, <5>1, ModType
      <4> HIDE DEF m
      <4> QED BY <1>2, <4>1
    <3> DEFINE p == 2^(x.size - m)
               q == Zext(x) \div 2^m
    <3>2. p \in Int
      BY <3>1, PowerType
    <3>3. q \in Int
      <4>1. Zext(x) \in Int
        BY <1>2, <1>3
      <4> HIDE DEF m
      <4> QED BY <3>1, <4>1, PowerQuotient
    <3>4. con \in Int
      <4>1. x.conWord \in Int
        BY <1>2, <1>3
      <4> HIDE DEF p, q, m
      <4>2. x.conWord * p + q \in Int
        BY <3>2, <3>3, <4>1
      <4> QED BY <4>2 DEF p, q
    <3>5. int_zextend(con, x.size) \in Nat
      <4> HIDE DEF con
      <4>1. x.size \in Nat
        BY <1>2
      <4> QED BY <1>2, <3>4, <4>1, ExtendType
    <3> QED BY <3>5
  <2>2. vec_rotateright(x, amount) = x \/ vec_rotateright(x, amount) = Concrete(x.size, int_zextend(con, x.size))
    BY <1>3 DEF vec_rotateright, Rotate
  <2> HIDE DEF con
  <2> QED BY <1>1, <1>2, <1>3, <2>1, <2>2, ConcreteType
<1>4. CASE ~amount.isSymbolic /\ x.isSymbolic
  <2> DEFINE s == [j \in Bits(x.size) |-> Lits(x)[(j + (amount.conWord % x.size)) % x.size]]
  <2>1. s \in LitVec(x.size)
    <3> DEFINE m == amount.conWord % x.size
    <3>1. m \in 0 .. x.size - 1
      <4>1. amount.conWord \in Int
        BY <1>2, <1>4
      <4> QED BY <1>2, <4>1, ModType
    <3> HIDE DEF m
    <3>2. \A j \in Bits(x.size) : ((j + m) % x.size) \in Bits(x.size)
      <4> TAKE j \in Bits(x.size)
      <4>1. j + m \in Int
        BY <3>1 DEF Bits
      <4> QED BY <1>2, <4>1, ModType DEF Bits
    <3>3. \A j \in Bits(x.size) : Lits(x)[(j + m) % x.size] \in Literal
      BY <1>2, <3>2 DEF LitVec
    <3> QED BY <3>3 DEF LitVec, m
  <2>2. vec_rotateright(x, amount) = Symbolic(x.size, s)
    BY <1>4 DEF vec_rotateright, Rotate
  <2> HIDE DEF s
  <2> QED BY <1>2, <2>1, <2>2, SymbolicType
<1>5. CASE amount.isSymbolic
  <2> DEFINE moved == RightRotator(Lits(x), x.size, amount)
  <2>1. moved \in LitVec(x.size)
    <3> DEFINE m == amount.size
    <3>1. m \in Nat /\ amount.size = m /\ amount.symWord \in LitVec(m)
      BY <1>2, <1>5
    <3> HIDE DEF m
    <3>2. Const0 \in Literal /\ Lits(x)[x.size - 1] \in Literal
      BY <1>2, LiteralType DEF LitVec, Bits
    <3> QED BY <1>2, <3>1, <3>2, RightRotatorType
  <2>2. vec_rotateright(x, amount) = Symbolic(x.size, moved)
    BY <1>5 DEF vec_rotateright, Rotate, Barrel, RightRotator, RotatedRight
  <2> HIDE DEF moved
  <2> QED BY <1>2, <2>1, <2>2, SymbolicType
<1> QED BY <1>3, <1>4, <1>5

LEMMA RotateLeftType ==
  ASSUME NEW x, IsVector(x), NEW amount, IsVector(amount)
  PROVE  Sized(vec_rotateleft(x, amount), x.size)
<1>1. Sized(x, x.size) /\ Sized(amount, amount.size)
  BY DEF Sized
<1>2. /\ x.size \in Nat \ {0} /\ amount.size \in Nat /\ Lits(x) \in LitVec(x.size)
      /\ ~x.isSymbolic => x.size <= WORD_BITS /\ x.conWord \in Nat /\ Zext(x) \in Nat
      /\ ~amount.isSymbolic => amount.conWord \in Nat /\ Zext(amount) \in Nat
      /\ amount.isSymbolic => amount.symWord \in LitVec(amount.size)
      /\ x.isSymbolic => x.symWord = Lits(x)
  BY <1>1, SizedFacts
<1>3. CASE ~amount.isSymbolic /\ ~x.isSymbolic
  <2> DEFINE m   == amount.conWord % x.size
             con == x.conWord * 2^m + (Zext(x) \div 2^(x.size - m))
  <2>1. int_zextend(con, x.size) \in Int
    <3>1. m \in Nat /\ (x.size - m) \in Nat
      <4>1. m \in 0 .. x.size - 1
        <5>1. amount.conWord \in Int
          BY <1>2, <1>3
        <5> QED BY <1>2, <5>1, ModType
      <4> HIDE DEF m
      <4> QED BY <1>2, <4>1
    <3> DEFINE p == 2^m
               q == Zext(x) \div 2^(x.size - m)
    <3>2. p \in Int
      BY <3>1, PowerType
    <3>3. q \in Int
      <4>1. Zext(x) \in Int
        BY <1>2, <1>3
      <4> HIDE DEF m
      <4> QED BY <3>1, <4>1, PowerQuotient
    <3>4. con \in Int
      <4>1. x.conWord \in Int
        BY <1>2, <1>3
      <4> HIDE DEF p, q, m
      <4>2. x.conWord * p + q \in Int
        BY <3>2, <3>3, <4>1
      <4> QED BY <4>2 DEF p, q
    <3>5. int_zextend(con, x.size) \in Nat
      <4> HIDE DEF con
      <4>1. x.size \in Nat
        BY <1>2
      <4> QED BY <1>2, <3>4, <4>1, ExtendType
    <3> QED BY <3>5
  <2>2. vec_rotateleft(x, amount) = x \/ vec_rotateleft(x, amount) = Concrete(x.size, int_zextend(con, x.size))
    BY <1>3 DEF vec_rotateleft, Rotate
  <2> HIDE DEF con
  <2> QED BY <1>1, <1>2, <1>3, <2>1, <2>2, ConcreteType
<1>4. CASE ~amount.isSymbolic /\ x.isSymbolic
  <2> DEFINE s == [j \in Bits(x.size) |->
                     Lits(x)[IF j < amount.conWord % x.size THEN x.size - (amount.conWord % x.size) + j
                             ELSE j]]
  <2>1. s \in LitVec(x.size)
    <3> DEFINE m == amount.conWord % x.size
    <3>1. m \in 0 .. x.size - 1
      <4>1. amount.conWord \in Int
        BY <1>2, <1>4
      <4> QED BY <1>2, <4>1, ModType
    <3> HIDE DEF m
    <3>2. \A j \in Bits(x.size) : (IF j < m THEN x.size - m + j ELSE j) \in Bits(x.size)
      BY <1>2, <3>1 DEF Bits
    <3>3. \A j \in Bits(x.size) : Lits(x)[IF j < m THEN x.size - m + j ELSE j] \in Literal
      BY <1>2, <3>2 DEF LitVec
    <3> QED BY <3>3 DEF LitVec, m
  <2>2. vec_rotateleft(x, amount) = Symbolic(x.size, s)
    BY <1>4 DEF vec_rotateleft, Rotate
  <2> HIDE DEF s
  <2> QED BY <1>2, <2>1, <2>2, SymbolicType
<1>5. CASE amount.isSymbolic
  <2> DEFINE moved == LeftRotator(Lits(x), x.size, amount)
  <2>1. moved \in LitVec(x.size)
    <3> DEFINE m == amount.size
    <3>1. m \in Nat /\ amount.size = m /\ amount.symWord \in LitVec(m)
      BY <1>2, <1>5
    <3> HIDE DEF m
    <3>2. Const0 \in Literal /\ Lits(x)[x.size - 1] \in Literal
      BY <1>2, LiteralType DEF LitVec, Bits
    <3> QED BY <1>2, <3>1, <3>2, LeftRotatorType
  <2>2. vec_rotateleft(x, amount) = Symbolic(x.size, moved)
    BY <1>5 DEF vec_rotateleft, Rotate, Barrel, LeftRotator, RotatedLeft
  <2> HIDE DEF moved
  <2> QED BY <1>2, <2>1, <2>2, SymbolicType
<1> QED BY <1>3, <1>4, <1>5
-----------------------------------------------------------------------------
(***************************************************************************)
(* Comparisons give literals, flags are bytes.                             *)
(***************************************************************************)
LEMMA ComparisonType ==
  ASSUME NEW n, NEW x, NEW y, Sized(x, n), Sized(y, n)
  PROVE  /\ vec_equal(x, y) \in Literal /\ vec_carry(x, y) \in Literal
         /\ vec_greaterthan(x, y) \in Literal
<1>1. /\ n \in Nat /\ x.size = n /\ HasBits(Lits(x), n) /\ HasBits(Lits(y), n)
  BY SizedFacts, LitVecHasBits
<1>2. vec_equal(x, y) \in Literal
  BY LiteralType DEF vec_equal, Literal
<1>3. vec_carry(x, y) \in Literal
  <2>1. Carry(Lits(x), Lits(y), n)[n] \in Literal
    <3>1. Carry(Lits(x), Lits(y), n) \in [0 .. n -> Literal]
      BY <1>1, CarryIs
    <3> QED BY <1>1, <3>1
  <2> QED BY <1>1, <2>1, LiteralType DEF vec_carry
<1>4. vec_greaterthan(x, y) \in Literal
  <2>1. Const0 \in Literal
    BY LiteralType
  <2>2. Greater(Lits(x), Lits(y), n, Const0) \in Literal
    BY <1>1, <2>1, GreaterType
  <2> QED BY <1>1, <2>2, LiteralType DEF vec_greaterthan
<1> QED BY <1>2, <1>3, <1>4

LEMMA SignedComparisonType ==
  ASSUME NEW n, NEW x, NEW y, Sized(x, n), Sized(y, n)
  PROVE  vec_signed_greaterthan(x, y) \in Literal
<1>1. /\ n \in Nat \ {0} /\ x.size = n /\ y.size = n
      /\ Lits(x) \in LitVec(n) /\ Lits(y) \in LitVec(n)
  BY SizedFacts
<1>2. Lits(x)[n - 1] \in Literal /\ Lits(y)[n - 1] \in Literal
  BY <1>1 DEF LitVec, Bits
<1>3. Sized(vec_abs(x), n) /\ Sized(vec_abs(y), n)
  BY NegateType
<1>4. vec_greaterthan(vec_abs(y), vec_abs(x)) \in Literal /\ vec_greaterthan(x, y) \in Literal
  BY <1>3, ComparisonType
<1>5. \A a, b, s, t \in Literal :
        HashMux(HashXor(s, t), LitNot(s), HashMux(s, a, b)) \in Literal
  BY LiteralType
<1> DEFINE mixed == HashMux(HashXor(Lits(x)[n - 1], Lits(y)[n - 1]), LitNot(Lits(x)[n - 1]),
                            HashMux(Lits(x)[n - 1], vec_greaterthan(vec_abs(y), vec_abs(x)),
                                                    vec_greaterthan(x, y)))
<1>6. vec_signed_greaterthan(x, y) \in {Const0, Const1, mixed}
  BY <1>1 DEF vec_signed_greaterthan
<1>7. mixed \in Literal
  BY <1>2, <1>4, <1>5
<1> HIDE DEF mixed
<1> QED BY <1>6, <1>7, LiteralType

LEMMA FlagType ==
  ASSUME NEW l \in Literal
  PROVE  Sized(Flag(l), BITS_IN_BYTE) /\ Sized(SymbolicFlag(l), BITS_IN_BYTE)
<1>1. BITS_IN_BYTE \in Nat \ {0} /\ BITS_IN_BYTE <= WORD_BITS
  BY WordsType
<1>2. [i \in Bits(BITS_IN_BYTE) |-> IF i = 0 THEN l ELSE Const0] \in LitVec(BITS_IN_BYTE)
  BY LiteralType DEF LitVec
<1>3. Sized(SymbolicFlag(l), BITS_IN_BYTE)
  BY <1>1, <1>2, SymbolicType DEF SymbolicFlag
<1>4. Sized(Concrete(BITS_IN_BYTE, 1), BITS_IN_BYTE) /\ Sized(Concrete(BITS_IN_BYTE, 0), BITS_IN_BYTE)
  BY <1>1, ConcreteType
<1> QED BY <1>3, <1>4 DEF Flag

LEMMA SetValueType ==
  ASSUME NEW n \in Nat \ {0}, NEW w \in Int
  PROVE  Sized(vec_setValue(n, w), n)
<1>1. CASE n > WORD_BITS
  <2>1. [i \in Bits(n) |-> BitLit(w, i)] \in LitVec(n)
    BY LiteralType DEF LitVec
  <2> QED BY <1>1, <2>1, SymbolicType DEF vec_setValue
<1>2. CASE ~(n > WORD_BITS)
  <2>1. n <= WORD_BITS
    BY <1>2, WordsType
  <2> QED BY <1>2, <2>1, ConcreteType DEF vec_setValue
<1> QED BY <1>1, <1>2

LEMMA FlagOperationsType ==
  ASSUME NEW n, NEW x, NEW y, Sized(x, n), Sized(y, n)
  PROVE  /\ Sized(pINT_EQUAL(x, y), BITS_IN_BYTE)
         /\ Sized(pINT_NOTEQUAL(x, y), BITS_IN_BYTE)
         /\ Sized(pINT_LESS(x, y), BITS_IN_BYTE)
         /\ Sized(pINT_LESSEQUAL(x, y), BITS_IN_BYTE)
         /\ Sized(pINT_CARRY(x, y), BITS_IN_BYTE)
         /\ Sized(pINT_SLESS(x, y), BITS_IN_BYTE)
<1>1. /\ vec_equal(x, y) \in Literal /\ vec_carry(x, y) \in Literal
      /\ vec_greaterthan(x, y) \in Literal /\ vec_lessthan(x, y) \in Literal
      /\ vec_signed_lessthan(x, y) \in Literal
  BY ComparisonType, SignedComparisonType DEF vec_lessthan, vec_signed_lessthan
<1>2. LitNot(vec_equal(x, y)) \in Literal /\ LitNot(vec_greaterthan(x, y)) \in Literal
  BY <1>1, LiteralType
<1> QED BY <1>1, <1>2, FlagType
        DEF pINT_EQUAL, pINT_NOTEQUAL, pINT_LESS, pINT_LESSEQUAL, pINT_CARRY, pINT_SLESS

LEMMA SignedLessEqualType ==
  ASSUME NEW n, NEW x, NEW y, Sized(x, n), Sized(y, n)
  PROVE  Sized(pINT_SLESSEQUAL(x, y), BITS_IN_BYTE)
<1> DEFINE sless == pINT_SLESS(x, y)
           equal == pINT_EQUAL(x, y)
           or    == HashOr(sless.symWord[0], equal.symWord[0])
<1>1. Sized(sless, BITS_IN_BYTE) /\ Sized(equal, BITS_IN_BYTE)
  BY FlagOperationsType
<1>2. pINT_SLESSEQUAL(x, y) \in {sless, equal}
        \/ (sless.isSymbolic /\ equal.isSymbolic /\ pINT_SLESSEQUAL(x, y) = SymbolicFlag(or))
  <2>1. sless.isSymbolic \in BOOLEAN /\ equal.isSymbolic \in BOOLEAN
    BY <1>1, SizedFacts
  <2>2. CASE ~sless.isSymbolic
    BY <2>2 DEF pINT_SLESSEQUAL
  <2>3. CASE sless.isSymbolic /\ ~equal.isSymbolic
    BY <2>3 DEF pINT_SLESSEQUAL
  <2>4. CASE sless.isSymbolic /\ equal.isSymbolic
    BY <2>4 DEF pINT_SLESSEQUAL
  <2> QED BY <2>1, <2>2, <2>3, <2>4
<1>3. CASE sless.isSymbolic /\ equal.isSymbolic
  <2>1. sless.symWord \in LitVec(BITS_IN_BYTE) /\ equal.symWord \in LitVec(BITS_IN_BYTE)
    BY <1>1, <1>3, SizedFacts
  <2>2. 0 \in Bits(BITS_IN_BYTE)
    BY WordsType DEF Bits
  <2>3. or \in Literal
    BY <2>1, <2>2, LiteralType DEF LitVec
  <2> HIDE DEF sless, equal, or
  <2> QED BY <1>1, <1>2, <2>3, FlagType
<1> HIDE DEF sless, equal, or
<1> QED BY <1>1, <1>2, <1>3

LEMMA SignedCarryType ==
  ASSUME NEW n, NEW x, NEW y, Sized(x, n), Sized(y, n)
  PROVE  Sized(pINT_SCARRY(x, y), BITS_IN_BYTE) /\ Sized(pINT_SBORROW(x, y), BITS_IN_BYTE)
<1>1. BITS_IN_BYTE \in Nat \ {0}
  BY WordsType
<1>2. Sized(vec_setValue(BITS_IN_BYTE, 0), BITS_IN_BYTE) /\ Sized(vec_setValue(BITS_IN_BYTE, 1), BITS_IN_BYTE)
  BY <1>1, SetValueType
<1>3. ASSUME NEW z, Sized(z, n)
      PROVE  Sized(pINT_SCARRY(x, z), BITS_IN_BYTE)
  <2> DEFINE carry == Carry(Lits(x), Lits(z), n)
  <2>1. n \in Nat \ {0} /\ n \in Nat /\ x.size = n /\ HasBits(Lits(x), n) /\ HasBits(Lits(z), n)
    BY <1>3, SizedFacts, LitVecHasBits
  <2>2. carry \in [0 .. n -> Literal]
    BY <2>1, CarryIs
  <2>3. HashXor(carry[n - 1], carry[n]) \in Literal
    <3>1. carry[n - 1] \in Literal /\ carry[n] \in Literal
      <4> HIDE DEF carry
      <4> QED BY <2>1, <2>2
    <3> QED BY <3>1, LiteralType
  <2>4. pINT_SCARRY(x, z) \in {vec_setValue(BITS_IN_BYTE, 0), vec_setValue(BITS_IN_BYTE, 1),
                               Flag(HashXor(carry[n - 1], carry[n]))}
    BY <2>1 DEF pINT_SCARRY
  <2> HIDE DEF carry
  <2> QED BY <1>2, <2>3, <2>4, FlagType
<1>4. Sized(pINT_2COMP(y), n)
  BY NegateType DEF pINT_2COMP
<1> QED BY <1>3, <1>4 DEF pINT_SBORROW

LEMMA BooleanType ==
  ASSUME NEW n, NEW x, Sized(x, n), NEW m, NEW y, Sized(y, m)
  PROVE  /\ Lits(x)[0] \in Literal
         /\ Sized(pBOOL_AND(x, y), BITS_IN_BYTE)
         /\ Sized(pBOOL_OR(x, y), BITS_IN_BYTE)
         /\ Sized(pBOOL_XOR(x, y), BITS_IN_BYTE)
         /\ Sized(pBOOL_NEGATE(x), BITS_IN_BYTE)
<1>1. Lits(x)[0] \in Literal /\ Lits(y)[0] \in Literal
  <2>1. /\ n \in Nat \ {0} /\ Lits(x) \in LitVec(n)
        /\ m \in Nat \ {0} /\ Lits(y) \in LitVec(m)
    BY SizedFacts
  <2>2. 0 \in Bits(n) /\ 0 \in Bits(m)
    BY <2>1 DEF Bits
  <2> QED BY <2>1, <2>2 DEF LitVec
<1>2. /\ HashAnd(Lits(x)[0], Lits(y)[0]) \in Literal
      /\ HashOr(Lits(x)[0], Lits(y)[0]) \in Literal
      /\ HashXor(Lits(x)[0], Lits(y)[0]) \in Literal
      /\ LitNot(Lits(x)[0]) \in Literal
  BY <1>1, LiteralType
<1> QED BY <1>1, <1>2, FlagType DEF pBOOL_AND, pBOOL_OR, pBOOL_XOR, pBOOL_NEGATE, BoolOp
-----------------------------------------------------------------------------
(***************************************************************************)
(* Signed quotients.                                                       *)
(***************************************************************************)
LEMMA CQuotientType ==
  ASSUME NEW i \in Int, NEW j \in Int, j # 0
  PROVE  CQuotient(i, j) \in Int /\ CRemainder(i, j) \in Int
<1>1. Magnitude(i) \in Int /\ Magnitude(j) \in Nat \ {0}
  BY DEF Magnitude
<1>2. Magnitude(i) \div Magnitude(j) \in Int
  BY <1>1, ModType
<1>3. CQuotient(i, j) \in Int
  BY <1>2 DEF CQuotient
<1>4. j * CQuotient(i, j) \in Int
  BY <1>3
<1> QED BY <1>3, <1>4 DEF CRemainder

LEMMA UnsignedType ==
  ASSUME NEW n, NEW x, NEW y, Sized(x, n), Sized(y, n), NEW quot_rem \in BOOLEAN,
         NEW sign \in Literal
  PROVE  Sized(Unsigned(x, y, quot_rem, sign), n)
<1> DEFINE ret == vec_quot_rem(vec_abs(x), vec_abs(y), quot_rem)
<1>1. Sized(vec_abs(x), n) /\ Sized(vec_abs(y), n)
  BY NegateType
<1>2. Sized(ret, n)
  BY <1>1, AddSubType
<1>3. Unsigned(x, y, quot_rem, sign) = vec_ite(sign, vec_negate(ret), ret)
  BY DEF Unsigned
<1> HIDE DEF ret
<1>4. Sized(vec_negate(ret), n)
  BY <1>2, NegateType
<1> QED BY <1>2, <1>3, <1>4, IteType

LEMMA SignedDivisionType ==
  ASSUME NEW n, NEW x, NEW y, Sized(x, n), Sized(y, n)
  PROVE  (n <= WORD_BITS => Sized(pINT_SDIV(x, y), n)) /\ Sized(pINT_SREM(x, y), n)
<1>1. /\ n \in Nat \ {0} /\ x.size = n /\ y.size = n
      /\ Lits(x) \in LitVec(n) /\ Lits(y) \in LitVec(n)
      /\ x.isSymbolic \in BOOLEAN /\ y.isSymbolic \in BOOLEAN
      /\ (~y.isSymbolic => n <= WORD_BITS)
  BY SizedFacts
<1>2. CASE ~x.isSymbolic /\ ~y.isSymbolic
  <2>1. SignedWord(x) \in Int /\ SignedWord(y) \in Int /\ x.conWord \in Int
    BY <1>2, SignedWordType, SizedFacts
  <2>2. SignedWord(y) # 0 =>
          CQuotient(SignedWord(x), SignedWord(y)) \in Int /\ CRemainder(SignedWord(x), SignedWord(y)) \in Int
    BY <2>1, CQuotientType
  <2> DEFINE quot == IF SignedWord(y) = 0 THEN 0 ELSE CQuotient(SignedWord(x), SignedWord(y))
             rem == IF SignedWord(y) = 0 THEN x.conWord ELSE CRemainder(SignedWord(x), SignedWord(y))
  <2>3. quot \in Int /\ rem \in Int
    BY <2>1, <2>2
  <2>4. pINT_SDIV(x, y) = Concrete(n, quot) /\ pINT_SREM(x, y) = Concrete(n, rem)
    BY <1>1, <1>2 DEF pINT_SDIV, pINT_SREM
  <2> HIDE DEF quot, rem
  <2> QED BY <1>1, <1>2, <2>3, <2>4, ConcreteType
<1>3. n <= WORD_BITS => Sized(Concrete(n, 0), n)
  BY <1>1, ConcreteType
<1>4. CASE x.isSymbolic /\ ~y.isSymbolic /\ y.conWord = 0
  BY <1>1, <1>3, <1>4 DEF pINT_SDIV, pINT_SREM
<1>5. CASE /\ ~(~x.isSymbolic /\ ~y.isSymbolic)
           /\ ~(x.isSymbolic /\ ~y.isSymbolic /\ y.conWord = 0)
  <2> DEFINE zero == Concrete(n, 0)
             sign == HashXor(Lits(x)[n - 1], Lits(y)[n - 1])
  <2>1. Lits(x)[n - 1] \in Literal /\ Lits(y)[n - 1] \in Literal
    BY <1>1 DEF LitVec, Bits
  <2>2. sign \in Literal
    BY <2>1, LiteralType
  <2>3. Sized(Unsigned(x, y, TRUE, sign), n) /\ Sized(Unsigned(x, y, FALSE, Lits(x)[n - 1]), n)
    <3> HIDE DEF sign
    <3> QED BY <2>1, <2>2, UnsignedType
  <2>4. pINT_SREM(x, y) = Unsigned(x, y, FALSE, Lits(x)[n - 1])
    BY <1>1, <1>5 DEF pINT_SREM
  <2>5. \/ pINT_SDIV(x, y) = zero
        \/ pINT_SDIV(x, y) = vec_ite(vec_equal(y, zero), zero, Unsigned(x, y, TRUE, sign))
    BY <1>1, <1>5 DEF pINT_SDIV
  <2> HIDE DEF zero, sign
  <2>6. ASSUME n <= WORD_BITS PROVE Sized(pINT_SDIV(x, y), n)
    <3>1. Sized(zero, n)
      BY <1>3, <2>6 DEF zero
    <3>2. vec_equal(y, zero) \in Literal
      BY <3>1, ComparisonType
    <3> QED BY <2>3, <2>5, <3>1, <3>2, IteType
  <2> QED BY <2>3, <2>4, <2>6
<1> QED BY <1>2, <1>4, <1>5
-----------------------------------------------------------------------------
(***************************************************************************)
(* Bytes, and what the solver makes constant.                              *)
(***************************************************************************)
LEMMA BytesType ==
  ASSUME NEW m \in Nat \ {0}
  PROVE  m * BITS_IN_BYTE \in Nat \ {0}
<1>1. BITS_IN_BYTE \in Nat \ {0}
  BY WordsType
<1> QED BY <1>1

LEMMA SubpieceType ==
  ASSUME NEW n, NEW x, Sized(x, n), NEW input1 \in Nat, NEW output_size \in Nat \ {0}
  PROVE  Sized(pSUBPIECE(x, input1, output_size), output_size * BITS_IN_BYTE)
<1> DEFINE m == output_size * BITS_IN_BYTE
           k == input1 * BITS_IN_BYTE
<1>1. m \in Nat \ {0} /\ k \in Nat
  BY BytesType, WordsType
<1>2. n \in Nat \ {0} /\ x.size = n /\ Lits(x) \in LitVec(n) /\ (~x.isSymbolic => Zext(x) \in Nat)
  BY SizedFacts
<1> DEFINE s == [i \in Bits(m) |-> IF i + k < n THEN Lits(x)[i + k] ELSE Const0]
<1>3. pSUBPIECE(x, input1, output_size) =
        CASE k >= n -> vec_setValue(m, 0)
          [] k < n /\ ~x.isSymbolic /\ m <= WORD_BITS -> Concrete(m, Zext(x) \div 2^k)
          [] OTHER -> Folded(m, s)
  BY <1>2 DEF pSUBPIECE
<1> HIDE DEF m, k
<1>4. CASE k >= n
  <2>1. Sized(vec_setValue(m, 0), m)
    BY <1>1, SetValueType
  <2>2. ~(k < n)
    BY <1>1, <1>2, <1>4
  <2> QED BY <1>3, <1>4, <2>1, <2>2 DEF m
<1>5. CASE k < n /\ ~x.isSymbolic /\ m <= WORD_BITS
  <2>1. Zext(x) \in Int /\ ~(k >= n)
    BY <1>1, <1>2, <1>5
  <2>2. Zext(x) \div 2^k \in Int
    BY <1>1, <2>1, PowerQuotient
  <2>3. Sized(Concrete(m, Zext(x) \div 2^k), m)
    BY <1>1, <1>5, <2>2, ConcreteType
  <2> QED BY <1>3, <1>5, <2>1, <2>3 DEF m
<1>6. CASE ~(k >= n) /\ ~(k < n /\ ~x.isSymbolic /\ m <= WORD_BITS)
  <2>1. s \in LitVec(m)
    <3>1. ASSUME NEW i \in Bits(m)
          PROVE  (IF i + k < n THEN Lits(x)[i + k] ELSE Const0) \in Literal
      <4>1. CASE i + k < n
        <5>1. i + k \in Bits(n)
          BY <1>1, <1>2, <4>1 DEF Bits
        <5> QED BY <1>2, <4>1, <5>1 DEF LitVec
      <4>2. CASE ~(i + k < n)
        BY <4>2, LiteralType
      <4> QED BY <4>1, <4>2
    <3> QED BY <3>1 DEF LitVec
  <2> HIDE DEF s
  <2>2. Sized(Folded(m, s), m)
    BY <1>1, <2>1, FoldedType
  <2> QED BY <1>3, <1>6, <2>2 DEF m
<1> QED BY <1>4, <1>5, <1>6

\* The bytes of a vector that has a whole number of them, in the other order.
Swapped(x) ==
  LET k     == x.size \div BITS_IN_BYTE
      bytes == vec_splitIntoNewArray(x, k)
  IN  vec_joinArray([j \in Bits(k) |-> bytes[(k - 1) - j]], k)

LEMMA SwappedType ==
  ASSUME NEW n, NEW x, Sized(x, n), n % BITS_IN_BYTE = 0
  PROVE  Sized(Swapped(x), n)
<1> DEFINE b     == BITS_IN_BYTE
           k     == n \div b
           bytes == vec_splitIntoNewArray(x, k)
           other == [j \in Bits(k) |-> bytes[(k - 1) - j]]
<1>1. n \in Nat \ {0} /\ x.size = n /\ Lits(x) \in LitVec(n) /\ b \in Nat \ {0}
  BY SizedFacts, WordsType
<1>2. k \in Nat \ {0} /\ n = k * b /\ n \div k = b
  <2>1. k \in Nat /\ n = k * b
    <3> HIDE DEF b
    <3> QED BY <1>1 DEF b
  <2>2. k # 0
    BY <1>1, <2>1
  <2>3. \A p, q \in Nat \ {0} : (p * q) \div p = q
    OBVIOUS
  <2> HIDE DEF k, b
  <2> QED BY <1>1, <2>1, <2>2, <2>3
<1>3. ASSUME NEW j \in Bits(k)
      PROVE  Sized(bytes[j], b)
  <2> DEFINE s == [i \in Bits(b) |-> Lits(x)[j * b + i]]
  <2>1. s \in LitVec(b)
    <3>1. ASSUME NEW i \in Bits(b) PROVE j * b + i \in Bits(n)
      <4>1. j \in Nat /\ i \in Nat /\ i < b /\ j + 1 <= k
        <5> HIDE DEF b, k
        <5> QED BY <1>1, <1>2 DEF Bits
      <4>2. (j + 1) * b <= k * b /\ (j + 1) * b = j * b + b
        <5> HIDE DEF b, k
        <5> QED BY <1>1, <1>2, <4>1
      <4> HIDE DEF b, k
      <4>3. j * b \in Nat
        BY <1>1, <4>1
      <4>4. j * b + i < n
        BY <1>1, <1>2, <4>1, <4>2, <4>3
      <4> QED BY <4>1, <4>3, <4>4, <1>1 DEF Bits
    <3> QED BY <1>1, <3>1 DEF LitVec
  <2>2. bytes[j] = Folded(b, s)
    <3>1. bytes[j] = Folded(n \div k, [i \in Bits(n \div k) |-> Lits(x)[j * (n \div k) + i]])
      BY <1>1 DEF vec_splitIntoNewArray
    <3> HIDE DEF bytes, k, b
    <3> QED BY <1>2, <3>1
  <2> HIDE DEF s
  <2> QED BY <1>1, <2>1, <2>2, FoldedType
<1> HIDE DEF bytes
<1>4. ASSUME NEW j \in Bits(k)
      PROVE  Sized(other[j], b)
  <2>1. (k - 1) - j \in Bits(k)
    <3> HIDE DEF k
    <3> QED BY <1>2 DEF Bits
  <2> QED BY <1>3, <2>1
<1> DEFINE s == [i \in Bits(n) |-> Lits(other[i \div b])[i % b]]
<1>5. s \in LitVec(n)
  <2>1. ASSUME NEW i \in Bits(n)
        PROVE  Lits(other[i \div b])[i % b] \in Literal
    <3> HIDE DEF other
    <3>1. i \in Nat /\ i < k * b
      <4> HIDE DEF k, b
      <4> QED BY <1>1, <1>2 DEF Bits
    <3>2. i \div b \in Bits(k) /\ i % b \in Bits(b)
      <4> HIDE DEF k, b
      <4>1. i \div b \in Nat /\ i % b \in 0 .. b - 1 /\ i = b * (i \div b) + (i % b)
        BY <1>1, <3>1
      <4>2. i \div b < k
        <5> DEFINE q == i \div b
        <5>1. q \in Nat /\ b * q <= i
          BY <1>1, <4>1
        <5> HIDE DEF q
        <5>2. q >= k => b * q >= k * b
          BY <1>1, <1>2, <5>1
        <5>3. q < k
          BY <1>1, <1>2, <3>1, <5>1, <5>2
        <5> QED BY <5>3 DEF q
      <4> QED BY <1>2, <4>1, <4>2 DEF Bits
    <3> HIDE DEF k, b
    <3>3. Lits(other[i \div b]) \in LitVec(b)
      BY <1>4, <3>2, SizedFacts
    <3> QED BY <3>2, <3>3 DEF LitVec
  <2> QED BY <2>1 DEF LitVec
<1>6. Swapped(x) = Folded(n, s)
  <2>1. Swapped(x) = vec_joinArray(other, k)
    BY <1>1 DEF Swapped, bytes
  <2>2. other[0].size = b
    <3>1. 0 \in Bits(k)
      <4> HIDE DEF k
      <4> QED BY <1>2 DEF Bits
    <3> HIDE DEF other, k, b
    <3> QED BY <1>4, <3>1, SizedFacts
  <2> HIDE DEF other, k, b
  <2>3. vec_joinArray(other, k) = Folded(k * b, [i \in Bits(k * b) |-> Lits(other[i \div b])[i % b]])
    BY <2>2 DEF vec_joinArray
  <2> QED BY <1>2, <2>1, <2>3
<1> HIDE DEF s
<1> QED BY <1>1, <1>5, <1>6, FoldedType

LEMMA SolvedType ==
  ASSUME NEW p, NEW l \in Literal
  PROVE  SolvedLit(p, l) \subseteq Literal
BY LiteralType DEF SolvedLit

LEMMA ConcretizeType ==
  ASSUME NEW n, NEW x, Sized(x, n), NEW p, NEW z \in vec_concretize_with_SAT(p, x)
  PROVE  Sized(z, n)
<1>1. n \in Nat \ {0} /\ x.size = n
  BY SizedFacts
<1>2. CASE ~x.isSymbolic
  BY <1>2 DEF vec_concretize_with_SAT
<1>3. CASE x.isSymbolic
  <2>1. x.symWord \in LitVec(n)
    BY <1>3, SizedFacts
  <2>2. PICK s \in [Bits(n) -> UNION {SolvedLit(p, x.symWord[i]) : i \in Bits(n)}] :
               z = Folded(n, s) /\ \A i \in Bits(n) : s[i] \in SolvedLit(p, x.symWord[i])
    BY <1>1, <1>3 DEF vec_concretize_with_SAT
  <2>3. \A i \in Bits(n) : s[i] \in Literal
    <3> TAKE i \in Bits(n)
    <3>1. x.symWord[i] \in Literal
      BY <2>1 DEF LitVec
    <3>2. SolvedLit(p, x.symWord[i]) \subseteq Literal
      BY <3>1, SolvedType
    <3> QED BY <2>2, <3>2
  <2>4. s \in LitVec(n)
    <3>1. s = [i \in Bits(n) |-> s[i]]
      BY <2>2
    <3> QED BY <2>3, <3>1 DEF LitVec
  <2> QED BY <1>1, <2>2, <2>4, FoldedType
<1> QED BY <1>2, <1>3
-----------------------------------------------------------------------------
(***************************************************************************)
(* Programs.                                                               *)
(***************************************************************************)
\* Verified is inductive once the registers are known to be a function.
Verifies == Verified /\ regs = [r \in Reg |-> regs[r]]

Replaced(d, vec) == regs' = [regs EXCEPT ![d] = vec]

LEMMA ReplacedVerifies ==
  ASSUME Verifies, NEW d \in Reg, NEW vec, NEW n, Sized(vec, n), Replaced(d, vec)
  PROVE  Verifies'
<1>1. regs' = [r \in Reg |-> IF r = d THEN vec ELSE regs[r]]
  BY DEF Verifies, Replaced
<1>2. \A r \in Reg : IsVector(regs'[r])
  BY <1>1 DEF Verifies, Verified, Sized
<1>3. regs' = [r \in Reg |-> regs'[r]]
  BY <1>1
<1> QED BY <1>2, <1>3 DEF Verifies, Verified

\* Each operation on registers gives one that passes.
LEMMA StepVerifies ==
  ASSUME Verifies, Next
  PROVE  Verifies'
<1>0. \A r \in Reg : Sized(regs[r], Size(r))
  BY DEF Verifies, Verified, Sized, Size
<1>1. ASSUME NEW d \in Reg, NEW s \in Reg, INT_ADD(d, s)
      PROVE  Verifies'
  <2>1. Size(d) = Size(s) /\ Replaced(d, pINT_ADD(regs[d], regs[s]))
    BY <1>1 DEF INT_ADD, SameSize, Binary, Set, Replaced
  <2>2. Sized(regs[s], Size(d))
    BY <1>0, <2>1
  <2>3. Sized(pINT_ADD(regs[d], regs[s]), Size(d))
    BY <2>2, <1>0, AddSubType DEF pINT_ADD
  <2> QED BY <1>0, <2>1, <2>3, ReplacedVerifies
<1>2. ASSUME NEW d \in Reg, NEW s \in Reg, INT_SUB(d, s)
      PROVE  Verifies'
  <2>1. Size(d) = Size(s) /\ Replaced(d, pINT_SUB(regs[d], regs[s]))
    BY <1>2 DEF INT_SUB, SameSize, Binary, Set, Replaced
  <2>2. Sized(regs[s], Size(d))
    BY <1>0, <2>1
  <2>3. Sized(pINT_SUB(regs[d], regs[s]), Size(d))
    BY <2>2, <1>0, AddSubType DEF pINT_SUB
  <2> QED BY <1>0, <2>1, <2>3, ReplacedVerifies
<1>3. ASSUME NEW d \in Reg, NEW s \in Reg, INT_MULT(d, s)
      PROVE  Verifies'
  <2>1. Size(d) = Size(s) /\ Replaced(d, pINT_MULT(regs[d], regs[s]))
    BY <1>3 DEF INT_MULT, SameSize, Binary, Set, Replaced
  <2>2. Sized(regs[s], Size(d))
    BY <1>0, <2>1
  <2>3. Sized(pINT_MULT(regs[d], regs[s]), Size(d))
    BY <2>2, <1>0, AddSubType DEF pINT_MULT
  <2> QED BY <1>0, <2>1, <2>3, ReplacedVerifies
<1>4. ASSUME NEW d \in Reg, NEW s \in Reg, INT_DIV(d, s)
      PROVE  Verifies'
  <2>1. Size(d) = Size(s) /\ Replaced(d, pINT_DIV(regs[d], regs[s]))
    BY <1>4 DEF INT_DIV, SameSize, Binary, Set, Replaced
  <2>2. Sized(regs[s], Size(d))
    BY <1>0, <2>1
  <2>3. Sized(pINT_DIV(regs[d], regs[s]), Size(d))
    BY <2>2, <1>0, AddSubType DEF pINT_DIV
  <2> QED BY <1>0, <2>1, <2>3, ReplacedVerifies
<1>5. ASSUME NEW d \in Reg, NEW s \in Reg, INT_REM(d, s)
      PROVE  Verifies'
  <2>1. Size(d) = Size(s) /\ Replaced(d, pINT_REM(regs[d], regs[s]))
    BY <1>5 DEF INT_REM, SameSize, Binary, Set, Replaced
  <2>2. Sized(regs[s], Size(d))
    BY <1>0, <2>1
  <2>3. Sized(pINT_REM(regs[d], regs[s]), Size(d))
    BY <2>2, <1>0, AddSubType DEF pINT_REM
  <2> QED BY <1>0, <2>1, <2>3, ReplacedVerifies
<1>6. ASSUME NEW d \in Reg, NEW s \in Reg, INT_AND(d, s)
      PROVE  Verifies'
  <2>1. Size(d) = Size(s) /\ Replaced(d, pINT_AND(regs[d], regs[s]))
    BY <1>6 DEF INT_AND, SameSize, Binary, Set, Replaced
  <2>2. Sized(regs[s], Size(d))
    BY <1>0, <2>1
  <2>3. Sized(pINT_AND(regs[d], regs[s]), Size(d))
    BY <2>2, <1>0, BitwiseType DEF pINT_AND
  <2> QED BY <1>0, <2>1, <2>3, ReplacedVerifies
<1>7. ASSUME NEW d \in Reg, NEW s \in Reg, INT_OR(d, s)
      PROVE  Verifies'
  <2>1. Size(d) = Size(s) /\ Replaced(d, pINT_OR(regs[d], regs[s]))
    BY <1>7 DEF INT_OR, SameSize, Binary, Set, Replaced
  <2>2. Sized(regs[s], Size(d))
    BY <1>0, <2>1
  <2>3. Sized(pINT_OR(regs[d], regs[s]), Size(d))
    BY <2>2, <1>0, BitwiseType DEF pINT_OR
  <2> QED BY <1>0, <2>1, <2>3, ReplacedVerifies
<1>8. ASSUME NEW d \in Reg, NEW s \in Reg, INT_XOR(d, s)
      PROVE  Verifies'
  <2>1. Size(d) = Size(s) /\ Replaced(d, pINT_XOR(regs[d], regs[s]))
    BY <1>8 DEF INT_XOR, SameSize, Binary, Set, Replaced
  <2>2. Sized(regs[s], Size(d))
    BY <1>0, <2>1
  <2>3. Sized(pINT_XOR(regs[d], regs[s]), Size(d))
    BY <2>2, <1>0, BitwiseType DEF pINT_XOR
  <2> QED BY <1>0, <2>1, <2>3, ReplacedVerifies
<1>9. ASSUME NEW d \in Reg, NEW s \in Reg, INT_SDIV(d, s)
      PROVE  Verifies'
  <2>1. Size(d) <= WORD_BITS /\ Size(d) = Size(s) /\ Replaced(d, pINT_SDIV(regs[d], regs[s]))
    BY <1>9 DEF INT_SDIV, Signed2, SameSize, Binary, Set, Replaced
  <2>2. Sized(regs[s], Size(d))
    BY <1>0, <2>1
  <2>3. Sized(pINT_SDIV(regs[d], regs[s]), Size(d))
    BY <2>1, <2>2, <1>0, SignedDivisionType
  <2> QED BY <1>0, <2>1, <2>3, ReplacedVerifies
<1>10. ASSUME NEW d \in Reg, NEW s \in Reg, INT_SREM(d, s)
      PROVE  Verifies'
  <2>1. Size(d) = Size(s) /\ Replaced(d, pINT_SREM(regs[d], regs[s]))
    BY <1>10 DEF INT_SREM, Signed2, SameSize, Binary, Set, Replaced
  <2>2. Sized(regs[s], Size(d))
    BY <1>0, <2>1
  <2>3. Sized(pINT_SREM(regs[d], regs[s]), Size(d))
    BY <2>2, <1>0, SignedDivisionType
  <2> QED BY <1>0, <2>1, <2>3, ReplacedVerifies
<1>11. ASSUME NEW d \in Reg, NEW s \in Reg, INT_EQUAL(d, s)
      PROVE  Verifies'
  <2>1. Size(d) = Size(s) /\ Replaced(d, pINT_EQUAL(regs[d], regs[s]))
    BY <1>11 DEF INT_EQUAL, SameSize, Binary, Set, Replaced
  <2>2. Sized(regs[s], Size(d))
    BY <1>0, <2>1
  <2>3. Sized(pINT_EQUAL(regs[d], regs[s]), BITS_IN_BYTE)
    BY <2>2, <1>0, FlagOperationsType
  <2> QED BY <1>0, <2>1, <2>3, ReplacedVerifies
<1>12. ASSUME NEW d \in Reg, NEW s \in Reg, INT_NOTEQUAL(d, s)
      PROVE  Verifies'
  <2>1. Size(d) = Size(s) /\ Replaced(d, pINT_NOTEQUAL(regs[d], regs[s]))
    BY <1>12 DEF INT_NOTEQUAL, SameSize, Binary, Set, Replaced
  <2>2. Sized(regs[s], Size(d))
    BY <1>0, <2>1
  <2>3. Sized(pINT_NOTEQUAL(regs[d], regs[s]), BITS_IN_BYTE)
    BY <2>2, <1>0, FlagOperationsType
  <2> QED BY <1>0, <2>1, <2>3, ReplacedVerifies
<1>13. ASSUME NEW d \in Reg, NEW s \in Reg, INT_LESS(d, s)
      PROVE  Verifies'
  <2>1. Size(d) = Size(s) /\ Replaced(d, pINT_LESS(regs[d], regs[s]))
    BY <1>13 DEF INT_LESS, SameSize, Binary, Set, Replaced
  <2>2. Sized(regs[s], Size(d))
    BY <1>0, <2>1
  <2>3. Sized(pINT_LESS(regs[d], regs[s]), BITS_IN_BYTE)
    BY <2>2, <1>0, FlagOperationsType
  <2> QED BY <1>0, <2>1, <2>3, ReplacedVerifies
<1>14. ASSUME NEW d \in Reg, NEW s \in Reg, INT_LESSEQUAL(d, s)
      PROVE  Verifies'
  <2>1. Size(d) = Size(s) /\ Replaced(d, pINT_LESSEQUAL(regs[d], regs[s]))
    BY <1>14 DEF INT_LESSEQUAL, SameSize, Binary, Set, Replaced
  <2>2. Sized(regs[s], Size(d))
    BY <1>0, <2>1
  <2>3. Sized(pINT_LESSEQUAL(regs[d], regs[s]), BITS_IN_BYTE)
    BY <2>2, <1>0, FlagOperationsType
  <2> QED BY <1>0, <2>1, <2>3, ReplacedVerifies
<1>15. ASSUME NEW d \in Reg, NEW s \in Reg, INT_CARRY(d, s)
      PROVE  Verifies'
  <2>1. Size(d) = Size(s) /\ Replaced(d, pINT_CARRY(regs[d], regs[s]))
    BY <1>15 DEF INT_CARRY, SameSize, Binary, Set, Replaced
  <2>2. Sized(regs[s], Size(d))
    BY <1>0, <2>1
  <2>3. Sized(pINT_CARRY(regs[d], regs[s]), BITS_IN_BYTE)
    BY <2>2, <1>0, FlagOperationsType
  <2> QED BY <1>0, <2>1, <2>3, ReplacedVerifies
<1>16. ASSUME NEW d \in Reg, NEW s \in Reg, INT_SLESS(d, s)
      PROVE  Verifies'
  <2>1. Size(d) = Size(s) /\ Replaced(d, pINT_SLESS(regs[d], regs[s]))
    BY <1>16 DEF INT_SLESS, Signed2, SameSize, Binary, Set, Replaced
  <2>2. Sized(regs[s], Size(d))
    BY <1>0, <2>1
  <2>3. Sized(pINT_SLESS(regs[d], regs[s]), BITS_IN_BYTE)
    BY <2>2, <1>0, FlagOperationsType
  <2> QED BY <1>0, <2>1, <2>3, ReplacedVerifies
<1>17. ASSUME NEW d \in Reg, NEW s \in Reg, INT_SLESSEQUAL(d, s)
      PROVE  Verifies'
  <2>1. Size(d) = Size(s) /\ Replaced(d, pINT_SLESSEQUAL(regs[d], regs[s]))
    BY <1>17 DEF INT_SLESSEQUAL, Signed2, SameSize, Binary, Set, Replaced
  <2>2. Sized(regs[s], Size(d))
    BY <1>0, <2>1
  <2>3. Sized(pINT_SLESSEQUAL(regs[d], regs[s]), BITS_IN_BYTE)
    BY <2>2, <1>0, SignedLessEqualType
  <2> QED BY <1>0, <2>1, <2>3, ReplacedVerifies
<1>18. ASSUME NEW d \in Reg, NEW s \in Reg, INT_SCARRY(d, s)
      PROVE  Verifies'
  <2>1. Size(d) = Size(s) /\ Replaced(d, pINT_SCARRY(regs[d], regs[s]))
    BY <1>18 DEF INT_SCARRY, Signed2, SameSize, Binary, Set, Replaced
  <2>2. Sized(regs[s], Size(d))
    BY <1>0, <2>1
  <2>3. Sized(pINT_SCARRY(regs[d], regs[s]), BITS_IN_BYTE)
    BY <2>2, <1>0, SignedCarryType
  <2> QED BY <1>0, <2>1, <2>3, ReplacedVerifies
<1>19. ASSUME NEW d \in Reg, NEW s \in Reg, INT_SBORROW(d, s)
      PROVE  Verifies'
  <2>1. Size(d) = Size(s) /\ Replaced(d, pINT_SBORROW(regs[d], regs[s]))
    BY <1>19 DEF INT_SBORROW, Signed2, SameSize, Binary, Set, Replaced
  <2>2. Sized(regs[s], Size(d))
    BY <1>0, <2>1
  <2>3. Sized(pINT_SBORROW(regs[d], regs[s]), BITS_IN_BYTE)
    BY <2>2, <1>0, SignedCarryType
  <2> QED BY <1>0, <2>1, <2>3, ReplacedVerifies
<1>20. ASSUME NEW d \in Reg, NEW s \in Reg, COPY(d, s)
      PROVE  Verifies'
  <2>1. Replaced(d, regs[s])
    BY <1>20 DEF COPY, Binary, pCOPY, Set, Replaced
  <2>2. Sized(regs[s], Size(s))
    BY <1>0
  <2> QED BY <1>0, <2>1, <2>2, ReplacedVerifies
<1>21. ASSUME NEW d \in Reg, NEW s \in Reg, INT_LEFT(d, s)
      PROVE  Verifies'
  <2>1. Replaced(d, vec_shiftleft(regs[d], regs[s]))
    BY <1>21 DEF INT_LEFT, Binary, pINT_LEFT, Set, Replaced
  <2>2. IsVector(regs[d]) /\ IsVector(regs[s])
    BY <1>0 DEF Sized
  <2>3. Sized(vec_shiftleft(regs[d], regs[s]), Size(d))
    BY <2>2, ShiftLeftType DEF Size
  <2> QED BY <1>0, <2>1, <2>3, ReplacedVerifies
<1>22. ASSUME NEW d \in Reg, NEW s \in Reg, INT_RIGHT(d, s)
      PROVE  Verifies'
  <2>1. Replaced(d, vec_shiftright(regs[d], regs[s]))
    BY <1>22 DEF INT_RIGHT, Binary, pINT_RIGHT, Set, Replaced
  <2>2. IsVector(regs[d]) /\ IsVector(regs[s])
    BY <1>0 DEF Sized
  <2>3. Sized(vec_shiftright(regs[d], regs[s]), Size(d))
    BY <2>2, ShiftRightType DEF Size
  <2> QED BY <1>0, <2>1, <2>3, ReplacedVerifies
<1>23. ASSUME NEW d \in Reg, NEW s \in Reg, INT_SRIGHT(d, s)
      PROVE  Verifies'
  <2>1. Replaced(d, vec_signedshiftright(regs[d], regs[s]))
    BY <1>23 DEF INT_SRIGHT, Binary, pINT_SRIGHT, Set, Replaced
  <2>2. IsVector(regs[d]) /\ IsVector(regs[s])
    BY <1>0 DEF Sized
  <2>4. SignedShiftAsserts(regs[d], regs[s])
    BY <1>23 DEF INT_SRIGHT, SRightIsRight
  <2>3. Sized(vec_signedshiftright(regs[d], regs[s]), Size(d))
    BY <2>2, <2>4, SignedShiftRightType DEF Size
  <2> QED BY <1>0, <2>1, <2>3, ReplacedVerifies
<1>24. ASSUME NEW d \in Reg, NEW s \in Reg, RotateRight(d, s)
      PROVE  Verifies'
  <2>1. Replaced(d, vec_rotateright(regs[d], regs[s]))
    BY <1>24 DEF RotateRight, Binary, Set, Replaced
  <2>2. IsVector(regs[d]) /\ IsVector(regs[s])
    BY <1>0 DEF Sized
  <2>3. Sized(vec_rotateright(regs[d], regs[s]), Size(d))
    BY <2>2, RotateRightType DEF Size
  <2> QED BY <1>0, <2>1, <2>3, ReplacedVerifies
<1>25. ASSUME NEW d \in Reg, NEW s \in Reg, RotateLeft(d, s)
      PROVE  Verifies'
  <2>1. Replaced(d, vec_rotateleft(regs[d], regs[s]))
    BY <1>25 DEF RotateLeft, Binary, Set, Replaced
  <2>2. IsVector(regs[d]) /\ IsVector(regs[s])
    BY <1>0 DEF Sized
  <2>3. Sized(vec_rotateleft(regs[d], regs[s]), Size(d))
    BY <2>2, RotateLeftType DEF Size
  <2> QED BY <1>0, <2>1, <2>3, ReplacedVerifies
<1>26. ASSUME NEW d \in Reg, NEW s \in Reg, BOOL_AND(d, s)
      PROVE  Verifies'
  <2>1. Replaced(d, pBOOL_AND(regs[d], regs[s]))
    BY <1>26 DEF BOOL_AND, BoolBinary, Binary, Set, Replaced
  <2>2. Sized(pBOOL_AND(regs[d], regs[s]), BITS_IN_BYTE)
    BY <2>1, <1>0, BooleanType
  <2> QED BY <1>0, <2>1, <2>2, ReplacedVerifies
<1>27. ASSUME NEW d \in Reg, NEW s \in Reg, BOOL_OR(d, s)
      PROVE  Verifies'
  <2>1. Replaced(d, pBOOL_OR(regs[d], regs[s]))
    BY <1>27 DEF BOOL_OR, BoolBinary, Binary, Set, Replaced
  <2>2. Sized(pBOOL_OR(regs[d], regs[s]), BITS_IN_BYTE)
    BY <2>1, <1>0, BooleanType
  <2> QED BY <1>0, <2>1, <2>2, ReplacedVerifies
<1>28. ASSUME NEW d \in Reg, NEW s \in Reg, BOOL_XOR(d, s)
      PROVE  Verifies'
  <2>1. Replaced(d, pBOOL_XOR(regs[d], regs[s]))
    BY <1>28 DEF BOOL_XOR, BoolBinary, Binary, Set, Replaced
  <2>2. Sized(pBOOL_XOR(regs[d], regs[s]), BITS_IN_BYTE)
    BY <2>1, <1>0, BooleanType
  <2> QED BY <1>0, <2>1, <2>2, ReplacedVerifies
<1>29. ASSUME NEW d \in Reg, NEW s \in Reg, PIECES(d, s)
      PROVE  Verifies'
  <2>1. Replaced(d, vec_cat(regs[d], regs[s]))
    BY <1>29 DEF PIECES, pPIECE, Set, Replaced
  <2>2. Sized(vec_cat(regs[d], regs[s]), Size(d) + Size(s))
    BY <2>1, <1>0, CatType
  <2> QED BY <1>0, <2>1, <2>2, ReplacedVerifies
<1>30. ASSUME NEW d \in Reg, NEW s \in Reg, NEW c \in Reg, IfThenElse(c, d, s)
      PROVE  Verifies'
  <2>1. Size(d) = Size(s) /\ Replaced(d, vec_ite(Condition(c), regs[d], regs[s]))
    BY <1>30 DEF IfThenElse, Set, Replaced
  <2>2. Sized(regs[s], Size(d))
    BY <1>0, <2>1
  <2>3. Condition(c) \in Literal
    BY <1>0, BooleanType DEF Condition
  <2>4. Sized(vec_ite(Condition(c), regs[d], regs[s]), Size(d))
    BY <1>0, <2>2, <2>3, IteType
  <2> QED BY <1>0, <2>1, <2>4, ReplacedVerifies
<1>31. ASSUME NEW d \in Reg, NEW s \in Reg, NEW c \in Reg, IfEqual(c, d, s)
      PROVE  Verifies'
  <2>1. PICK l \in vec_equal_SAT(path, regs[d], regs[s]) :
              Replaced(d, vec_ite(l, regs[c], regs[d]))
    BY <1>31 DEF IfEqual, Set, Replaced
  <2>2. Sized(regs[s], Size(d)) /\ Sized(regs[c], Size(d))
    <3>1. Size(d) = Size(s) /\ Size(c) = Size(d)
      BY <1>31 DEF IfEqual
    <3> QED BY <1>0, <3>1
  <2>3. l \in Literal
    <3>1. vec_equal(regs[d], regs[s]) \in Literal
      BY <1>0, <2>2, ComparisonType
    <3> QED BY <2>1, <3>1, SolvedType DEF vec_equal_SAT
  <2>4. Sized(vec_ite(l, regs[c], regs[d]), Size(d))
    BY <1>0, <2>2, <2>3, IteType
  <2> QED BY <1>0, <2>1, <2>4, ReplacedVerifies
<1>32. ASSUME NEW d \in Reg, INT_2COMP(d)
      PROVE  Verifies'
  <2>1. Replaced(d, vec_negate(regs[d]))
    BY <1>32 DEF INT_2COMP, Unary, pINT_2COMP, Set, Replaced
  <2>2. Sized(vec_negate(regs[d]), Size(d))
    BY <2>1, <1>0, NegateType
  <2> QED BY <1>0, <2>1, <2>2, ReplacedVerifies
<1>33. ASSUME NEW d \in Reg, INT_NEGATE(d)
      PROVE  Verifies'
  <2>1. Replaced(d, vec_invert(regs[d]))
    BY <1>33 DEF INT_NEGATE, Unary, pINT_NEGATE, Set, Replaced
  <2>2. Sized(vec_invert(regs[d]), Size(d))
    BY <2>1, <1>0, NegateType
  <2> QED BY <1>0, <2>1, <2>2, ReplacedVerifies
<1>34. ASSUME NEW d \in Reg, Absolute(d)
      PROVE  Verifies'
  <2>1. Replaced(d, vec_abs(regs[d]))
    BY <1>34 DEF Absolute, Unary, Set, Replaced
  <2>2. Sized(vec_abs(regs[d]), Size(d))
    BY <2>1, <1>0, NegateType
  <2> QED BY <1>0, <2>1, <2>2, ReplacedVerifies
<1>35. ASSUME NEW d \in Reg, Reverse(d)
      PROVE  Verifies'
  <2>1. Replaced(d, vec_reverse(regs[d]))
    BY <1>35 DEF Reverse, Unary, Set, Replaced
  <2>2. Sized(vec_reverse(regs[d]), Size(d))
    BY <2>1, <1>0, ReverseType
  <2> QED BY <1>0, <2>1, <2>2, ReplacedVerifies
<1>36. ASSUME NEW d \in Reg, BOOL_NEGATE(d)
      PROVE  Verifies'
  <2>1. Replaced(d, pBOOL_NEGATE(regs[d]))
    BY <1>36 DEF BOOL_NEGATE, Unary, Set, Replaced
  <2>2. Sized(pBOOL_NEGATE(regs[d]), BITS_IN_BYTE)
    BY <2>1, <1>0, BooleanType
  <2> QED BY <1>0, <2>1, <2>2, ReplacedVerifies
<1>37. ASSUME NEW d \in Reg, SwapBytes(d)
      PROVE  Verifies'
  <2>1. Size(d) % BITS_IN_BYTE = 0 /\ Replaced(d, Swapped(regs[d]))
    BY <1>37 DEF SwapBytes, Swapped, Size, Set, Replaced
  <2>2. Sized(Swapped(regs[d]), Size(d))
    BY <2>1, <1>0, SwappedType
  <2> QED BY <1>0, <2>1, <2>2, ReplacedVerifies
<1>38. ASSUME NEW d \in Reg, Concretize(d)
      PROVE  Verifies'
  <2>1. PICK x \in vec_concretize_with_SAT(path, regs[d]) : Replaced(d, x)
    BY <1>38 DEF Concretize, Replaced
  <2>2. Sized(x, Size(d))
    BY <1>0, <2>1, ConcretizeType
  <2> QED BY <1>0, <2>1, <2>2, ReplacedVerifies
<1>39. ASSUME NEW d \in Reg, NEW m \in 1 .. MaxSize \div BITS_IN_BYTE, INT_ZEXT(d, m)
      PROVE  Verifies'
  <2>1. m * BITS_IN_BYTE >= Size(d) /\ Replaced(d, vec_zextend(regs[d], m * BITS_IN_BYTE))
    BY <1>39 DEF INT_ZEXT, Unary, pINT_ZEXT, Set, Replaced
  <2>2. m * BITS_IN_BYTE \in Nat \ {0}
    BY BytesType
  <2>3. Sized(vec_zextend(regs[d], m * BITS_IN_BYTE), m * BITS_IN_BYTE)
    BY <1>0, <2>1, <2>2, ZextType
  <2> QED BY <1>0, <2>1, <2>3, ReplacedVerifies
<1>40. ASSUME NEW d \in Reg, NEW m \in 1 .. MaxSize \div BITS_IN_BYTE, INT_SEXT(d, m)
      PROVE  Verifies'
  <2>1. m * BITS_IN_BYTE >= Size(d) /\ Replaced(d, vec_sextend(regs[d], m * BITS_IN_BYTE))
    BY <1>40 DEF INT_SEXT, Unary, pINT_SEXT, Set, Replaced
  <2>2. m * BITS_IN_BYTE \in Nat \ {0}
    BY BytesType
  <2>3. Sized(vec_sextend(regs[d], m * BITS_IN_BYTE), m * BITS_IN_BYTE)
    BY <1>0, <2>1, <2>2, ZextType
  <2> QED BY <1>0, <2>1, <2>3, ReplacedVerifies
<1>41. ASSUME NEW d \in Reg, NEW m \in 1 .. MaxSize \div BITS_IN_BYTE, NEW k \in 0 .. MaxSize \div BITS_IN_BYTE,
             SUBPIECE(d, k, m)
      PROVE  Verifies'
  <2>1. Replaced(d, pSUBPIECE(regs[d], k, m))
    BY <1>41 DEF SUBPIECE, Unary, Set, Replaced
  <2>2. k \in Nat /\ m \in Nat \ {0}
    OBVIOUS
  <2>3. Sized(pSUBPIECE(regs[d], k, m), m * BITS_IN_BYTE)
    BY <1>0, <2>2, SubpieceType
  <2> QED BY <1>0, <2>1, <2>3, ReplacedVerifies
<1>42. ASSUME NEW d \in Reg, NEW amount \in 1 .. MaxSize, Truncate(d, amount)
      PROVE  Verifies'
  <2>1. /\ amount <= Size(d) /\ ExtractAsserts(regs[d], 0, amount)
        /\ Replaced(d, vec_extract(regs[d], 0, amount))
    BY <1>42 DEF Truncate, Unary, vec_trunc, Set, Replaced
  <2>2. 0 \in Nat /\ amount \in Nat \ {0} /\ 0 + amount <= Size(d)
    BY <2>1
  <2>3. Sized(vec_extract(regs[d], 0, amount), amount)
    BY <1>0, <2>1, <2>2, ExtractType
  <2> QED BY <1>0, <2>1, <2>3, ReplacedVerifies
<1>43. ASSUME NEW d \in Reg, NEW amount \in 1 .. MaxSize, NEW start \in Bits(MaxSize),
             Extract(d, start, amount)
      PROVE  Verifies'
  <2>1. /\ start + amount < Size(d) /\ ExtractAsserts(regs[d], start, amount)
        /\ Replaced(d, vec_extract(regs[d], start, amount))
    BY <1>43 DEF Extract, Unary, Set, Replaced
  <2>2. start \in Nat /\ amount \in Nat \ {0} /\ start + amount <= Size(d)
    <3>1. Size(d) \in Nat
      BY <1>0, SizedFacts
    <3> QED BY <2>1, <3>1 DEF Bits
  <2>3. Sized(vec_extract(regs[d], start, amount), amount)
    BY <1>0, <2>1, <2>2, ExtractType
  <2> QED BY <1>0, <2>1, <2>3, ReplacedVerifies
<1>44. ASSUME NEW d \in Reg, NEW amount \in 1 .. MaxSize, NEW start \in Bits(MaxSize),
             SelectBits(d, amount, start)
      PROVE  Verifies'
  <2>1. amount + start <= Size(d) /\ Replaced(d, vec_selectBits(regs[d], amount, start))
    BY <1>44 DEF SelectBits, Unary, Set, Replaced
  <2>2. start \in Nat /\ amount \in Nat \ {0} /\ start + amount <= Size(d)
    BY <2>1 DEF Bits
  <2>3. Sized(vec_selectBits(regs[d], amount, start), amount)
    BY <1>0, <2>2, ExtractType
  <2> QED BY <1>0, <2>1, <2>3, ReplacedVerifies
<1>45. ASSUME NEW d \in Reg, NEW value \in BOOLEAN, Assume(d, value)
      PROVE  Verifies'
  BY <1>45 DEF Assume, Verifies, Verified
<1> QED
  BY <1>1, <1>2, <1>3, <1>4, <1>5, <1>6, <1>7, <1>8, <1>9, <1>10, <1>11, <1>12,
      <1>13, <1>14, <1>15, <1>16, <1>17, <1>18, <1>19, <1>20, <1>21, <1>22, <1>23,
      <1>24, <1>25, <1>26, <1>27, <1>28, <1>29, <1>30, <1>31, <1>32, <1>33, <1>34,
      <1>35, <1>36, <1>37, <1>38, <1>39, <1>40, <1>41, <1>42, <1>43, <1>44, <1>45 DEF Next

\* Whatever sequence of operations, merges, branches and answers of the
\* solver a program takes, every vector it makes passes vec_verify: no
\* operation folds a result that is wider than a machine word into one, or
\* leaves a bit of a symbolic vector without a literal.
THEOREM VectorsAreVerified == Spec => []Verified
<1>1. Init => Verifies
  BY VectorProgramAssumption DEF Init, Verifies, Verified
<1>2. Verifies /\ [Next]_vars => Verifies'
  BY StepVerifies DEF Verifies, Verified, vars
<1>3. Verifies => Verified
  BY DEF Verifies
<1> QED BY <1>1, <1>2, <1>3, PTL DEF Spec
=============================================================================
