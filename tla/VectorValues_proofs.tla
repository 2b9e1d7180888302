------------------------- MODULE VectorValues_proofs -------------------------
(***************************************************************************)
(* Proofs that the vector operations compute what they are named for, on   *)
(* the numbers that vectors stand for under each valuation of the inputs:  *)
(* for all sizes of vectors and every width of a machine word, and for     *)
(* every mix of operands that are words, literals, or literals that fold   *)
(* into a word.                                                            *)
(*                                                                         *)
(* Powers of two come first: 2^n counts the subsets of 1 .. n, so that it  *)
(* doubles.  Then the numbers of literals, quotients and remainders, the   *)
(* circuits that add, compare, shift and divide numbers of literals, and   *)
(* the operations on vectors, each with its cases.                         *)
(***************************************************************************)
EXTENDS VectorProgram_proofs

(***************************************************************************)
(* Powers of two.                                                          *)
(***************************************************************************)
LEMMA PowerZero == 2^0 = 1
<1>1. IsFiniteSet({}) /\ Cardinality({}) = 0
  BY FS_EmptySet
<1>2. Cardinality(SUBSET {}) = 2^0
  <2>1. Cardinality(SUBSET {}) = 2^Cardinality({})
    BY <1>1, FS_SUBSET
  <2> QED BY ONLY <1>1, <2>1
<1>3. SUBSET {} = {{}}
  OBVIOUS
<1>4. Cardinality({{}}) = 1
  BY FS_Singleton
<1> QED BY ONLY <1>2, <1>3, <1>4

\* The subsets of 1 .. n + 1 are those without n + 1 and those with it.
LEMMA PowerDouble ==
  ASSUME NEW n \in Nat
  PROVE  2^(n + 1) = 2 * 2^n
<1> DEFINE S == SUBSET (1 .. n)
           T == {A \cup {n + 1} : A \in S}
           U == SUBSET (1 .. (n + 1))
<1>1. IsFiniteSet(1 .. n) /\ Cardinality(1 .. n) = n
  BY FS_Interval
<1>2. IsFiniteSet(S) /\ Cardinality(S) = 2^n
  BY <1>1, FS_SUBSET
<1>3. IsFiniteSet(1 .. (n + 1)) /\ Cardinality(1 .. (n + 1)) = n + 1
  <2>1. n + 1 \in Nat
    OBVIOUS
  <2> QED BY <2>1, FS_Interval
<1>4. IsFiniteSet(U) /\ Cardinality(U) = 2^(n + 1)
  BY <1>3, FS_SUBSET
<1>5. U = S \cup T
  <2>1. ASSUME NEW A \in U PROVE A \in S \cup T
    <3>1. CASE n + 1 \in A
      <4>1. A \ {n + 1} \in S
        <5>1. \A k \in 1 .. (n + 1) : k # n + 1 => k \in 1 .. n
          OBVIOUS
        <5> QED BY <5>1
      <4>2. A = (A \ {n + 1}) \cup {n + 1}
        BY <3>1
      <4> QED BY <4>1, <4>2
    <3>2. CASE n + 1 \notin A
      <4>1. \A k \in 1 .. (n + 1) : k # n + 1 => k \in 1 .. n
        OBVIOUS
      <4> QED BY <3>2, <4>1
    <3> QED BY <3>1, <3>2
  <2>2. 1 .. n \subseteq 1 .. (n + 1) /\ n + 1 \in 1 .. (n + 1)
    OBVIOUS
  <2>3. S \subseteq U /\ T \subseteq U
    BY <2>2
  <2> QED BY <2>1, <2>3
<1>6. S \cap T = {}
  <2>1. n + 1 \notin 1 .. n
    OBVIOUS
  <2> QED BY <2>1
<1>7. \E f : f \in Bijection(S, T)
  <2> DEFINE f == [A \in S |-> A \cup {n + 1}]
  <2>1. f \in [S -> T]
    OBVIOUS
  <2>2. \A A, B \in S : f[A] = f[B] => A = B
    <3> TAKE A \in S, B \in S
    <3> HAVE f[A] = f[B]
    <3>1. n + 1 \notin A /\ n + 1 \notin B /\ A \cup {n + 1} = B \cup {n + 1}
      <4>1. n + 1 \notin 1 .. n
        OBVIOUS
      <4> QED BY <4>1
    <3> QED BY <3>1
  <2>3. \A t \in T : \E A \in S : f[A] = t
    OBVIOUS
  <2>4. f \in Injection(S, T)
    <3> HIDE DEF f, S, T
    <3> QED BY <2>1, <2>2 DEF Injection, IsInjective
  <2>5. f \in Surjection(S, T)
    <3> HIDE DEF f, S, T
    <3> QED BY <2>1, <2>3 DEF Surjection
  <2> QED BY <2>4, <2>5 DEF Bijection
<1> HIDE DEF S, T, U
<1>8. IsFiniteSet(T) /\ Cardinality(T) = Cardinality(S)
  BY <1>2, <1>7, FS_Bijection DEF ExistsBijection
<1>9. IsFiniteSet(S \cap T) /\ Cardinality(S \cap T) = 0
  BY <1>6, FS_EmptySet
<1>10. Cardinality(S \cup T) = Cardinality(S) + Cardinality(T) - Cardinality(S \cap T)
  BY <1>2, <1>8, FS_Union
<1>11. Cardinality(S) \in Nat
  BY <1>2, FS_CardinalityType
<1> DEFINE p == 2^n
           q == 2^(n + 1)
<1>12. p = Cardinality(S) /\ q = Cardinality(U)
  BY <1>2, <1>4
<1> HIDE DEF p, q
<1>13. q = 2 * p
  BY <1>5, <1>8, <1>9, <1>10, <1>11, <1>12
<1> QED BY <1>13 DEF p, q

LEMMA PowerSum ==
  ASSUME NEW m \in Nat, NEW n \in Nat
  PROVE  2^(m + n) = 2^m * 2^n
<1> DEFINE G == {k \in 0 .. n : 2^(m + k) = 2^m * 2^k}
<1>1. 0 \in G
  <2> DEFINE p == 2^m
             q == 2^0
  <2>1. p \in Nat /\ q = 1 /\ m + 0 = m
    BY PowerType, PowerZero
  <2>2. 2^(m + 0) = p
    BY <2>1
  <2> HIDE DEF p, q
  <2>3. p = p * q
    BY <2>1
  <2> QED BY <2>2, <2>3 DEF p, q
<1>2. ASSUME NEW k \in 1 .. n, k - 1 \in G
      PROVE  k \in G
  <2>1. k - 1 \in Nat /\ m + (k - 1) \in Nat /\ (k - 1) + 1 = k /\ (m + (k - 1)) + 1 = m + k
    OBVIOUS
  <2>2. 2^((k - 1) + 1) = 2 * 2^(k - 1)
    BY <2>1, PowerDouble
  <2>3. 2^((m + (k - 1)) + 1) = 2 * 2^(m + (k - 1))
    BY <2>1, PowerDouble
  <2>4. 2^(m + (k - 1)) = 2^m * 2^(k - 1)
    BY <1>2
  <2> DEFINE a == 2^m
             b == 2^(k - 1)
             c == 2^k
             d == 2^(m + k)
             e == 2^(m + (k - 1))
  <2>5. a \in Nat /\ b \in Nat /\ c = 2 * b /\ d = 2 * e /\ e = a * b
    BY <2>1, <2>2, <2>3, <2>4, PowerType
  <2> HIDE DEF a, b, c, d, e
  <2>6. d = a * c
    BY <2>5
  <2> QED BY <2>6 DEF a, c, d
<1>3. 0 .. n \subseteq G
  <2> HIDE DEF G
  <2> QED BY <1>1, <1>2, UpTo
<1> QED BY <1>3

LEMMA PowerMonotone ==
  ASSUME NEW m \in Nat, NEW n \in Nat, m <= n
  PROVE  2^m <= 2^n
<1>1. n - m \in Nat /\ m + (n - m) = n
  OBVIOUS
<1>2. 2^(m + (n - m)) = 2^m * 2^(n - m)
  BY <1>1, PowerSum
<1> DEFINE a == 2^m
           b == 2^(n - m)
           c == 2^n
<1>3. a \in Nat \ {0} /\ b \in Nat \ {0} /\ c = a * b
  BY <1>1, <1>2, PowerType
<1> HIDE DEF a, b, c
<1>4. b >= 1
  BY <1>3
<1>5. a * b >= a * 1
  BY <1>3, <1>4
<1>6. a <= c
  BY <1>3, <1>5
<1> QED BY <1>6 DEF a, c

\* A name for powers of two under which the provers do not see them.
Power(n) == 2^n

LEMMA PowerFacts ==
  /\ Power(0) = 1 /\ Power(WORD_BITS) = Words
  /\ \A n \in Nat : Power(n) \in Nat \ {0} /\ Power(n + 1) = 2 * Power(n)
  /\ \A m, n \in Nat : Power(m + n) = Power(m) * Power(n)
  /\ \A m, n \in Nat : m <= n => Power(m) <= Power(n)
BY PowerZero, PowerType, PowerDouble, PowerSum, PowerMonotone DEF Power, Words
-----------------------------------------------------------------------------
(***************************************************************************)
(* The number that n literals are under a valuation.                       *)
(***************************************************************************)
Number(s, n, v) ==
  LET sum[i \in 0 .. n] == IF i = 0 THEN 0 ELSE sum[i - 1] + 2^(i - 1) * Bit(s[i - 1], v)
  IN  sum[n]

\* f has the numbers of the first literals.
NumbersOf(f, s, n, v) ==
  /\ f \in [0 .. n -> Nat] /\ f[0] = 0
  /\ \A i \in 1 .. n : f[i] = f[i - 1] + Power(i - 1) * Bit(s[i - 1], v)

LEMMA BitType == \A l, v : Bit(l, v) \in {0, 1} /\ Bit(l, v) \in Nat
BY DEF Bit

LEMMA NumberIs ==
  ASSUME NEW s, NEW n \in Nat, NEW v
  PROVE  \E f : NumbersOf(f, s, n, v) /\ Number(s, n, v) = f[n]
<1> DEFINE add(i) == 2^(i - 1) * Bit(s[i - 1], v)
           step == [i \in 1 .. n |-> [w \in Nat |-> w + add(i)]]
           Is(f) == f = [i \in 0 .. n |-> IF i = 0 THEN 0 ELSE f[i - 1] + add(i)]
           sum == CHOOSE f : Is(f)
<1>1. \A i \in 1 .. n : add(i) \in Nat /\ add(i) = Power(i - 1) * Bit(s[i - 1], v)
  <2> TAKE i \in 1 .. n
  <2>1. Power(i - 1) \in Nat /\ Bit(s[i - 1], v) \in Nat
    <3>1. i - 1 \in Nat
      OBVIOUS
    <3> QED BY <3>1, PowerFacts, BitType
  <2>2. add(i) = Power(i - 1) * Bit(s[i - 1], v)
    BY DEF Power
  <2> HIDE DEF add
  <2> QED BY <2>1, <2>2
<1>2. Number(s, n, v) = sum[n]
  BY DEF Number
<1> HIDE DEF add
<1>3. step \in Steps(n, Nat)
  BY <1>1 DEF Steps
<1>4. PICK f : StepByStep(f, n, Nat, 0, step)
  <2> HIDE DEF step
  <2> QED BY <1>3, Recursion
<1>5. Is(f)
  <2>1. \A i \in 0 .. n : f[i] = IF i = 0 THEN 0 ELSE f[i - 1] + add(i)
    <3>1. \A i \in 1 .. n : f[i - 1] \in Nat /\ f[i] = step[i][f[i - 1]]
      BY <1>4 DEF StepByStep
    <3>2. \A i \in 1 .. n : f[i] = f[i - 1] + add(i)
      BY <3>1
    <3>3. f[0] = 0
      BY <1>4 DEF StepByStep
    <3> QED BY <3>2, <3>3
  <2>2. f \in [0 .. n -> Nat]
    BY <1>4 DEF StepByStep
  <2> QED BY ONLY <2>1, <2>2
<1>6. Is(sum)
  BY <1>5
<1> HIDE DEF sum
<1>7. sum[0] = 0 /\ \A i \in 1 .. n : sum[i] = sum[i - 1] + add(i)
  BY <1>6
<1>8. \A i \in 0 .. n : sum[i] \in Nat
  <2> DEFINE G == {i \in 0 .. n : sum[i] \in Nat}
  <2>1. 0 \in G /\ \A i \in 1 .. n : i - 1 \in G => i \in G
    BY <1>1, <1>7
  <2> HIDE DEF G
  <2>2. 0 .. n \subseteq G
    BY <2>1, UpTo
  <2> QED BY <2>2 DEF G
<1>9. sum \in [0 .. n -> Nat]
  BY <1>6, <1>8
<1>10. NumbersOf(sum, s, n, v)
  BY <1>1, <1>7, <1>9 DEF NumbersOf
<1> QED BY <1>2, <1>10

LEMMA NumberStep ==
  ASSUME NEW s, NEW n \in Nat, NEW v
  PROVE  /\ Number(s, 0, v) = 0
         /\ Number(s, n, v) \in Nat
         /\ Number(s, n + 1, v) = Number(s, n, v) + Power(n) * Bit(s[n], v)
<1>0. 0 \in Nat /\ n + 1 \in Nat /\ n <= n + 1 /\ n + 1 \in 1 .. (n + 1) /\ (n + 1) - 1 = n
  OBVIOUS
<1>1. PICK e : NumbersOf(e, s, 0, v) /\ Number(s, 0, v) = e[0]
  BY <1>0, NumberIs
<1>2. PICK f : NumbersOf(f, s, n, v) /\ Number(s, n, v) = f[n]
  BY NumberIs
<1>3. PICK g : NumbersOf(g, s, n + 1, v) /\ Number(s, n + 1, v) = g[n + 1]
  BY <1>0, NumberIs
<1>4. \A i \in 0 .. n : f[i] = g[i]
  <2> DEFINE G == {i \in 0 .. n : f[i] = g[i]}
  <2>1. 0 \in G
    BY <1>2, <1>3 DEF NumbersOf
  <2>2. ASSUME NEW k \in 1 .. n, k - 1 \in G
        PROVE  k \in G
    <3>1. k \in 1 .. (n + 1)
      OBVIOUS
    <3> QED BY <1>2, <1>3, <2>2, <3>1 DEF NumbersOf
  <2>3. 0 .. n \subseteq G
    <3> HIDE DEF G
    <3> QED BY <2>1, <2>2, UpTo
  <2> QED BY <2>3
<1>5. f[n] = g[n]
  BY <1>4
<1>6. g[n + 1] = g[(n + 1) - 1] + Power((n + 1) - 1) * Bit(s[(n + 1) - 1], v)
  BY <1>0, <1>3 DEF NumbersOf
<1>7. f[n] \in Nat /\ e[0] = 0
  BY <1>1, <1>2 DEF NumbersOf
<1> QED BY <1>0, <1>1, <1>2, <1>3, <1>5, <1>6, <1>7

LEMMA NumberBound ==
  ASSUME NEW s, NEW n \in Nat, NEW v
  PROVE  Number(s, n, v) \in Nat /\ Number(s, n, v) < Power(n)
<1> DEFINE G == {i \in 0 .. n : Number(s, i, v) < Power(i)}
<1>1. 0 \in G
  <2>1. Number(s, 0, v) = 0
    BY NumberStep
  <2> QED BY <2>1, PowerFacts
<1>2. ASSUME NEW k \in 1 .. n, k - 1 \in G
      PROVE  k \in G
  <2>1. k - 1 \in Nat /\ (k - 1) + 1 = k
    OBVIOUS
  <2>2. /\ Number(s, k - 1, v) \in Nat
        /\ Number(s, (k - 1) + 1, v) = Number(s, k - 1, v) + Power(k - 1) * Bit(s[k - 1], v)
    BY <2>1, NumberStep
  <2>3. Power(k - 1) \in Nat \ {0} /\ Power((k - 1) + 1) = 2 * Power(k - 1)
    BY <2>1, PowerFacts
  <2>4. Bit(s[k - 1], v) = 0 \/ Bit(s[k - 1], v) = 1
    BY BitType
  <2>5. Power(k - 1) * Bit(s[k - 1], v) = 0 \/ Power(k - 1) * Bit(s[k - 1], v) = Power(k - 1)
    BY <2>3, <2>4
  <2>6. Number(s, k - 1, v) < Power(k - 1)
    BY <1>2
  <2>7. Number(s, k, v) < Power(k)
    BY <2>1, <2>2, <2>3, <2>5, <2>6
  <2> QED BY <2>7
<1>3. 0 .. n \subseteq G
  <2> HIDE DEF G
  <2> QED BY <1>1, <1>2, UpTo
<1>4. Number(s, n, v) \in Nat
  BY NumberStep
<1>5. n \in G
  BY <1>3
<1> QED BY <1>4, <1>5

\* Literals that have the same bits have the same number, and the other way.
LEMMA NumberSame ==
  ASSUME NEW s, NEW t, NEW n \in Nat, NEW v
  PROVE  (\A i \in Bits(n) : Bit(s[i], v) = Bit(t[i], v)) <=> Number(s, n, v) = Number(t, n, v)
<1> DEFINE Same(k) == \A i \in Bits(k) : Bit(s[i], v) = Bit(t[i], v)
           Equal(k) == Number(s, k, v) = Number(t, k, v)
           G == {k \in 0 .. n : Same(k) <=> Equal(k)}
<1>1. 0 \in G
  <2>1. Bits(0) = {}
    BY DEF Bits
  <2>2. Number(s, 0, v) = 0 /\ Number(t, 0, v) = 0
    BY NumberStep
  <2> QED BY <2>1, <2>2
<1>2. ASSUME NEW k \in 1 .. n, k - 1 \in G
      PROVE  k \in G
  <2>1. k - 1 \in Nat /\ (k - 1) + 1 = k
    OBVIOUS
  <2> DEFINE a == Number(s, k - 1, v)
             b == Number(t, k - 1, v)
             p == Power(k - 1)
             x == Bit(s[k - 1], v)
             y == Bit(t[k - 1], v)
  <2>2. Number(s, (k - 1) + 1, v) = a + p * x /\ Number(t, (k - 1) + 1, v) = b + p * y
    BY <2>1, NumberStep
  <2>3. a \in Nat /\ b \in Nat /\ a < p /\ b < p /\ p \in Nat
    BY <2>1, NumberBound, PowerFacts
  <2>4. x \in {0, 1} /\ y \in {0, 1}
    BY BitType
  <2>5. a + p * x = b + p * y <=> a = b /\ x = y
    <3> HIDE DEF a, b, p, x, y
    <3>1. p * x \in {0, p} /\ p * y \in {0, p} /\ (x = y => p * x = p * y)
      BY <2>3, <2>4
    <3>2. x # y => (p * x = 0 /\ p * y = p) \/ (p * x = p /\ p * y = 0)
      BY <2>3, <2>4
    <3> QED BY <2>3, <3>1, <3>2
  <2>6. Same(k) <=> Same(k - 1) /\ x = y
    <3>1. Bits(k) = Bits(k - 1) \cup {k - 1}
      BY <2>1 DEF Bits
    <3> QED BY <3>1
  <2>7. Same(k - 1) <=> Equal(k - 1)
    BY <1>2
  <2>8. Same(k) <=> Equal(k)
    BY <2>1, <2>2, <2>5, <2>6, <2>7
  <2> QED BY <2>8
<1>3. 0 .. n \subseteq G
  <2> HIDE DEF G
  <2> QED BY <1>1, <1>2, UpTo
<1> QED BY <1>3
-----------------------------------------------------------------------------
(***************************************************************************)
(* Quotients and remainders.                                               *)
(***************************************************************************)
LEMMA DivMod ==
  ASSUME NEW a \in Int, NEW m \in Nat \ {0}
  PROVE  a = m * (a \div m) + (a % m) /\ a \div m \in Int /\ a % m \in Nat /\ a % m < m
OBVIOUS

LEMMA ModUnique ==
  ASSUME NEW a \in Int, NEW m \in Nat \ {0}, NEW q \in Int, NEW r \in Nat, r < m,
         a = m * q + r
  PROVE  a % m = r /\ a \div m = q
<1> DEFINE k == a \div m
           t == a % m
<1>1. a = m * k + t /\ k \in Int /\ t \in Nat /\ t < m
  BY DivMod
<1> HIDE DEF k, t
<1>2. m * (q - k) = t - r
  BY <1>1
<1>3. ASSUME q - k >= 1 PROVE FALSE
  <2>1. m * (q - k) >= m * 1
    BY <1>1, <1>3
  <2> QED BY <1>1, <1>2, <2>1
<1>4. ASSUME q - k <= -1 PROVE FALSE
  <2>1. m * (q - k) <= m * (-1)
    BY <1>1, <1>4
  <2> QED BY <1>1, <1>2, <2>1
<1>5. q = k
  BY <1>1, <1>3, <1>4
<1>6. r = t
  BY <1>1, <1>5
<1> QED BY <1>5, <1>6 DEF k, t

LEMMA ModSmall ==
  ASSUME NEW a \in Nat, NEW m \in Nat \ {0}, a < m
  PROVE  a % m = a
<1>1. a = m * 0 + a
  OBVIOUS
<1> QED BY <1>1, ModUnique

\* The low bits of a number modulo more bits are those of the number.
LEMMA ModMod ==
  ASSUME NEW a \in Int, NEW m \in Nat \ {0}, NEW k \in Nat \ {0}
  PROVE  (a % (m * k)) % m = a % m
<1> DEFINE mk == m * k
           r == a % mk
           q == a \div mk
           j == r \div m
           t == r % m
<1>1. mk \in Nat \ {0}
  OBVIOUS
<1>2. a = mk * q + r /\ q \in Int /\ r \in Nat
  <2> HIDE DEF mk
  <2> QED BY <1>1, DivMod
<1>3. r = m * j + t /\ j \in Int /\ t \in Nat /\ t < m
  <2> HIDE DEF r
  <2>1. r \in Int
    BY <1>2
  <2> QED BY <2>1, DivMod
<1>4. a = m * (k * q + j) + t /\ k * q + j \in Int
  <2> HIDE DEF r, q, j, t
  <2>1. mk * q = m * (k * q)
    BY <1>2
  <2> QED BY <1>2, <1>3, <2>1
<1>5. a % m = t
  <2> DEFINE c == k * q + j
  <2> HIDE DEF c, t
  <2>1. c \in Int /\ a = m * c + t
    BY <1>4 DEF c
  <2> QED BY <1>3, <2>1, ModUnique
<1> QED BY <1>5

\* One bit more of a number.
LEMMA ModDouble ==
  ASSUME NEW a \in Int, NEW p \in Nat \ {0}
  PROVE  a % (2 * p) = (a % p) + p * ((a \div p) % 2)
<1> DEFINE q == a \div p
           r == a % p
           b == q % 2
           c == q \div 2
<1>1. a = p * q + r /\ q \in Int /\ r \in Nat /\ r < p
  BY DivMod
<1> HIDE DEF q, r
<1>2. q = 2 * c + b /\ c \in Int /\ b \in {0, 1}
  BY <1>1
<1> HIDE DEF b, c
<1>3. p * b \in {0, p}
  BY <1>2
<1>4. p * q = (2 * p) * c + p * b
  BY <1>2
<1> DEFINE m == 2 * p
           t == r + p * b
<1>5. m \in Nat \ {0} /\ t \in Nat /\ t < m /\ a = m * c + t
  <2>1. t \in Nat /\ t < m
    BY <1>1, <1>3
  <2>2. a = m * c + t
    <3> DEFINE u == p * b
               e == m * c
    <3>1. u \in Int /\ e \in Int /\ p * q = e + u
      BY <1>2, <1>3, <1>4
    <3>2. t = r + u
      OBVIOUS
    <3> HIDE DEF u, e
    <3>3. a = e + t
      BY <1>1, <3>1, <3>2
    <3> QED BY <3>3 DEF e
  <2> QED BY <2>1, <2>2
<1>6. a % m = t
  <2> HIDE DEF m, t
  <2> QED BY <1>2, <1>5, ModUnique
<1> QED BY <1>6 DEF q, r, b
-----------------------------------------------------------------------------
(***************************************************************************)
(* What vectors denote.                                                    *)
(***************************************************************************)
LEMMA ConstBits ==
  ASSUME NEW v \in Valuation
  PROVE  Bit(Const0, v) = 0 /\ Bit(Const1, v) = 1 /\ Const0 # Const1
BY DEF Bit, Const0, Const1

\* The bits of a word make the word.
LEMMA WordNumber ==
  ASSUME NEW v \in Valuation, NEW w \in Int, NEW n \in Nat, NEW s,
         \A i \in Bits(n) : s[i] = BitLit(w, i)
  PROVE  Number(s, n, v) = w % Power(n)
<1> DEFINE G == {k \in 0 .. n : Number(s, k, v) = w % Power(k)}
<1>1. 0 \in G
  <2>1. Number(s, 0, v) = 0 /\ Power(0) = 1
    BY NumberStep, PowerFacts
  <2>2. w % 1 = 0
    OBVIOUS
  <2> QED BY <2>1, <2>2
<1>2. ASSUME NEW k \in 1 .. n, k - 1 \in G
      PROVE  k \in G
  <2>1. k - 1 \in Nat /\ (k - 1) + 1 = k /\ k - 1 \in Bits(n)
    BY DEF Bits
  <2>2. Number(s, (k - 1) + 1, v) = Number(s, k - 1, v) + Power(k - 1) * Bit(s[k - 1], v)
    BY <2>1, NumberStep
  <2>3. Power(k - 1) \in Nat \ {0} /\ Power((k - 1) + 1) = 2 * Power(k - 1)
    BY <2>1, PowerFacts
  <2>4. Bit(s[k - 1], v) = (w \div Power(k - 1)) % 2
    <3>1. s[k - 1] = IF (w \div Power(k - 1)) % 2 = 1 THEN Const1 ELSE Const0
      BY <2>1 DEF BitLit, Power
    <3>2. w \div Power(k - 1) \in Int
      BY <2>3, DivMod
    <3>3. (w \div Power(k - 1)) % 2 \in {0, 1}
      BY <3>2
    <3> QED BY <3>1, <3>3, ConstBits
  <2>5. w % (2 * Power(k - 1)) = (w % Power(k - 1)) + Power(k - 1) * ((w \div Power(k - 1)) % 2)
    BY <2>3, ModDouble
  <2>6. Number(s, k - 1, v) = w % Power(k - 1)
    BY <1>2
  <2>7. Number(s, k, v) = w % Power(k)
    BY <2>1, <2>2, <2>3, <2>4, <2>5, <2>6
  <2> QED BY <2>7
<1>3. 0 .. n \subseteq G
  <2> HIDE DEF G
  <2> QED BY <1>1, <1>2, UpTo
<1>4. n \in G
  BY <1>3
<1> QED BY <1>4

LEMMA SymbolicValue ==
  ASSUME NEW n \in Nat \ {0}, NEW s \in LitVec(n), NEW v
  PROVE  Value(Symbolic(n, s), v) = Number(s, n, v)
BY DEF Value, Number, Symbolic, Lits

LEMMA LitsNumber ==
  ASSUME NEW n, NEW x, Sized(x, n), NEW v \in Valuation
  PROVE  Value(x, v) = Number(Lits(x), n, v) /\ Value(x, v) \in Nat /\ Value(x, v) < Power(n)
<1>1. n \in Nat /\ x.size = n /\ x.isSymbolic \in BOOLEAN /\ (~x.isSymbolic => x.conWord \in Nat)
  BY SizedFacts
<1>2. CASE x.isSymbolic
  <2>1. Value(x, v) = Number(Lits(x), x.size, v)
    BY <1>2 DEF Value, Number
  <2> QED BY <1>1, <2>1, NumberBound
<1>3. CASE ~x.isSymbolic
  <2>1. Value(x, v) = x.conWord % Power(n)
    BY <1>1, <1>3 DEF Value, Power
  <2>2. \A i \in Bits(n) : Lits(x)[i] = BitLit(x.conWord, i)
    BY <1>1, <1>3 DEF Lits
  <2>3. x.conWord \in Int
    BY <1>1, <1>3
  <2>4. Number(Lits(x), n, v) = x.conWord % Power(n)
    BY <1>1, <2>2, <2>3, WordNumber
  <2> QED BY <1>1, <2>1, <2>4, NumberBound
<1> QED BY <1>2, <1>3

LEMMA ZextValue ==
  ASSUME NEW n, NEW x, Sized(x, n), ~x.isSymbolic, NEW v
  PROVE  Value(x, v) = Zext(x)
BY SizedFacts DEF Value, Zext, int_zextend

LEMMA ConcreteValue ==
  ASSUME NEW n \in Nat \ {0}, n <= WORD_BITS, NEW w \in Int, NEW v
  PROVE  Value(Concrete(n, w), v) = w % Power(n)
<1>1. Value(Concrete(n, w), v) = (w % Words) % Power(n)
  BY DEF Value, Concrete, Power
<1>2. n \in Nat /\ WORD_BITS - n \in Nat /\ n + (WORD_BITS - n) = WORD_BITS
  BY WordsType
<1>3. Power(n + (WORD_BITS - n)) = Power(n) * Power(WORD_BITS - n)
  BY <1>2, PowerFacts
<1>4. Power(n) \in Nat \ {0} /\ Power(WORD_BITS - n) \in Nat \ {0} /\ Power(WORD_BITS) = Words
  BY <1>2, PowerFacts
<1>5. (w % (Power(n) * Power(WORD_BITS - n))) % Power(n) = w % Power(n)
  BY <1>4, ModMod
<1>6. Words = Power(n) * Power(WORD_BITS - n)
  BY <1>2, <1>3, <1>4
<1> QED BY <1>1, <1>5, <1>6

\* The word of constant literals.
LEMMA ConNumber ==
  ASSUME NEW v \in Valuation, NEW n \in Nat, NEW s, AllConst(s, n)
  PROVE  ConWord(s, n) = Number(s, n, v)
<1>1. PICK word \in [0 .. n -> Nat] :
             /\ word[0] = 0
             /\ \A i \in 1 .. n :
                  word[i] = word[i - 1] + (IF s[i - 1] = Const1 THEN 2^(i - 1) ELSE 0)
             /\ ConWord(s, n) = word[n]
  BY ConWordIs
<1> DEFINE G == {k \in 0 .. n : word[k] = Number(s, k, v)}
<1>2. 0 \in G
  <2>1. Number(s, 0, v) = 0
    BY NumberStep
  <2> QED BY <1>1, <2>1
<1>3. ASSUME NEW k \in 1 .. n, k - 1 \in G
      PROVE  k \in G
  <2>1. k - 1 \in Nat /\ (k - 1) + 1 = k /\ k - 1 \in Bits(n)
    BY DEF Bits
  <2>2. Number(s, (k - 1) + 1, v) = Number(s, k - 1, v) + Power(k - 1) * Bit(s[k - 1], v)
    BY <2>1, NumberStep
  <2>3. Power(k - 1) \in Nat
    BY <2>1, PowerFacts
  <2>4. s[k - 1] = Const0 \/ s[k - 1] = Const1
    BY <2>1 DEF AllConst, IsConst
  <2>5. (IF s[k - 1] = Const1 THEN 2^(k - 1) ELSE 0) = Power(k - 1) * Bit(s[k - 1], v)
    <3>1. CASE s[k - 1] = Const0
      BY <2>3, <3>1, ConstBits
    <3>2. CASE s[k - 1] = Const1
      <4>1. (IF s[k - 1] = Const1 THEN 2^(k - 1) ELSE 0) = Power(k - 1)
        BY <3>2 DEF Power
      <4> QED BY <2>3, <3>2, <4>1, ConstBits
    <3> QED BY <2>4, <3>1, <3>2
  <2>6. word[k] = word[k - 1] + Power(k - 1) * Bit(s[k - 1], v)
    BY <1>1, <2>5
  <2>7. word[k] = Number(s, k, v)
    BY <1>3, <2>1, <2>2, <2>6
  <2> QED BY <2>7
<1>4. 0 .. n \subseteq G
  <2> HIDE DEF G
  <2> QED BY <1>2, <1>3, UpTo
<1>5. n \in G
  BY <1>4
<1> QED BY <1>1, <1>5

LEMMA ConWordValue ==
  ASSUME NEW v \in Valuation, NEW n \in Nat \ {0}, n <= WORD_BITS, NEW s, AllConst(s, n)
  PROVE  Value(Concrete(n, ConWord(s, n)), v) = Number(s, n, v)
<1>1. ConWord(s, n) = Number(s, n, v)
  BY ConNumber
<1>2. Number(s, n, v) \in Nat /\ Number(s, n, v) < Power(n) /\ Power(n) \in Nat \ {0}
  BY NumberBound, PowerFacts
<1>3. Number(s, n, v) \in Int
  BY <1>2
<1>4. Value(Concrete(n, Number(s, n, v)), v) = Number(s, n, v) % Power(n)
  BY <1>3, ConcreteValue
<1>5. Number(s, n, v) % Power(n) = Number(s, n, v)
  BY <1>2, ModSmall
<1> QED BY <1>1, <1>4, <1>5

LEMMA FoldedValue ==
  ASSUME NEW v \in Valuation, NEW n \in Nat \ {0}, NEW s \in LitVec(n)
  PROVE  Value(Folded(n, s), v) = Number(s, n, v)
BY ConWordValue, SymbolicValue DEF Folded
-----------------------------------------------------------------------------
(***************************************************************************)
(* Sums, differences and comparisons of literals are those of numbers.     *)
(***************************************************************************)
LEMMA FullAdder ==
  ASSUME NEW a \in Literal, NEW b \in Literal, NEW c \in Literal, NEW v \in Valuation
  PROVE  /\ Bit(HashXor(c, HashXor(a, b)), v) + 2 * Bit(HashMux(c, HashOr(a, b), HashAnd(a, b)), v)
              = Bit(a, v) + Bit(b, v) + Bit(c, v)
         /\ Bit(HashXor(HashMux(c, LitNot(a), a), b), v) + Bit(b, v) + Bit(c, v)
              = Bit(a, v) + 2 * Bit(HashMux(a, HashAnd(c, b), HashOr(c, b)), v)
<1>1. /\ v \in HashXor(c, HashXor(a, b)) <=> ((v \in c) # ((v \in a) # (v \in b)))
      /\ v \in HashMux(c, HashOr(a, b), HashAnd(a, b)) <=>
           IF v \in c THEN v \in a \/ v \in b ELSE v \in a /\ v \in b
      /\ v \in HashXor(HashMux(c, LitNot(a), a), b) <=> ((v \in c) # ((v \in a) # (v \in b)))
      /\ v \in HashMux(a, HashAnd(c, b), HashOr(c, b)) <=>
           IF v \in a THEN v \in c /\ v \in b ELSE v \in c \/ v \in b
  BY DEF HashXor, HashMux, HashOr, HashAnd, LitNot
<1> DEFINE sum   == HashXor(c, HashXor(a, b))
           carry == HashMux(c, HashOr(a, b), HashAnd(a, b))
           diff  == HashXor(HashMux(c, LitNot(a), a), b)
           borrow == HashMux(a, HashAnd(c, b), HashOr(c, b))
<1> HIDE DEF sum, carry, diff, borrow
<1>2. /\ v \in sum <=> ((v \in c) # ((v \in a) # (v \in b)))
      /\ v \in carry <=> IF v \in c THEN v \in a \/ v \in b ELSE v \in a /\ v \in b
      /\ v \in diff <=> ((v \in c) # ((v \in a) # (v \in b)))
      /\ v \in borrow <=> IF v \in a THEN v \in c /\ v \in b ELSE v \in c \/ v \in b
  BY <1>1 DEF sum, carry, diff, borrow
<1>3. /\ Bit(sum, v) + 2 * Bit(carry, v) = Bit(a, v) + Bit(b, v) + Bit(c, v)
      /\ Bit(diff, v) + Bit(b, v) + Bit(c, v) = Bit(a, v) + 2 * Bit(borrow, v)
  <2>1. CASE v \in a /\ v \in b /\ v \in c
    BY <1>2, <2>1 DEF Bit
  <2>2. CASE v \in a /\ v \in b /\ v \notin c
    BY <1>2, <2>2 DEF Bit
  <2>3. CASE v \in a /\ v \notin b /\ v \in c
    BY <1>2, <2>3 DEF Bit
  <2>4. CASE v \in a /\ v \notin b /\ v \notin c
    BY <1>2, <2>4 DEF Bit
  <2>5. CASE v \notin a /\ v \in b /\ v \in c
    BY <1>2, <2>5 DEF Bit
  <2>6. CASE v \notin a /\ v \in b /\ v \notin c
    BY <1>2, <2>6 DEF Bit
  <2>7. CASE v \notin a /\ v \notin b /\ v \in c
    BY <1>2, <2>7 DEF Bit
  <2>8. CASE v \notin a /\ v \notin b /\ v \notin c
    BY <1>2, <2>8 DEF Bit
  <2> QED BY <2>1, <2>2, <2>3, <2>4, <2>5, <2>6, <2>7, <2>8
<1> QED BY <1>3 DEF sum, carry, diff, borrow

LEMMA SumNumber ==
  ASSUME NEW n \in Nat, NEW X, NEW Y, HasBits(X, n), HasBits(Y, n), NEW v \in Valuation
  PROVE  /\ Number(SumBits(X, Y, n), n, v) + Power(n) * Bit(Carry(X, Y, n)[n], v)
              = Number(X, n, v) + Number(Y, n, v)
         /\ Number(DifferenceBits(X, Y, n), n, v) + Number(Y, n, v)
              = Number(X, n, v) + Power(n) * Bit(Borrow(X, Y, n)[n], v)
<1> DEFINE S == SumBits(X, Y, n)
           C == Carry(X, Y, n)
           D == DifferenceBits(X, Y, n)
           B == Borrow(X, Y, n)
           Sum(k) == Number(S, k, v) + Power(k) * Bit(C[k], v) = Number(X, k, v) + Number(Y, k, v)
           Difference(k) == Number(D, k, v) + Number(Y, k, v) = Number(X, k, v) + Power(k) * Bit(B[k], v)
           G == {k \in 0 .. n : Sum(k) /\ Difference(k)}
<1>1. /\ C \in [0 .. n -> Literal] /\ C[0] = Const0
      /\ \A i \in 1 .. n : C[i] = CarryStep(X, Y, i, C[i - 1])
      /\ B \in [0 .. n -> Literal] /\ B[0] = Const0
      /\ \A i \in 1 .. n : B[i] = BorrowStep(X, Y, i, B[i - 1])
  BY CarryIs, BorrowIs
<1>2. \A i \in Bits(n) : /\ S[i] = HashXor(C[i], HashXor(X[i], Y[i]))
                         /\ D[i] = HashXor(HashMux(B[i], LitNot(X[i]), X[i]), Y[i])
  BY DEF SumBits, DifferenceBits
<1> HIDE DEF S, C, D, B
<1>3. 0 \in G
  <2>1. /\ Number(S, 0, v) = 0 /\ Number(D, 0, v) = 0 /\ Number(X, 0, v) = 0 /\ Number(Y, 0, v) = 0
        /\ Power(0) = 1
    BY NumberStep, PowerFacts
  <2>2. Bit(C[0], v) = 0 /\ Bit(B[0], v) = 0
    BY <1>1, ConstBits
  <2> QED BY <2>1, <2>2
<1>4. ASSUME NEW k \in 1 .. n, k - 1 \in G
      PROVE  k \in G
  <2> DEFINE j == k - 1
  <2>1. j \in Nat /\ j + 1 = k /\ j \in Bits(n) /\ j \in 0 .. n
    BY DEF Bits
  <2>2. Sum(j) /\ Difference(j)
    BY <1>4
  <2>3. /\ X[j] \in Literal /\ Y[j] \in Literal /\ C[j] \in Literal /\ B[j] \in Literal
        /\ C[k] = HashMux(C[j], HashOr(X[j], Y[j]), HashAnd(X[j], Y[j]))
        /\ B[k] = HashMux(X[j], HashAnd(B[j], Y[j]), HashOr(B[j], Y[j]))
    BY <1>1, <2>1 DEF HasBits, CarryStep, BorrowStep
  <2> DEFINE x == Bit(X[j], v)
             y == Bit(Y[j], v)
             c == Bit(C[j], v)
             b == Bit(B[j], v)
             s == Bit(S[j], v)
             d == Bit(D[j], v)
             p == Power(j)
  <2>4. /\ s + 2 * Bit(C[k], v) = x + y + c
        /\ d + y + b = x + 2 * Bit(B[k], v)
    <3>1. /\ Bit(HashXor(C[j], HashXor(X[j], Y[j])), v)
               + 2 * Bit(HashMux(C[j], HashOr(X[j], Y[j]), HashAnd(X[j], Y[j])), v)
               = Bit(X[j], v) + Bit(Y[j], v) + Bit(C[j], v)
      BY <2>3, FullAdder
    <3>2. Bit(HashXor(HashMux(B[j], LitNot(X[j]), X[j]), Y[j]), v) + Bit(Y[j], v) + Bit(B[j], v)
              = Bit(X[j], v) + 2 * Bit(HashMux(X[j], HashAnd(B[j], Y[j]), HashOr(B[j], Y[j])), v)
      BY <2>3, FullAdder
    <3> QED BY <1>2, <2>1, <2>3, <3>1, <3>2
  <2>5. /\ Number(S, j + 1, v) = Number(S, j, v) + p * s
        /\ Number(D, j + 1, v) = Number(D, j, v) + p * d
        /\ Number(X, j + 1, v) = Number(X, j, v) + p * x
        /\ Number(Y, j + 1, v) = Number(Y, j, v) + p * y
        /\ Number(S, j, v) \in Nat /\ Number(D, j, v) \in Nat
        /\ Number(X, j, v) \in Nat /\ Number(Y, j, v) \in Nat
    BY <2>1, NumberStep
  <2>6. Power(j + 1) = 2 * p /\ p \in Nat
    BY <2>1, PowerFacts
  <2>7. /\ x \in Nat /\ y \in Nat /\ c \in Nat /\ b \in Nat /\ s \in Nat /\ d \in Nat
        /\ Bit(C[k], v) \in Nat /\ Bit(B[k], v) \in Nat
    BY BitType
  <2> DEFINE c1 == Bit(C[k], v)
             b1 == Bit(B[k], v)
  <2>8. Number(S, j, v) + p * c = Number(X, j, v) + Number(Y, j, v)
        /\ Number(D, j, v) + Number(Y, j, v) = Number(X, j, v) + p * b
    BY <2>2
  <2>9. p * s + (2 * p) * c1 = p * x + p * y + p * c /\ p * d + p * y + p * b = p * x + (2 * p) * b1
    <3> HIDE DEF x, y, c, b, s, d, p, c1, b1
    <3>1. s + 2 * c1 = x + y + c /\ d + y + b = x + 2 * b1
      BY <2>4 DEF c1, b1
    <3>2. p * (s + 2 * c1) = p * (x + y + c) /\ p * (d + y + b) = p * (x + 2 * b1)
      BY <3>1
    <3>3. c1 \in Nat /\ b1 \in Nat
      BY <2>7 DEF c1, b1
    <3>4. p * (s + 2 * c1) = p * s + (2 * p) * c1 /\ p * (x + y + c) = p * x + p * y + p * c
      BY <2>6, <2>7, <3>3
    <3>5. p * (d + y + b) = p * d + p * y + p * b /\ p * (x + 2 * b1) = p * x + (2 * p) * b1
      BY <2>6, <2>7, <3>3
    <3> QED BY <3>2, <3>4, <3>5
  <2>10. /\ p * s \in Nat /\ p * d \in Nat /\ p * x \in Nat /\ p * y \in Nat /\ p * c \in Nat
         /\ p * b \in Nat /\ (2 * p) * c1 \in Nat /\ (2 * p) * b1 \in Nat
    <3> HIDE DEF x, y, c, b, s, d, p
    <3> QED BY <2>6, <2>7
  <2>11. Sum(j + 1) /\ Difference(j + 1)
    <3>1. C[j + 1] = C[k] /\ B[j + 1] = B[k]
      BY <2>1
    <3>2. Power(j + 1) * Bit(C[j + 1], v) = (2 * p) * c1 /\ Power(j + 1) * Bit(B[j + 1], v) = (2 * p) * b1
      BY <2>6, <3>1
    <3> HIDE DEF x, y, c, b, s, d, p, c1, b1, j
    <3> QED BY <2>5, <2>8, <2>9, <2>10, <3>2
  <2> QED BY <2>1, <2>11
<1>5. 0 .. n \subseteq G
  <2> HIDE DEF G
  <2> QED BY <1>3, <1>4, UpTo
<1>6. n \in G
  BY <1>5
<1> QED BY <1>6 DEF S, C, D, B

\* What is known of the two numbers after bit i, when start does not hold.
ComparedFrom(c, X, Y, n, i, v) ==
  /\ v \notin c.known => /\ v \notin c.ret
                         /\ Number(X, n, v) - Number(X, i, v) = Number(Y, n, v) - Number(Y, i, v)
  /\ v \in c.known /\ v \in c.ret =>
       Number(X, n, v) - Number(X, i, v) >= Number(Y, n, v) - Number(Y, i, v) + Power(i)
  /\ v \in c.known /\ v \notin c.ret =>
       Number(Y, n, v) - Number(Y, i, v) >= Number(X, n, v) - Number(X, i, v) + Power(i)

LEMMA GreaterStepNumber ==
  ASSUME NEW n \in Nat, NEW X, NEW Y, NEW i \in Nat, X[i] \in Literal, Y[i] \in Literal,
         NEW c \in Comparison, NEW v \in Valuation, ComparedFrom(c, X, Y, n, i + 1, v)
  PROVE  ComparedFrom(GreaterStep(X, Y, i, c), X, Y, n, i, v)
<1> DEFINE d == GreaterStep(X, Y, i, c)
           x == Power(i) * Bit(X[i], v)
           y == Power(i) * Bit(Y[i], v)
           p == Power(i)
           a == Number(X, i, v)
           b == Number(Y, i, v)
           A == Number(X, n, v)
           B == Number(Y, n, v)
<1>1. /\ v \in d.known <=> v \in c.known \/ (v \in X[i] /\ v \notin Y[i]) \/ (v \in Y[i] /\ v \notin X[i])
      /\ v \in d.ret <=> IF v \in c.known THEN v \in c.ret ELSE v \in X[i] /\ v \notin Y[i]
  BY DEF GreaterStep, HashOr, HashXor, HashMux, HashAnd, LitNot, Literal, Comparison
<1>2. /\ Number(X, i + 1, v) = a + x /\ Number(Y, i + 1, v) = b + y
      /\ a \in Nat /\ b \in Nat /\ A \in Nat /\ B \in Nat
  BY NumberStep
<1>3. p \in Nat \ {0} /\ Power(i + 1) = 2 * p
  BY PowerFacts
<1>4. (v \in X[i] => x = p) /\ (v \notin X[i] => x = 0) /\ (v \in Y[i] => y = p) /\ (v \notin Y[i] => y = 0)
  BY <1>3 DEF Bit
<1>5. /\ v \notin c.known => v \notin c.ret /\ A - (a + x) = B - (b + y)
      /\ v \in c.known /\ v \in c.ret => A - (a + x) >= B - (b + y) + 2 * p
      /\ v \in c.known /\ v \notin c.ret => B - (b + y) >= A - (a + x) + 2 * p
  BY <1>2, <1>3 DEF ComparedFrom
<1> HIDE DEF d, x, y, p, a, b, A, B
<1>6. /\ v \notin d.known => v \notin d.ret /\ A - a = B - b
      /\ v \in d.known /\ v \in d.ret => A - a >= B - b + p
      /\ v \in d.known /\ v \notin d.ret => B - b >= A - a + p
  BY <1>1, <1>2, <1>3, <1>4, <1>5
<1> QED BY <1>6 DEF ComparedFrom, d, p, a, b, A, B

LEMMA GreaterNumber ==
  ASSUME NEW n \in Nat, NEW X, NEW Y, HasBits(X, n), HasBits(Y, n), NEW start \in Literal,
         NEW v \in Valuation
  PROVE  v \in Greater(X, Y, n, start) <=> v \in start \/ Number(X, n, v) > Number(Y, n, v)
<1>1. PICK from \in [0 .. n -> Comparison] :
             /\ from[n] = [known |-> start, ret |-> start]
             /\ \A i \in Bits(n) : from[i] = GreaterStep(X, Y, i, from[i + 1])
             /\ Greater(X, Y, n, start) = from[0].ret
  BY GreaterIs
<1> DEFINE Known(i) == v \in from[i].known /\ v \in from[i].ret
           Right(i) == IF v \in start THEN Known(i) ELSE ComparedFrom(from[i], X, Y, n, i, v)
           G == {k \in 0 .. n : Right(n - k)}
<1>2. 0 \in G
  <2>0. n - 0 = n
    OBVIOUS
  <2>1. Number(X, n, v) \in Nat /\ Number(Y, n, v) \in Nat
    BY NumberStep
  <2>2. from[n].known = start /\ from[n].ret = start
    BY <1>1
  <2>3. Right(n)
    BY <2>1, <2>2 DEF ComparedFrom
  <2> QED BY <2>0, <2>3
<1>3. ASSUME NEW k \in 1 .. n, k - 1 \in G
      PROVE  k \in G
  <2> DEFINE i == n - k
  <2>1. i \in Nat /\ i \in Bits(n) /\ n - (k - 1) = i + 1 /\ i + 1 \in 0 .. n
    BY DEF Bits
  <2>2. Right(i + 1)
    BY <1>3, <2>1
  <2>3. from[i] = GreaterStep(X, Y, i, from[i + 1]) /\ from[i + 1] \in Comparison
    BY <1>1, <2>1
  <2>4. X[i] \in Literal /\ Y[i] \in Literal
    BY <2>1 DEF HasBits
  <2>5. CASE v \in start
    <3>1. Known(i + 1)
      BY <2>2, <2>5
    <3>2. Known(i)
      BY <2>3, <3>1 DEF GreaterStep, HashOr, HashMux
    <3> QED BY <2>1, <2>5, <3>2
  <2>6. CASE v \notin start
    <3>1. ComparedFrom(from[i + 1], X, Y, n, i + 1, v)
      BY <2>2, <2>6
    <3>2. ComparedFrom(GreaterStep(X, Y, i, from[i + 1]), X, Y, n, i, v)
      <4> HIDE DEF i
      <4> QED BY <2>1, <2>3, <2>4, <3>1, GreaterStepNumber
    <3> QED BY <2>1, <2>3, <2>6, <3>2
  <2> QED BY <2>5, <2>6
<1>4. n \in G
  <2> HIDE DEF G
  <2>1. 0 .. n \subseteq G
    BY <1>2, <1>3, UpTo
  <2> QED BY <2>1
<1>5. Right(0)
  BY <1>4
<1>6. /\ Number(X, 0, v) = 0 /\ Number(Y, 0, v) = 0 /\ Power(0) = 1
      /\ Number(X, n, v) \in Nat /\ Number(Y, n, v) \in Nat
  BY NumberStep, PowerFacts
<1> QED BY <1>1, <1>5, <1>6 DEF ComparedFrom

LEMMA ModSum ==
  ASSUME NEW a \in Int, NEW b \in Int, NEW m \in Nat \ {0}
  PROVE  /\ (a + b) % m = ((a % m) + (b % m)) % m
         /\ (a + b) % m = (a + (b % m)) % m
         /\ (a - b) % m = ((a % m) - (b % m)) % m
<1> DEFINE p == a % m
           q == b % m
           i == a \div m
           j == b \div m
<1>1. a = m * i + p /\ b = m * j + q /\ i \in Int /\ j \in Int /\ p \in Nat /\ q \in Nat
  BY DivMod
<1> HIDE DEF p, q, i, j
<1>2. ASSUME NEW c \in Int, NEW k \in Int
      PROVE  (m * k + c) % m = c % m
  <2> DEFINE r == c % m
             l == c \div m
  <2>1. c = m * l + r /\ l \in Int /\ r \in Nat /\ r < m
    BY DivMod
  <2> HIDE DEF r, l
  <2>2. k + l \in Int /\ m * k + c = m * (k + l) + r /\ m * k + c \in Int
    <3>1. m * (k + l) = m * k + m * l
      BY <2>1
    <3>2. m * k \in Int /\ m * l \in Int
      BY <2>1
    <3> QED BY <2>1, <3>1, <3>2
  <2>3. (m * k + c) % m = r
    BY <2>1, <2>2, ModUnique
  <2> QED BY <2>3 DEF r
<1>3. m * (i + j) = m * i + m * j /\ m * (i - j) = m * i - m * j /\ m * i \in Int /\ m * j \in Int
  BY <1>1
<1>4. a + b = m * (i + j) + (p + q) /\ a + b = m * j + (a + q) /\ a - b = m * (i - j) + (p - q)
  BY <1>1, <1>3
<1>5. i + j \in Int /\ i - j \in Int /\ p + q \in Int /\ a + q \in Int /\ p - q \in Int
  BY <1>1
<1>6. (m * (i + j) + (p + q)) % m = (p + q) % m
  BY <1>2, <1>5
<1>7. (m * j + (a + q)) % m = (a + q) % m
  BY <1>1, <1>2, <1>5
<1>8. (m * (i - j) + (p - q)) % m = (p - q) % m
  BY <1>2, <1>5
<1> QED BY <1>4, <1>6, <1>7, <1>8 DEF p, q

LEMMA OperandValues ==
  ASSUME NEW n, NEW x, NEW y, Sized(x, n), Sized(y, n), NEW v \in Valuation
  PROVE  /\ n \in Nat \ {0} /\ x.size = n /\ y.size = n /\ Power(n) \in Nat \ {0}
         /\ HasBits(Lits(x), n) /\ HasBits(Lits(y), n)
         /\ Value(x, v) = Number(Lits(x), n, v) /\ Value(y, v) = Number(Lits(y), n, v)
         /\ Value(x, v) \in Nat /\ Value(x, v) < Power(n)
         /\ Value(y, v) \in Nat /\ Value(y, v) < Power(n)
         /\ ~x.isSymbolic => n <= WORD_BITS /\ Zext(x) = Value(x, v)
         /\ ~y.isSymbolic => n <= WORD_BITS /\ Zext(y) = Value(y, v)
<1>1. /\ n \in Nat \ {0} /\ x.size = n /\ y.size = n
      /\ Lits(x) \in LitVec(n) /\ Lits(y) \in LitVec(n)
      /\ ~x.isSymbolic => n <= WORD_BITS
      /\ ~y.isSymbolic => n <= WORD_BITS
  BY SizedFacts
<1>2. Power(n) \in Nat \ {0}
  BY <1>1, PowerFacts
<1> QED BY <1>1, <1>2, LitVecHasBits, LitsNumber, ZextValue

\* vec_add is addition modulo 2^n: the ripple-carry adder of the literals, the
\* sum of two words, and the word made of a sum whose bits are all constant.
THEOREM AddValue ==
  ASSUME NEW n, NEW x, NEW y, Sized(x, n), Sized(y, n), NEW v \in Valuation
  PROVE  Value(vec_add(x, y), v) = ADD(Value(x, v), Value(y, v), n)
<1> DEFINE a == Value(x, v)
           b == Value(y, v)
           p == Power(n)
<1>1. /\ n \in Nat \ {0} /\ x.size = n /\ HasBits(Lits(x), n) /\ HasBits(Lits(y), n)
      /\ a = Number(Lits(x), n, v) /\ b = Number(Lits(y), n, v)
      /\ a \in Nat /\ b \in Nat /\ p \in Nat \ {0}
      /\ ~x.isSymbolic => n <= WORD_BITS /\ Zext(x) = a
      /\ ~y.isSymbolic => Zext(y) = b
  BY OperandValues
<1>2. ADD(a, b, n) = (a + b) % p
  BY DEF ADD, Wrap, Power
<1>3. CASE ~x.isSymbolic /\ ~y.isSymbolic
  <2>1. vec_add(x, y) = Concrete(n, a + b)
    BY <1>1, <1>3 DEF vec_add, Arithmetic
  <2>2. a + b \in Int
    BY <1>1
  <2> HIDE DEF a, b
  <2>3. Value(Concrete(n, a + b), v) = (a + b) % Power(n)
    BY <1>1, <1>3, <2>2, ConcreteValue
  <2> QED BY <1>2, <2>1, <2>3 DEF a, b
<1>4. CASE x.isSymbolic \/ y.isSymbolic
  <2> DEFINE s == SumBits(Lits(x), Lits(y), n)
             r == Number(s, n, v)
             c == Bit(Carry(Lits(x), Lits(y), n)[n], v)
  <2>1. vec_add(x, y) = Folded(n, s)
    BY <1>1, <1>4 DEF vec_add, Arithmetic
  <2>2. s \in LitVec(n)
    BY <1>1, SumType
  <2>3. Value(Folded(n, s), v) = r
    <3> HIDE DEF s
    <3> QED BY <1>1, <2>2, FoldedValue
  <2>4. r + p * c = a + b
    BY <1>1, SumNumber
  <2>5. r \in Nat /\ r < p
    BY <1>1, NumberBound
  <2>6. c \in Int
    BY BitType
  <2> HIDE DEF a, b, r, c, p
  <2>7. a + b \in Int /\ a + b = p * c + r
    <3>1. p * c \in Int
      BY <1>1, <2>6
    <3> QED BY <1>1, <2>4, <2>5, <3>1
  <2>8. (a + b) % p = r
    BY <1>1, <2>5, <2>6, <2>7, ModUnique
  <2> QED BY <1>2, <2>1, <2>3, <2>8 DEF a, b
<1> QED BY <1>3, <1>4

\* vec_sub is subtraction modulo 2^n, of literals by the borrow and of words
\* in the wider arithmetic of a machine word.
THEOREM SubValue ==
  ASSUME NEW n, NEW x, NEW y, Sized(x, n), Sized(y, n), NEW v \in Valuation
  PROVE  Value(vec_sub(x, y), v) = SUB(Value(x, v), Value(y, v), n)
<1> DEFINE a == Value(x, v)
           b == Value(y, v)
           p == Power(n)
<1>1. /\ n \in Nat \ {0} /\ x.size = n /\ HasBits(Lits(x), n) /\ HasBits(Lits(y), n)
      /\ a = Number(Lits(x), n, v) /\ b = Number(Lits(y), n, v)
      /\ a \in Nat /\ b \in Nat /\ p \in Nat \ {0}
      /\ ~x.isSymbolic => n <= WORD_BITS /\ Zext(x) = a
      /\ ~y.isSymbolic => Zext(y) = b
  BY OperandValues
<1>2. SUB(a, b, n) = (a - b) % p
  BY DEF SUB, Wrap, Power
<1>3. CASE ~x.isSymbolic /\ ~y.isSymbolic
  <2>1. vec_sub(x, y) = Concrete(n, a - b)
    BY <1>1, <1>3 DEF vec_sub, Arithmetic
  <2>2. a - b \in Int
    BY <1>1
  <2> HIDE DEF a, b
  <2>3. Value(Concrete(n, a - b), v) = (a - b) % Power(n)
    BY <1>1, <1>3, <2>2, ConcreteValue
  <2> QED BY <1>2, <2>1, <2>3 DEF a, b
<1>4. CASE x.isSymbolic \/ y.isSymbolic
  <2> DEFINE s == DifferenceBits(Lits(x), Lits(y), n)
             r == Number(s, n, v)
             c == Bit(Borrow(Lits(x), Lits(y), n)[n], v)
  <2>1. vec_sub(x, y) = Folded(n, s)
    BY <1>1, <1>4 DEF vec_sub, Arithmetic
  <2>2. s \in LitVec(n)
    BY <1>1, SumType
  <2>3. Value(Folded(n, s), v) = r
    <3> HIDE DEF s
    <3> QED BY <1>1, <2>2, FoldedValue
  <2>4. r + b = a + p * c
    BY <1>1, SumNumber
  <2>5. r \in Nat /\ r < p
    BY <1>1, NumberBound
  <2>6. c \in Int
    BY BitType
  <2> HIDE DEF a, b, r, c, p
  <2>7. a - b \in Int /\ a - b = p * (-c) + r
    <3>1. p * c \in Int /\ p * (-c) = -(p * c)
      BY <1>1, <2>6
    <3> QED BY <1>1, <2>4, <2>5, <3>1
  <2>8. (a - b) % p = r
    <3>1. -c \in Int
      BY <2>6
    <3> QED BY <1>1, <2>5, <2>7, <3>1, ModUnique
  <2> QED BY <1>2, <2>1, <2>3, <2>8 DEF a, b
<1> QED BY <1>3, <1>4

\* The literal vec_equal returns holds where the operands are the same number.
THEOREM EqualValue ==
  ASSUME NEW n, NEW x, NEW y, Sized(x, n), Sized(y, n), NEW v \in Valuation
  PROVE  v \in vec_equal(x, y) <=> Value(x, v) = Value(y, v)
<1>1. /\ n \in Nat \ {0} /\ x.size = n
      /\ Value(x, v) = Number(Lits(x), n, v) /\ Value(y, v) = Number(Lits(y), n, v)
      /\ ~x.isSymbolic => Zext(x) = Value(x, v)
      /\ ~y.isSymbolic => Zext(y) = Value(y, v)
  BY OperandValues
<1>2. CASE ~x.isSymbolic /\ ~y.isSymbolic
  BY <1>1, <1>2 DEF vec_equal, Const0, Const1
<1>3. CASE x.isSymbolic \/ y.isSymbolic
  <2>1. v \in vec_equal(x, y) <=> \A i \in Bits(n) : v \in Lits(x)[i] <=> v \in Lits(y)[i]
    BY <1>1, <1>3 DEF vec_equal
  <2>2. \A i \in Bits(n) : (v \in Lits(x)[i] <=> v \in Lits(y)[i])
                             <=> Bit(Lits(x)[i], v) = Bit(Lits(y)[i], v)
    BY DEF Bit
  <2>3. (\A i \in Bits(n) : Bit(Lits(x)[i], v) = Bit(Lits(y)[i], v))
          <=> Number(Lits(x), n, v) = Number(Lits(y), n, v)
    BY <1>1, NumberSame
  <2> QED BY <1>1, <2>1, <2>2, <2>3
<1> QED BY <1>2, <1>3

\* The literal vec_greaterthan returns, found from the top bit down, holds
\* where the first operand is the greater number.
THEOREM GreaterValue ==
  ASSUME NEW n, NEW x, NEW y, Sized(x, n), Sized(y, n), NEW v \in Valuation
  PROVE  v \in vec_greaterthan(x, y) <=> Value(x, v) > Value(y, v)
<1>1. /\ n \in Nat \ {0} /\ x.size = n /\ HasBits(Lits(x), n) /\ HasBits(Lits(y), n)
      /\ Value(x, v) = Number(Lits(x), n, v) /\ Value(y, v) = Number(Lits(y), n, v)
      /\ ~x.isSymbolic => Zext(x) = Value(x, v)
      /\ ~y.isSymbolic => Zext(y) = Value(y, v)
  BY OperandValues
<1>2. CASE ~x.isSymbolic /\ ~y.isSymbolic
  BY <1>1, <1>2 DEF vec_greaterthan, Const0, Const1
<1>3. CASE x.isSymbolic \/ y.isSymbolic
  <2>1. vec_greaterthan(x, y) = Greater(Lits(x), Lits(y), n, Const0)
    BY <1>1, <1>3 DEF vec_greaterthan
  <2>2. Const0 \in Literal /\ v \notin Const0
    BY LiteralType DEF Const0
  <2>3. v \in Greater(Lits(x), Lits(y), n, Const0)
          <=> v \in Const0 \/ Number(Lits(x), n, v) > Number(Lits(y), n, v)
    BY <1>1, <2>2, GreaterNumber
  <2> QED BY <1>1, <2>1, <2>2, <2>3
<1> QED BY <1>2, <1>3

\* The literal vec_carry returns holds where the sum needs one more bit: also
\* for words, where the C code has to see a machine word wrap.
THEOREM CarryValue ==
  ASSUME NEW n, NEW x, NEW y, Sized(x, n), Sized(y, n), NEW v \in Valuation
  PROVE  v \in vec_carry(x, y) <=> Value(x, v) + Value(y, v) >= Power(n)
<1> DEFINE a == Value(x, v)
           b == Value(y, v)
           p == Power(n)
<1>1. /\ n \in Nat \ {0} /\ x.size = n /\ y.size = n /\ HasBits(Lits(x), n) /\ HasBits(Lits(y), n)
      /\ a = Number(Lits(x), n, v) /\ b = Number(Lits(y), n, v)
      /\ a \in Nat /\ b \in Nat /\ p \in Nat \ {0} /\ a < p /\ b < p
      /\ ~x.isSymbolic => Zext(x) = a
      /\ ~y.isSymbolic => Zext(y) = b
  BY OperandValues
<1>2. CASE ~x.isSymbolic /\ ~y.isSymbolic
  <2> DEFINE s == (x.conWord + y.conWord) % p
  <2>1. /\ vec_carry(x, y) = IF s < Zext(x) \/ s < Zext(y) THEN Const1 ELSE Const0
        /\ Zext(x) = x.conWord % p /\ Zext(y) = y.conWord % p
    BY <1>1, <1>2 DEF vec_carry, Zext, int_zextend, Power
  <2>2. x.conWord \in Int /\ y.conWord \in Int
    BY <1>2, SizedFacts
  <2>3. s = (a + b) % p
    <3>1. s = ((x.conWord % p) + (y.conWord % p)) % p
      <4> HIDE DEF p
      <4> QED BY <1>1, <2>2, ModSum
    <3> QED BY <1>1, <1>2, <2>1, <3>1
  <2> HIDE DEF a, b, s, p
  <2>4. CASE a + b >= p
    <3>1. s = a + b - p
      <4> DEFINE r == a + b - p
                 one == 1
      <4>1. a + b \in Int /\ a + b = p * one + r /\ r \in Nat /\ r < p /\ one \in Int
        BY <1>1, <2>4
      <4> HIDE DEF r, one
      <4>2. (a + b) % p = r
        BY <1>1, <4>1, ModUnique
      <4> QED BY <2>3, <4>2 DEF r
    <3>2. s < a /\ vec_carry(x, y) = Const1
      BY <1>1, <1>2, <2>1, <3>1
    <3> QED BY <2>4, <3>2 DEF a, b, p, Const1
  <2>5. CASE ~(a + b >= p)
    <3>1. s = a + b
      <4>1. a + b \in Nat /\ a + b < p
        BY <1>1, <2>5
      <4> QED BY <1>1, <2>3, <4>1, ModSmall
    <3>2. vec_carry(x, y) = Const0
      BY <1>1, <1>2, <2>1, <3>1
    <3> QED BY <2>5, <3>2 DEF a, b, p, Const0
  <2> QED BY <2>4, <2>5
<1>3. CASE x.isSymbolic \/ y.isSymbolic
  <2> DEFINE r == Number(SumBits(Lits(x), Lits(y), n), n, v)
             l == Carry(Lits(x), Lits(y), n)[n]
             c == Bit(l, v)
  <2>1. vec_carry(x, y) = l
    BY <1>1, <1>3 DEF vec_carry
  <2>2. r + p * c = a + b
    BY <1>1, SumNumber
  <2>3. r \in Nat /\ r < p
    BY <1>1, NumberBound
  <2>4. (v \in l => c = 1) /\ (v \notin l => c = 0)
    BY DEF Bit
  <2> HIDE DEF a, b, r, c, p, l
  <2>5. v \in l <=> a + b >= p
    <3>1. CASE v \in l
      BY <1>1, <2>2, <2>3, <2>4, <3>1
    <3>2. CASE v \notin l
      BY <1>1, <2>2, <2>3, <2>4, <3>2
    <3> QED BY <3>1, <3>2
  <2> QED BY <2>1, <2>5 DEF a, b, p
<1> QED BY <1>2, <1>3

\* vec_ite is the first operand where the condition holds and the second
\* elsewhere: also where it returns one of the two, or a word that both are.
THEOREM IteValue ==
  ASSUME NEW n, NEW x, NEW y, Sized(x, n), Sized(y, n), NEW c \in Literal, NEW v \in Valuation
  PROVE  Value(vec_ite(c, x, y), v) = IF v \in c THEN Value(x, v) ELSE Value(y, v)
<1> DEFINE X == Lits(x)
           Y == Lits(y)
           s == [i \in Bits(n) |-> HashMux(c, X[i], Y[i])]
<1>1. /\ n \in Nat \ {0} /\ x.size = n /\ y.size = n /\ HasBits(X, n) /\ HasBits(Y, n)
      /\ Value(x, v) = Number(X, n, v) /\ Value(y, v) = Number(Y, n, v)
      /\ ~x.isSymbolic => Zext(x) = Value(x, v)
      /\ ~y.isSymbolic => Zext(y) = Value(y, v)
  BY OperandValues
<1>2. CASE c = Const0
  <2>1. c # Const1
    BY <1>2, ConstBits
  <2>2. vec_ite(c, x, y) = y
    BY <1>2, <2>1 DEF vec_ite, IsConst
  <2> QED BY <1>2, <2>2 DEF Const0
<1>3. CASE c = Const1
  <2>1. c # Const0
    BY <1>3, ConstBits
  <2> QED BY <1>3, <2>1 DEF vec_ite, Const1
<1>4. CASE ~IsConst(c) /\ ~x.isSymbolic /\ ~y.isSymbolic /\ x.conWord = y.conWord
  <2>1. vec_ite(c, x, y) = x
    BY <1>4 DEF vec_ite, IsConst
  <2>2. Value(x, v) = Value(y, v)
    BY <1>1, <1>4 DEF Zext
  <2> QED BY <2>1, <2>2
<1>5. CASE ~IsConst(c) /\ ~(~x.isSymbolic /\ ~y.isSymbolic /\ x.conWord = y.conWord)
  <2>1. vec_ite(c, x, y) = Symbolic(n, s)
    BY <1>1, <1>5 DEF vec_ite, IsConst
  <2>2. \A i \in Bits(n) : X[i] \in Literal /\ Y[i] \in Literal
    BY <1>1 DEF HasBits
  <2>3. s \in LitVec(n)
    BY <2>2, LiteralType DEF LitVec
  <2>4. Value(Symbolic(n, s), v) = Number(s, n, v)
    <3> HIDE DEF s
    <3> QED BY <1>1, <2>3, SymbolicValue
  <2>5. \A i \in Bits(n) : Bit(s[i], v) = IF v \in c THEN Bit(X[i], v) ELSE Bit(Y[i], v)
    BY DEF HashMux, Bit
  <2> HIDE DEF s, X, Y
  <2>6. CASE v \in c
    <3>1. \A i \in Bits(n) : Bit(s[i], v) = Bit(X[i], v)
      BY <2>5, <2>6
    <3>2. Number(s, n, v) = Number(X, n, v)
      BY <1>1, <3>1, NumberSame
    <3> QED BY <1>1, <2>1, <2>4, <2>6, <3>2
  <2>7. CASE v \notin c
    <3>1. \A i \in Bits(n) : Bit(s[i], v) = Bit(Y[i], v)
      BY <2>5, <2>7
    <3>2. Number(s, n, v) = Number(Y, n, v)
      BY <1>1, <3>1, NumberSame
    <3> QED BY <1>1, <2>1, <2>4, <2>7, <3>2
  <2> QED BY <2>6, <2>7
<1> QED BY <1>2, <1>3, <1>4, <1>5 DEF IsConst

LEMMA NumberZero ==
  ASSUME NEW n \in Nat, NEW s, NEW v, \A i \in Bits(n) : Bit(s[i], v) = 0
  PROVE  Number(s, n, v) = 0
<1> DEFINE G == {k \in 0 .. n : Number(s, k, v) = 0}
<1>1. 0 \in G
  <2>1. Number(s, 0, v) = 0
    BY NumberStep
  <2> QED BY <2>1
<1>2. ASSUME NEW k \in 1 .. n, k - 1 \in G
      PROVE  k \in G
  <2>1. k - 1 \in Nat /\ (k - 1) + 1 = k /\ k - 1 \in Bits(n)
    BY DEF Bits
  <2>0. Number(s, (k - 1) + 1, v) = Number(s, k - 1, v) + Power(k - 1) * Bit(s[k - 1], v)
    BY <2>1, NumberStep
  <2>2. Power(k - 1) \in Nat
    BY <2>1, PowerFacts
  <2>3. Power(k - 1) * Bit(s[k - 1], v) = 0
    BY <2>1, <2>2
  <2> QED BY <1>2, <2>0, <2>1, <2>3
<1>3. 0 .. n \subseteq G
  <2> HIDE DEF G
  <2> QED BY <1>1, <1>2, UpTo
<1> QED BY <1>3

\* The n literals t are those of s from number m on.
Above(t, s, m, n, v) == \A i \in Bits(n) : Bit(t[i], v) = Bit(s[m + i], v)

\* The number of m literals and of the n above them.
LEMMA NumberSplit ==
  ASSUME NEW m \in Nat, NEW n \in Nat, NEW s, NEW t, NEW v, Above(t, s, m, n, v)
  PROVE  Number(s, m + n, v) = Number(s, m, v) + Power(m) * Number(t, n, v)
<1> DEFINE p == Power(m)
           G == {k \in 0 .. n : Number(s, m + k, v) = Number(s, m, v) + p * Number(t, k, v)}
<1>1. 0 \in G
  <2>0. m + 0 = m /\ 0 \in Nat
    OBVIOUS
  <2>1. Number(t, 0, v) = 0 /\ Number(s, m, v) \in Nat /\ p \in Nat
    <3>1. Number(t, 0, v) = 0
      BY <2>0, NumberStep
    <3>2. Number(s, m, v) \in Nat
      BY NumberStep
    <3> QED BY <3>1, <3>2, PowerFacts
  <2>2. Number(s, m + 0, v) = Number(s, m, v)
    BY <2>0
  <2> HIDE DEF p
  <2>3. Number(s, m, v) = Number(s, m, v) + p * Number(t, 0, v)
    BY <2>1
  <2> QED BY <2>2, <2>3
<1>2. ASSUME NEW k \in 1 .. n, k - 1 \in G
      PROVE  k \in G
  <2> DEFINE j == k - 1
  <2>1. /\ j \in Nat /\ j + 1 = k /\ j \in Bits(n) /\ m + j \in Nat /\ (m + j) + 1 = m + k
    BY DEF Bits
  <2>2. /\ Number(s, (m + j) + 1, v) = Number(s, m + j, v) + Power(m + j) * Bit(s[m + j], v)
        /\ Number(t, j + 1, v) = Number(t, j, v) + Power(j) * Bit(t[j], v)
        /\ Number(t, j, v) \in Nat /\ Number(s, m, v) \in Nat
    BY <2>1, NumberStep
  <2>3. Power(m + j) = p * Power(j) /\ p \in Nat /\ Power(j) \in Nat
    BY <2>1, PowerFacts
  <2>4. Number(s, m + j, v) = Number(s, m, v) + p * Number(t, j, v)
    BY <1>2
  <2> DEFINE b == Bit(t[j], v)
             q == Power(j)
             a == Number(t, j, v)
             c == Number(s, m, v)
  <2>5. Bit(s[m + j], v) = b /\ b \in Nat
    BY <2>1, BitType DEF Above
  <2> HIDE DEF p, b, q, a, c
  <2>6. p * (a + q * b) = p * a + (p * q) * b
    BY <2>2, <2>3, <2>5 DEF a, q
  <2>7. p * a \in Nat /\ (p * q) * b \in Nat
    BY <2>2, <2>3, <2>5 DEF a, q
  <2>8. Number(s, m + k, v) = (c + p * a) + (p * q) * b
    BY <2>1, <2>2, <2>3, <2>4, <2>5 DEF a, q, c
  <2>9. Number(s, m + k, v) = c + p * (a + q * b)
    BY <2>2, <2>6, <2>7, <2>8 DEF c
  <2>10. Number(t, k, v) = a + q * b
    BY <2>1, <2>2 DEF a, q, b
  <2> QED BY <2>9, <2>10 DEF c
<1>3. 0 .. n \subseteq G
  <2> HIDE DEF G
  <2> QED BY <1>1, <1>2, UpTo
<1> QED BY <1>3

\* A flag is 1 where its literal holds.
LEMMA FlagValue ==
  ASSUME NEW l \in Literal, NEW v \in Valuation
  PROVE  Value(SymbolicFlag(l), v) = Bit(l, v) /\ Value(Flag(l), v) = Bit(l, v)
<1> DEFINE n == BITS_IN_BYTE
           s == [i \in Bits(n) |-> IF i = 0 THEN l ELSE Const0]
<1>1. n \in Nat \ {0} /\ n <= WORD_BITS
  BY WordsType
<1>2. s \in LitVec(n) /\ SymbolicFlag(l) = Symbolic(n, s)
  BY LiteralType DEF LitVec, SymbolicFlag
<1>3. 0 \in Bits(n) /\ s[0] = l /\ \A i \in Bits(n) : i # 0 => s[i] = Const0
  BY <1>1 DEF Bits
<1>4. Value(SymbolicFlag(l), v) = Number(s, n, v)
  <2> HIDE DEF n, s
  <2> QED BY <1>1, <1>2, SymbolicValue
<1> HIDE DEF n, s
<1>5. Number(s, n, v) = Bit(l, v)
  <2> DEFINE t == [i \in Bits(n - 1) |-> s[1 + i]]
  <2>1. n - 1 \in Nat /\ 1 + (n - 1) = n /\ 0 + 1 = 1 /\ 1 \in Nat /\ 0 \in Nat
    BY <1>1
  <2>2. Above(t, s, 1, n - 1, v)
    BY DEF Above
  <2>3. \A i \in Bits(n - 1) : 1 + i \in Bits(n) /\ 1 + i # 0
    BY <1>1 DEF Bits
  <2>4. \A i \in Bits(n - 1) : Bit(t[i], v) = 0
    BY <1>3, <2>3, ConstBits
  <2> HIDE DEF t
  <2>5. Number(t, n - 1, v) = 0
    BY <2>1, <2>4, NumberZero
  <2>6. Number(s, 1 + (n - 1), v) = Number(s, 1, v) + Power(1) * Number(t, n - 1, v)
    BY <2>1, <2>2, NumberSplit
  <2>7. /\ Number(s, 0 + 1, v) = Number(s, 0, v) + Power(0) * Bit(s[0], v) /\ Number(s, 0, v) = 0
        /\ Number(s, 1, v) \in Nat
    BY <2>1, NumberStep
  <2>8. Power(0) = 1 /\ Power(1) \in Nat
    BY PowerFacts
  <2>9. Number(s, 1, v) = Bit(l, v)
    BY <1>3, <2>1, <2>7, <2>8, BitType
  <2> QED BY <2>1, <2>5, <2>6, <2>7, <2>8, <2>9
<1>6. CASE IsConst(l)
  <2>1. Flag(l) = Concrete(n, IF l = Const1 THEN 1 ELSE 0)
    BY <1>6 DEF Flag, n
  <2>2. (IF l = Const1 THEN 1 ELSE 0) = Bit(l, v)
    BY <1>6, ConstBits DEF IsConst
  <2>3. Value(Concrete(n, Bit(l, v)), v) = Bit(l, v) % Power(n)
    <3>1. Bit(l, v) \in Int
      BY BitType
    <3> QED BY <1>1, <3>1, ConcreteValue
  <2>4. Bit(l, v) < Power(n) /\ Power(n) \in Nat \ {0}
    BY <1>1, <1>5, NumberBound, PowerFacts
  <2>5. Bit(l, v) % Power(n) = Bit(l, v)
    BY <2>4, BitType, ModSmall
  <2> QED BY <1>4, <1>5, <2>1, <2>2, <2>3, <2>5
<1>7. CASE ~IsConst(l)
  BY <1>4, <1>5, <1>7 DEF Flag
<1> QED BY <1>4, <1>5, <1>6, <1>7

LEMMA DivDiv ==
  ASSUME NEW a \in Int, NEW m \in Nat \ {0}, NEW k \in Nat \ {0}
  PROVE  (a \div m) \div k = a \div (m * k) /\ m * k \in Nat \ {0}
<1> DEFINE q == a \div m
           r == a % m
           c == q \div k
           d == q % k
<1>1. a = m * q + r /\ q \in Int /\ r \in Nat /\ r < m
  BY DivMod
<1> HIDE DEF q, r
<1>2. q = k * c + d /\ c \in Int /\ d \in Nat /\ d < k
  BY <1>1, DivMod
<1> HIDE DEF c, d
<1> DEFINE e == m * k
           f == m * d + r
<1>3. e \in Nat \ {0}
  OBVIOUS
<1>4. m * (k * c + d) = (m * k) * c + m * d /\ m * d \in Nat /\ (m * k) * c \in Int
  BY <1>2
<1>5. a = e * c + f /\ f \in Nat
  BY <1>1, <1>2, <1>4
<1>6. f < e
  <2>1. m * (d + 1) <= m * k
    <3>1. d + 1 <= k
      BY <1>2
    <3>2. m * (k - (d + 1)) \in Nat
      <4>1. k - (d + 1) \in Nat
        BY <1>2, <3>1
      <4> QED BY <4>1
    <3>3. m * (k - (d + 1)) = m * k - m * (d + 1)
      BY <1>2
    <3>4. m * k \in Nat /\ m * (d + 1) \in Nat
      BY <1>2
    <3> QED BY <3>2, <3>3, <3>4
  <2>2. m * (d + 1) = m * d + m
    BY <1>2
  <2> QED BY <1>1, <1>4, <2>1, <2>2
<1> HIDE DEF e, f
<1>7. a \div e = c
  BY <1>2, <1>3, <1>5, <1>6, ModUnique
<1> QED BY <1>3, <1>7 DEF c, e, q

LEMMA NumberPadded ==
  ASSUME NEW n \in Nat, NEW m \in Nat, n <= m, NEW s, NEW t, NEW v,
         \A i \in Bits(m) : Bit(t[i], v) = IF i < n THEN Bit(s[i], v) ELSE 0
  PROVE  Number(t, m, v) = Number(s, n, v)
<1> DEFINE k == m - n
           u == [i \in Bits(k) |-> t[n + i]]
<1>1. k \in Nat /\ n + k = m
  OBVIOUS
<1>2. Above(u, t, n, k, v)
  BY DEF Above
<1>3. \A i \in Bits(k) : Bit(u[i], v) = 0
  <2>1. \A i \in Bits(k) : n + i \in Bits(m) /\ ~(n + i < n)
    BY DEF Bits
  <2> QED BY <2>1
<1> HIDE DEF k, u
<1>4. Number(u, k, v) = 0
  BY <1>1, <1>3, NumberZero
<1>5. Number(t, n + k, v) = Number(t, n, v) + Power(n) * Number(u, k, v)
  BY <1>1, <1>2, NumberSplit
<1>6. \A i \in Bits(n) : Bit(t[i], v) = Bit(s[i], v)
  <2>1. \A i \in Bits(n) : i \in Bits(m) /\ i < n
    BY DEF Bits
  <2> QED BY <2>1
<1>7. Number(t, n, v) = Number(s, n, v) /\ Number(t, n, v) \in Nat
  <2>1. Number(t, n, v) \in Nat
    BY NumberBound
  <2> QED BY <1>6, <2>1, NumberSame
<1>8. Power(n) \in Nat
  BY PowerFacts
<1> QED BY <1>1, <1>4, <1>5, <1>7, <1>8

\* m literals from number k on, with zeros above the n there are.
LEMMA PieceNumber ==
  ASSUME NEW n \in Nat, NEW k \in Nat, NEW m \in Nat, NEW s, NEW t, NEW v,
         \A i \in Bits(m) : Bit(t[i], v) = IF k + i < n THEN Bit(s[k + i], v) ELSE 0
  PROVE  Number(t, m, v) = (Number(s, n, v) \div Power(k)) % Power(m)
<1> DEFINE N == n + (k + m)
           w == [i \in Bits(N) |-> IF i < n THEN s[i] ELSE Const0]
           u == [i \in Bits(n + m) |-> w[k + i]]
           z == [i \in Bits(n) |-> u[m + i]]
<1>0. Bit(Const0, v) = 0
  BY DEF Bit, Const0
<1>1. N \in Nat /\ n <= N /\ n + m \in Nat /\ k + (n + m) = N /\ m + n = n + m
  OBVIOUS
<1>2. \A i \in Bits(N) : Bit(w[i], v) = IF i < n THEN Bit(s[i], v) ELSE 0
  BY <1>0
<1>3. Above(u, w, k, n + m, v)
  BY DEF Above
<1>4. Above(z, u, m, n, v)
  BY DEF Above
<1>5. \A i \in Bits(m) : Bit(t[i], v) = Bit(u[i], v)
  <2>1. \A i \in Bits(m) : i \in Bits(n + m) /\ k + i \in Bits(N)
    BY DEF Bits
  <2> QED BY <1>2, <1>3, <2>1 DEF Above
<1> HIDE DEF N, w, u, z
<1>6. Number(w, N, v) = Number(s, n, v)
  BY <1>1, <1>2, NumberPadded
<1>7. Number(w, k + (n + m), v) = Number(w, k, v) + Power(k) * Number(u, n + m, v)
  BY <1>1, <1>3, NumberSplit
<1>8. Number(u, m + n, v) = Number(u, m, v) + Power(m) * Number(z, n, v)
  BY <1>4, NumberSplit
<1>9. Number(t, m, v) = Number(u, m, v)
  BY <1>5, NumberSame
<1> DEFINE a == Number(s, n, v)
           b == Number(u, n + m, v)
           l == Number(w, k, v)
           h == Number(z, n, v)
           r == Number(t, m, v)
           p == Power(k)
           q == Power(m)
<1>10. /\ a \in Nat /\ b \in Nat /\ l \in Nat /\ l < p /\ h \in Nat /\ r \in Nat /\ r < q
       /\ p \in Nat \ {0} /\ q \in Nat \ {0}
  <2>1. a \in Nat
    BY NumberBound
  <2>2. b \in Nat
    BY <1>1, NumberBound
  <2>3. l \in Nat /\ l < p
    BY NumberBound
  <2>4. h \in Nat
    BY NumberBound
  <2>5. r \in Nat /\ r < q
    BY NumberBound
  <2> QED BY <2>1, <2>2, <2>3, <2>4, <2>5, PowerFacts
<1>11. a = p * b + l /\ b = q * h + r
  <2>1. p * b \in Nat /\ q * h \in Nat
    <3> HIDE DEF p, b, q, h
    <3> QED BY <1>10
  <2>2. a = l + p * b
    BY <1>1, <1>6, <1>7
  <2>3. b = r + q * h
    BY <1>1, <1>8, <1>9
  <2> QED BY <1>10, <2>1, <2>2, <2>3
<1> HIDE DEF a, b, l, h, r, p, q
<1>12. a \div p = b
  BY <1>10, <1>11, ModUnique
<1>13. b % q = r
  BY <1>10, <1>11, ModUnique
<1> QED BY <1>12, <1>13 DEF a, r, p, q

\* m literals, of which those of s are the upper ones, from number k on.
LEMMA LeftNumber ==
  ASSUME NEW n \in Nat, NEW k \in Nat, NEW m \in Nat, m <= n + k, NEW s, NEW t, NEW v,
         \A i \in Bits(m) : Bit(t[i], v) = IF k <= i THEN Bit(s[i - k], v) ELSE 0
  PROVE  Number(t, m, v) = (Number(s, n, v) * Power(k)) % Power(m)
<1> DEFINE a == Number(s, n, v)
           p == Power(k)
<1>1. a \in Nat /\ p \in Nat \ {0} /\ Power(m) \in Nat \ {0} /\ a * p \in Nat
  <2>1. a \in Nat
    BY NumberBound
  <2>2. p \in Nat \ {0} /\ Power(m) \in Nat \ {0}
    BY PowerFacts
  <2>3. a * p \in Nat
    <3> HIDE DEF a, p
    <3> QED BY <2>1, <2>2
  <2> QED BY <2>1, <2>2, <2>3
<1>2. CASE m <= k
  <2>1. \A i \in Bits(m) : Bit(t[i], v) = 0
    <3>1. \A i \in Bits(m) : ~(k <= i)
      BY <1>2 DEF Bits
    <3> QED BY <3>1
  <2>2. Number(t, m, v) = 0
    BY <2>1, NumberZero
  <2>3. k - m \in Nat /\ m + (k - m) = k
    BY <1>2
  <2> DEFINE q == Power(m)
             e == Power(k - m)
             c == a * e
             zero == 0
  <2>4. p = q * e /\ e \in Nat
    <3>1. Power(m + (k - m)) = Power(m) * Power(k - m)
      BY <2>3, PowerFacts
    <3> QED BY <2>3, <3>1, PowerFacts
  <2>5. q \in Nat \ {0}
    BY <1>1
  <2> HIDE DEF a, p, q, e
  <2>6. a * (q * e) = q * (a * e) /\ a * e \in Nat
    BY <1>1, <2>4, <2>5
  <2>7. a * p = q * c + zero /\ c \in Int /\ zero \in Nat /\ zero < q /\ a * p \in Int
    <3>1. q * (a * e) \in Nat
      BY <2>5, <2>6
    <3> QED BY <1>1, <2>4, <2>5, <2>6, <3>1
  <2> DEFINE ap == a * p
  <2> HIDE DEF c, zero, ap
  <2>8. ap = q * c + zero /\ ap \in Int
    BY <2>7 DEF ap
  <2>9. ap % q = zero
    BY <2>5, <2>7, <2>8, ModUnique
  <2> QED BY <2>2, <2>9 DEF ap, zero, a, p, q
<1>3. CASE k < m
  <2> DEFINE j == m - k
             u == [i \in Bits(j) |-> t[k + i]]
             h == n - j
             z == [i \in Bits(h) |-> s[j + i]]
  <2>1. j \in Nat /\ k + j = m /\ h \in Nat /\ j + h = n
    BY <1>3
  <2>2. Above(u, t, k, j, v) /\ \A i \in Bits(j) : Bit(u[i], v) = Bit(s[i], v)
    <3>1. \A i \in Bits(j) : k + i \in Bits(m) /\ k <= k + i /\ (k + i) - k = i
      BY <1>3 DEF Bits
    <3> QED BY <3>1 DEF Above
  <2>3. Above(z, s, j, h, v)
    BY DEF Above
  <2>4. \A i \in Bits(k) : Bit(t[i], v) = 0
    <3>1. \A i \in Bits(k) : i \in Bits(m) /\ ~(k <= i)
      BY <1>3 DEF Bits
    <3> QED BY <3>1
  <2> HIDE DEF j, u, h, z
  <2>5. Number(t, k + j, v) = Number(t, k, v) + Power(k) * Number(u, j, v)
    BY <2>1, <2>2, NumberSplit
  <2>6. Number(t, k, v) = 0
    BY <2>4, NumberZero
  <2>7. Number(u, j, v) = Number(s, j, v)
    BY <2>1, <2>2, NumberSame
  <2>8. Number(s, j + h, v) = Number(s, j, v) + Power(j) * Number(z, h, v)
    BY <2>1, <2>3, NumberSplit
  <2>9. Power(k + j) = Power(k) * Power(j) /\ Power(j) \in Nat \ {0}
    BY <2>1, PowerFacts
  <2> DEFINE q == Power(m)
             g == Power(j)
             b == Number(s, j, v)
             c == Number(z, h, v)
             r == Number(t, m, v)
  <2>10. b \in Nat /\ c \in Nat /\ r \in Nat /\ r < q /\ q \in Nat \ {0} /\ g \in Nat \ {0}
    <3>1. b \in Nat
      BY <2>1, NumberBound
    <3>2. c \in Nat
      BY <2>1, NumberBound
    <3>3. r \in Nat /\ r < q
      BY NumberBound
    <3> QED BY <1>1, <2>9, <3>1, <3>2, <3>3
  <2>11. q = p * g /\ a = b + g * c
    BY <2>1, <2>8, <2>9
  <2>12. r = p * b
    <3>1. r = 0 + p * b
      BY <2>1, <2>5, <2>6, <2>7
    <3>2. p * b \in Nat
      <4> HIDE DEF p, b
      <4> QED BY <1>1, <2>10
    <3> QED BY <3>1, <3>2
  <2> HIDE DEF a, p, q, g, b, c, r
  <2> DEFINE ap == a * p
  <2>13. ap = q * c + r /\ ap \in Int
    <3>1. (b + g * c) * p = (p * g) * c + p * b
      BY <1>1, <2>10
    <3> QED BY <1>1, <2>11, <2>12, <3>1
  <2> HIDE DEF ap
  <2>14. ap % q = r
    BY <2>10, <2>13, ModUnique
  <2> QED BY <2>14 DEF ap, a, p, q, r
<1> QED BY <1>2, <1>3

LEMMA InvertNumber ==
  ASSUME NEW n \in Nat, NEW s, NEW t, NEW v,
         \A i \in Bits(n) : Bit(t[i], v) = 1 - Bit(s[i], v)
  PROVE  Number(t, n, v) = Power(n) - 1 - Number(s, n, v)
<1> DEFINE G == {k \in 0 .. n : Number(t, k, v) = Power(k) - 1 - Number(s, k, v)}
<1>1. 0 \in G
  <2>1. Number(t, 0, v) = 0 /\ Number(s, 0, v) = 0 /\ Power(0) = 1
    BY NumberStep, PowerFacts
  <2> QED BY <2>1
<1>2. ASSUME NEW k \in 1 .. n, k - 1 \in G
      PROVE  k \in G
  <2> DEFINE j == k - 1
             p == Power(j)
             a == Bit(s[j], v)
             b == Bit(t[j], v)
  <2>1. j \in Nat /\ j + 1 = k /\ j \in Bits(n)
    BY DEF Bits
  <2>2. Number(t, j + 1, v) = Number(t, j, v) + p * b
    BY <2>1, NumberStep
  <2>3. Number(s, j + 1, v) = Number(s, j, v) + p * a
    BY <2>1, NumberStep
  <2>4. p \in Nat /\ Power(j + 1) = 2 * p
    BY <2>1, PowerFacts
  <2>5. Number(s, j, v) \in Nat
    BY <2>1, NumberStep
  <2>6. Number(t, j, v) = p - 1 - Number(s, j, v)
    BY <1>2
  <2>7. (a = 0 /\ b = 1) \/ (a = 1 /\ b = 0)
    BY <2>1, BitType
  <2> HIDE DEF p, a, b
  <2>8. (p * a = 0 /\ p * b = p) \/ (p * a = p /\ p * b = 0)
    BY <2>4, <2>7
  <2>9. Number(t, j + 1, v) = Power(j + 1) - 1 - Number(s, j + 1, v)
    BY <2>2, <2>3, <2>4, <2>5, <2>6, <2>8
  <2> QED BY <2>1, <2>9
<1>3. 0 .. n \subseteq G
  <2> HIDE DEF G
  <2> QED BY <1>1, <1>2, UpTo
<1> QED BY <1>3

\* A bit is inverted when one below it is set.
NegatedBits(X, n) == [i \in Bits(n) |-> HashMux(UNION {X[k] : k \in Bits(i)}, LitNot(X[i]), X[i])]

LEMMA NegateNumber ==
  ASSUME NEW n \in Nat, NEW X, HasBits(X, n), NEW v \in Valuation
  PROVE  Number(NegatedBits(X, n), n, v) =
           IF Number(X, n, v) = 0 THEN 0 ELSE Power(n) - Number(X, n, v)
<1> DEFINE s == NegatedBits(X, n)
           Zeros(k) == \A i \in Bits(k) : v \notin X[i]
           Right(k) == IF Zeros(k) THEN Number(X, k, v) = 0 /\ Number(s, k, v) = 0
                       ELSE Number(X, k, v) > 0 /\ Number(s, k, v) = Power(k) - Number(X, k, v)
           G == {k \in 0 .. n : Right(k)}
<1>1. \A i \in Bits(n) : Bit(s[i], v) = IF Zeros(i) THEN Bit(X[i], v) ELSE 1 - Bit(X[i], v)
  <2> TAKE i \in Bits(n)
  <2>1. s[i] = HashMux(UNION {X[k] : k \in Bits(i)}, LitNot(X[i]), X[i])
    BY DEF NegatedBits
  <2>2. v \in UNION {X[k] : k \in Bits(i)} <=> ~Zeros(i)
    OBVIOUS
  <2> QED BY <2>1, <2>2 DEF HashMux, LitNot, Bit
<1> HIDE DEF s
<1>2. 0 \in G
  <2>1. Number(X, 0, v) = 0 /\ Number(s, 0, v) = 0
    BY NumberStep
  <2>2. Zeros(0)
    BY DEF Bits
  <2> QED BY <2>1, <2>2
<1>3. ASSUME NEW k \in 1 .. n, k - 1 \in G
      PROVE  k \in G
  <2> DEFINE j == k - 1
             p == Power(j)
             a == Bit(X[j], v)
             b == Bit(s[j], v)
  <2>1. j \in Nat /\ j + 1 = k /\ j \in Bits(n) /\ j \in 0 .. n
    BY DEF Bits
  <2>2. Number(s, j + 1, v) = Number(s, j, v) + p * b
    BY <2>1, NumberStep
  <2>3. Number(X, j + 1, v) = Number(X, j, v) + p * a
    BY <2>1, NumberStep
  <2>4. p \in Nat \ {0} /\ Power(j + 1) = 2 * p
    BY <2>1, PowerFacts
  <2>5. Number(X, j, v) \in Nat /\ Number(X, j, v) < p
    BY <2>1, NumberBound
  <2>6. Right(j)
    BY <1>3
  <2>7. /\ b = IF Zeros(j) THEN a ELSE 1 - a
        /\ (a = 1 /\ v \in X[j]) \/ (a = 0 /\ v \notin X[j])
    BY <1>1, <2>1 DEF Bit
  <2>8. Zeros(j + 1) <=> Zeros(j) /\ v \notin X[j]
    <3>1. \A i : i \in Bits(j + 1) <=> i \in Bits(j) \/ i = j
      BY <2>1 DEF Bits
    <3> QED BY <3>1
  <2> HIDE DEF p, a, b, j, Zeros
  <2>9. (a = 0 => p * a = 0) /\ (a = 1 => p * a = p) /\ (b = 0 => p * b = 0) /\ (b = 1 => p * b = p)
    BY <2>4
  <2>10. Right(j + 1)
    <3>1. CASE Zeros(j)
      BY <2>2, <2>3, <2>4, <2>5, <2>6, <2>7, <2>8, <2>9, <3>1
    <3>2. CASE ~Zeros(j)
      BY <2>2, <2>3, <2>4, <2>5, <2>6, <2>7, <2>8, <2>9, <3>2 DEF p
    <3> QED BY <3>1, <3>2
  <2> QED BY <2>1, <2>10
<1>4. 0 .. n \subseteq G
  <2> HIDE DEF G
  <2> QED BY <1>2, <1>3, UpTo
<1>5. Right(n)
  BY <1>4
<1> QED BY <1>5 DEF s

LEMMA WordsMultiple ==
  ASSUME NEW n \in Nat, n <= WORD_BITS
  PROVE  \E k \in Nat \ {0} : Words = Power(n) * k /\ k = Power(WORD_BITS - n)
<1>1. WORD_BITS - n \in Nat /\ n + (WORD_BITS - n) = WORD_BITS
  BY WordsType
<1>2. Power(n + (WORD_BITS - n)) = Power(n) * Power(WORD_BITS - n) /\ Power(WORD_BITS) = Words
  BY <1>1, PowerFacts
<1>3. Power(WORD_BITS - n) \in Nat \ {0}
  BY <1>1, PowerFacts
<1> QED BY <1>1, <1>2, <1>3

LEMMA PowerMultiple ==
  ASSUME NEW n \in Nat, NEW m \in Nat, n <= m
  PROVE  \E k \in Nat \ {0} : Power(m) = Power(n) * k /\ k = Power(m - n)
<1>1. m - n \in Nat /\ n + (m - n) = m
  OBVIOUS
<1>2. Power(n + (m - n)) = Power(n) * Power(m - n) /\ Power(m - n) \in Nat \ {0}
  BY <1>1, PowerFacts
<1> QED BY <1>1, <1>2

LEMMA ModShift ==
  ASSUME NEW a \in Int, NEW m \in Nat \ {0}, NEW k \in Int
  PROVE  (a + m * k) % m = a % m
<1> DEFINE q == a \div m
           r == a % m
           b == a + m * k
           c == q + k
<1>1. a = m * q + r /\ q \in Int /\ r \in Nat /\ r < m
  BY DivMod
<1> HIDE DEF q, r
<1>2. m * (q + k) = m * q + m * k /\ m * q \in Int /\ m * k \in Int
  BY <1>1
<1>3. b = m * c + r /\ b \in Int /\ c \in Int
  BY <1>1, <1>2
<1> HIDE DEF b, c
<1>4. b % m = r
  BY <1>1, <1>3, ModUnique
<1> QED BY <1>4 DEF b, r

\* Extending a word leaves what it is modulo 2^n.
LEMMA SextMod ==
  ASSUME NEW n \in Nat \ {0}, NEW m \in Nat, n <= m, m <= WORD_BITS, NEW w \in Nat
  PROVE  int_sextend(w, n, m) % Power(n) = w % Power(n)
<1> DEFINE p == Power(n)
           q == Power(m)
           u == IF BitLit(w, n - 1) = Const1 THEN (w % p) + Words - p ELSE w
<1>1. CASE n = WORD_BITS
  BY <1>1 DEF int_sextend
<1>2. CASE n # WORD_BITS
  <2>1. int_sextend(w, n, m) = u % q
    BY <1>2 DEF int_sextend, int_zextend, Power
  <2>2. p \in Nat \ {0} /\ q \in Nat \ {0} /\ w % p \in Int /\ Words \in Int
    <3>1. p \in Nat \ {0} /\ q \in Nat \ {0}
      BY PowerFacts
    <3>2. w \in Int
      OBVIOUS
    <3>3. w % p \in Nat
      <4> HIDE DEF p
      <4> QED BY <3>1, <3>2, DivMod
    <3> QED BY <3>1, <3>3, WordsType
  <2>3. PICK k \in Nat \ {0} : q = p * k
    BY PowerMultiple
  <2>4. PICK l \in Nat \ {0} : Words = p * l
    BY WordsMultiple, WordsType
  <2> HIDE DEF p, q
  <2>5. u \in Int
    BY <2>2
  <2>6. (u % q) % p = u % p
    <3> HIDE DEF u
    <3> QED BY <2>2, <2>3, <2>5, ModMod
  <2>7. u % p = w % p
    <3>1. CASE BitLit(w, n - 1) = Const1
      <4> DEFINE r == w % p
      <4>1. u = r + p * (l - 1)
        <5>1. p * (l - 1) = p * l - p
          BY <2>2
        <5> QED BY <2>2, <2>4, <3>1, <5>1
      <4>2. r \in Nat /\ r < p
        <5>1. w \in Int
          OBVIOUS
        <5> QED BY <2>2, <5>1, DivMod
      <4> HIDE DEF r, u
      <4>3. r \in Int /\ l - 1 \in Int
        BY <4>2
      <4>4. (r + p * (l - 1)) % p = r % p
        BY <2>2, <4>3, ModShift
      <4>5. r % p = r
        BY <2>2, <4>2, ModSmall
      <4> QED BY <4>1, <4>4, <4>5 DEF r
    <3>2. CASE BitLit(w, n - 1) # Const1
      BY <3>2
    <3> QED BY <3>1, <3>2
  <2> QED BY <2>1, <2>6, <2>7 DEF p
<1> QED BY <1>1, <1>2

LEMMA OperandValue ==
  ASSUME NEW n, NEW x, Sized(x, n), NEW v \in Valuation
  PROVE  /\ n \in Nat \ {0} /\ x.size = n /\ Power(n) \in Nat \ {0}
         /\ HasBits(Lits(x), n)
         /\ Value(x, v) = Number(Lits(x), n, v)
         /\ Value(x, v) \in Nat /\ Value(x, v) < Power(n)
         /\ x.isSymbolic \in BOOLEAN
         /\ x.isSymbolic => Lits(x) = x.symWord
         /\ ~x.isSymbolic => /\ n <= WORD_BITS /\ Zext(x) = Value(x, v)
                             /\ x.conWord \in Nat /\ x.conWord < Words
                             /\ Value(x, v) = x.conWord % Power(n)
<1>1. /\ n \in Nat \ {0} /\ x.size = n /\ x.isSymbolic \in BOOLEAN
      /\ ~x.isSymbolic => n <= WORD_BITS /\ x.conWord \in Nat /\ x.conWord < Words
  BY WordsType DEF Sized, IsVector
<1>2. x.isSymbolic => Lits(x) = x.symWord
  BY DEF Lits
<1>3. ~x.isSymbolic => Value(x, v) = x.conWord % Power(n)
  BY <1>1 DEF Value, Power
<1> QED BY <1>1, <1>2, <1>3, OperandValues

\* vec_invert complements the n bits of a number.
THEOREM InvertValue ==
  ASSUME NEW n, NEW x, Sized(x, n), NEW v \in Valuation
  PROVE  Value(vec_invert(x), v) = NOT(Value(x, v), n)
<1> DEFINE a == Value(x, v)
           p == Power(n)
<1>1. /\ n \in Nat \ {0} /\ x.size = n /\ p \in Nat \ {0} /\ HasBits(Lits(x), n)
      /\ a = Number(Lits(x), n, v) /\ a \in Nat /\ a < p
      /\ x.isSymbolic => Lits(x) = x.symWord
      /\ ~x.isSymbolic => n <= WORD_BITS /\ x.conWord \in Nat /\ x.conWord < Words
                          /\ a = x.conWord % p
  BY OperandValue
<1>2. NOT(a, n) = p - 1 - a
  BY DEF NOT, Power
<1>3. CASE ~x.isSymbolic
  <2> DEFINE w == x.conWord
             u == Words - 1 - w
             e == u % p
  <2>1. vec_invert(x) = Concrete(n, e)
    BY <1>1, <1>3 DEF vec_invert, int_zextend, Power
  <2>2. PICK l \in Nat \ {0} : Words = p * l
    BY <1>1, <1>3, WordsMultiple
  <2>3. w \in Int /\ Words \in Int
    BY <1>1, <1>3, WordsType
  <2> DEFINE q == w \div p
  <2>4. w = p * q + a /\ q \in Int
    <3> HIDE DEF p
    <3> QED BY <1>1, <1>3, <2>3, DivMod
  <2> HIDE DEF w, p, q
  <2> DEFINE k == l - q - 1
             r == p - 1 - a
  <2>5. u = p * k + r /\ u \in Int /\ k \in Int /\ r \in Nat /\ r < p
    <3>1. p * (l - q - 1) = p * l - p * q - p
      BY <1>1, <2>4
    <3>2. p * l \in Int /\ p * q \in Int
      BY <1>1, <2>4
    <3> QED BY <1>1, <2>2, <2>3, <2>4, <3>1, <3>2
  <2> HIDE DEF u, k, r, a
  <2>6. e = r
    BY <1>1, <2>5, ModUnique
  <2>7. r % p = r
    BY <1>1, <2>5, ModSmall
  <2>8. Value(Concrete(n, r), v) = r % Power(n)
    <3>1. r \in Int
      BY <2>5
    <3> QED BY <1>1, <1>3, <3>1, ConcreteValue
  <2> QED BY <1>2, <2>1, <2>6, <2>7, <2>8 DEF r, p, a
<1>4. CASE x.isSymbolic
  <2> DEFINE X == Lits(x)
             s == [i \in Bits(n) |-> LitNot(X[i])]
  <2>1. vec_invert(x) = Symbolic(n, s)
    BY <1>1, <1>4 DEF vec_invert
  <2>2. \A i \in Bits(n) : X[i] \in Literal
    BY <1>1 DEF HasBits
  <2>3. s \in LitVec(n)
    BY <2>2, LiteralType DEF LitVec
  <2>4. \A i \in Bits(n) : Bit(s[i], v) = 1 - Bit(X[i], v)
    BY DEF Bit, LitNot
  <2> HIDE DEF s, X
  <2>5. Value(Symbolic(n, s), v) = Number(s, n, v)
    BY <1>1, <2>3, SymbolicValue
  <2>6. Number(s, n, v) = Power(n) - 1 - Number(X, n, v)
    BY <1>1, <2>4, InvertNumber
  <2> QED BY <1>1, <1>2, <2>1, <2>5, <2>6 DEF X
<1> QED BY <1>1, <1>3, <1>4, OperandValue

\* vec_negate is the negation modulo 2^n: on literals each bit is inverted
\* above the lowest that is set.
THEOREM NegateValue ==
  ASSUME NEW n, NEW x, Sized(x, n), NEW v \in Valuation
  PROVE  Value(vec_negate(x), v) = NEG(Value(x, v), n)
<1> DEFINE a == Value(x, v)
           p == Power(n)
<1>1. /\ n \in Nat \ {0} /\ x.size = n /\ p \in Nat \ {0} /\ HasBits(Lits(x), n)
      /\ a = Number(Lits(x), n, v) /\ a \in Nat /\ a < p
      /\ x.isSymbolic => Lits(x) = x.symWord
      /\ ~x.isSymbolic => n <= WORD_BITS /\ x.conWord \in Nat /\ a = x.conWord % p
  BY OperandValue
<1>2. NEG(a, n) = (-a) % p
  BY DEF NEG, Wrap, Power
<1>3. CASE ~x.isSymbolic
  <2> DEFINE e == int_sextend(x.conWord, n, WORD_BITS)
             zero == 0
  <2>1. vec_negate(x) = Concrete(n, -e)
    BY <1>1, <1>3 DEF vec_negate
  <2>2. e % p = a
    BY <1>1, <1>3, WordsType, SextMod
  <2>3. e \in Int
    <3>1. x.conWord \in Int /\ WORD_BITS \in Nat
      BY <1>1, <1>3, WordsType
    <3> QED BY <1>1, <3>1, ExtendType
  <2> HIDE DEF e, a, p
  <2>4. Value(Concrete(n, -e), v) = (-e) % Power(n)
    <3>1. -e \in Int
      BY <2>3
    <3> QED BY <1>1, <1>3, <3>1, ConcreteValue
  <2>5. (-e) % p = (-a) % p
    <3>1. zero \in Int /\ zero - e = -e /\ zero - a = -a
      BY <1>1, <2>3
    <3>2. zero % p = zero
      BY <1>1, ModSmall
    <3> HIDE DEF zero
    <3>3. (zero - e) % p = ((zero % p) - (e % p)) % p
      BY <1>1, <2>3, <3>1, ModSum
    <3> QED BY <2>2, <3>1, <3>2, <3>3
  <2> QED BY <1>2, <2>1, <2>4, <2>5 DEF p, a
<1>4. CASE x.isSymbolic
  <2> DEFINE X == Lits(x)
             s == NegatedBits(X, n)
             r == Number(s, n, v)
  <2>1. vec_negate(x) = Symbolic(n, s)
    BY <1>1, <1>4 DEF vec_negate, NegatedBits
  <2>2. s \in LitVec(n)
    <3>1. \A i \in Bits(n) : X[i] \in Literal /\ \A k \in Bits(i) : k \in Bits(n)
      BY <1>1 DEF HasBits, Bits
    <3>2. \A i \in Bits(n) : UNION {X[k] : k \in Bits(i)} \in Literal
      BY <1>1, <3>1 DEF HasBits, Literal
    <3> HIDE DEF X
    <3> QED BY <3>1, <3>2, LiteralType DEF LitVec, NegatedBits
  <2>3. r = IF a = 0 THEN 0 ELSE p - a
    <3> HIDE DEF X
    <3>1. HasBits(X, n) /\ n \in Nat
      BY <1>1 DEF X
    <3>2. Number(NegatedBits(X, n), n, v) = IF Number(X, n, v) = 0 THEN 0 ELSE Power(n) - Number(X, n, v)
      BY <3>1, NegateNumber
    <3> QED BY <1>1, <3>2 DEF X
  <2> HIDE DEF s, X
  <2>4. Value(Symbolic(n, s), v) = r
    BY <1>1, <2>2, SymbolicValue
  <2> HIDE DEF r, a, p
  <2>5. (-a) % p = r
    <3> DEFINE b == -a
               k == IF a = 0 THEN 0 ELSE -1
    <3>1. b = p * k + r /\ b \in Int /\ k \in Int /\ r \in Nat /\ r < p
      BY <1>1, <2>3
    <3> HIDE DEF b, k
    <3>2. b % p = r
      BY <1>1, <3>1, ModUnique
    <3> QED BY <3>2 DEF b
  <2> QED BY <1>2, <2>1, <2>4, <2>5 DEF p, a
<1> QED BY <1>1, <1>3, <1>4, OperandValue

\* The sign of a vector is its top literal.
LEMMA SignValue ==
  ASSUME NEW n, NEW x, Sized(x, n), NEW v \in Valuation
  PROVE  /\ v \in Lits(x)[n - 1] <=> SignBit(Value(x, v), n)
         /\ n - 1 \in Nat /\ Power(n) = 2 * Power(n - 1) /\ Power(n - 1) \in Nat \ {0}
         /\ n - 1 \in Bits(n) /\ Lits(x)[n - 1] \in Literal
<1> DEFINE X == Lits(x)
           j == n - 1
           p == Power(j)
           b == Bit(X[j], v)
           a == Number(X, j, v)
<1>1. /\ n \in Nat \ {0} /\ HasBits(X, n) /\ Value(x, v) = Number(X, n, v)
  BY OperandValue
<1>2. j \in Nat /\ j + 1 = n /\ j \in Bits(n)
  BY <1>1 DEF Bits
<1>3. Power(j + 1) = 2 * p /\ p \in Nat \ {0}
  BY <1>2, PowerFacts
<1>4. Number(X, j + 1, v) = a + p * b
  BY <1>2, NumberStep
<1>5. a \in Nat /\ a < p
  BY <1>2, NumberBound
<1>6. SignBit(Value(x, v), n) <=> a + p * b >= p
  BY <1>1, <1>2, <1>4 DEF SignBit, Power
<1>7. (v \in X[j] => b = 1) /\ (v \notin X[j] => b = 0)
  BY DEF Bit
<1>8. (v \in X[j] => p * b = p) /\ (v \notin X[j] => p * b = 0)
  <2> HIDE DEF p, b
  <2> QED BY <1>3, <1>7
<1>9. v \in X[j] <=> SignBit(Value(x, v), n)
  <2> HIDE DEF p, b, a, X, j
  <2> QED BY <1>3, <1>5, <1>6, <1>8
<1>10. X[j] \in Literal
  BY <1>1, <1>2 DEF HasBits
<1> QED BY <1>2, <1>3, <1>9, <1>10

\* vec_abs is the magnitude of a signed number, and the least number for itself.
THEOREM AbsValue ==
  ASSUME NEW n, NEW x, Sized(x, n), NEW v \in Valuation
  PROVE  Value(vec_abs(x), v) = ABS(Value(x, v), n)
<1> DEFINE a == Value(x, v)
           p == Power(n)
           sign == Lits(x)[n - 1]
<1>1. /\ n \in Nat \ {0} /\ x.size = n /\ p \in Nat \ {0} /\ a \in Nat /\ a < p
      /\ x.isSymbolic => Lits(x) = x.symWord
  BY OperandValue
<1>2. /\ v \in sign <=> SignBit(a, n)
      /\ n - 1 \in Bits(n) /\ sign \in Literal
  BY SignValue
<1>3. Value(vec_negate(x), v) = NEG(a, n)
  BY NegateValue
<1>4. ABS(a, n) = IF SignBit(a, n) THEN NEG(a, n) ELSE a
  <2>1. CASE ~SignBit(a, n)
    <3>1. ABS(a, n) = a % p
      <4>1. Signed(a, n) = a
        BY <2>1 DEF Signed
      <4>2. Abs(a) = a
        BY <1>1 DEF Abs
      <4> QED BY <4>1, <4>2 DEF ABS, Wrap, Power
    <3> HIDE DEF a, p
    <3>2. a % p = a
      BY <1>1, ModSmall
    <3> QED BY <2>1, <3>1, <3>2
  <2>2. CASE SignBit(a, n)
    <3>1. Signed(a, n) = a - p
      BY <2>2 DEF Signed, Power
    <3>2. Abs(a - p) = p - a
      BY <1>1 DEF Abs
    <3>3. ABS(a, n) = (p - a) % p
      BY <3>1, <3>2 DEF ABS, Wrap, Power
    <3>4. NEG(a, n) = (-a) % p
      BY DEF NEG, Wrap, Power
    <3> HIDE DEF a, p
    <3>5. (p - a) % p = (-a) % p
      <4> DEFINE b == -a
                 one == 1
      <4>1. b \in Int /\ one \in Int /\ p - a = b + p * one
        BY <1>1
      <4> HIDE DEF b, one
      <4>2. (b + p * one) % p = b % p
        BY <1>1, <4>1, ModShift
      <4> QED BY <4>1, <4>2 DEF b
    <3> QED BY <2>2, <3>3, <3>4, <3>5
  <2> QED BY <2>1, <2>2
<1>5. CASE ~x.isSymbolic
  <2>1. sign = BitLit(x.conWord, n - 1)
    BY <1>1, <1>2, <1>5 DEF Lits
  <2>2. vec_abs(x) = IF sign = Const0 THEN x ELSE vec_negate(x)
    BY <1>1, <1>5, <2>1 DEF vec_abs
  <2>3. sign = Const0 <=> v \notin sign
    BY <2>1 DEF BitLit, Const0, Const1
  <2> QED BY <1>2, <1>3, <1>4, <2>2, <2>3
<1>6. CASE x.isSymbolic
  <2>1. vec_abs(x) = vec_ite(sign, vec_negate(x), x)
    BY <1>1, <1>6 DEF vec_abs
  <2>2. Sized(vec_negate(x), n)
    BY NegateType
  <2>3. Value(vec_ite(sign, vec_negate(x), x), v) = IF v \in sign THEN Value(vec_negate(x), v) ELSE a
    BY <1>2, <2>2, IteValue
  <2> QED BY <1>2, <1>3, <1>4, <2>1, <2>3
<1> QED BY <1>5, <1>6, OperandValue

\* vec_zextend leaves the number as it is, whatever the word of the operand has
\* above its size.
THEOREM ZextendValue ==
  ASSUME NEW n, NEW x, Sized(x, n), NEW m \in Nat \ {0}, n <= m, NEW v \in Valuation
  PROVE  Value(vec_zextend(x, m), v) = Value(x, v)
<1> DEFINE a == Value(x, v)
           X == Lits(x)
           s == [i \in Bits(m) |-> IF i < n THEN X[i] ELSE Const0]
<1>1. /\ n \in Nat \ {0} /\ x.size = n /\ HasBits(X, n)
      /\ a = Number(X, n, v) /\ a \in Nat /\ a < Power(n)
      /\ ~x.isSymbolic => n <= WORD_BITS /\ Zext(x) = a
  BY OperandValue
<1>2. CASE ~x.isSymbolic /\ m <= WORD_BITS
  <2>1. vec_zextend(x, m) = Concrete(m, a)
    BY <1>1, <1>2 DEF vec_zextend, Zext
  <2>2. Power(n) <= Power(m) /\ Power(m) \in Nat \ {0} /\ Power(n) \in Nat
    BY <1>1, PowerFacts
  <2> HIDE DEF a
  <2>3. a \in Int /\ a < Power(m)
    BY <1>1, <2>2
  <2>4. Value(Concrete(m, a), v) = a % Power(m)
    BY <1>2, <2>3, ConcreteValue
  <2>5. a % Power(m) = a
    BY <1>1, <2>2, <2>3, ModSmall
  <2> QED BY <2>1, <2>4, <2>5 DEF a
<1>3. CASE ~(~x.isSymbolic /\ m <= WORD_BITS)
  <2>1. vec_zextend(x, m) = Symbolic(m, s)
    BY <1>1, <1>3 DEF vec_zextend
  <2>2. \A i \in Bits(m) : i < n => X[i] \in Literal
    BY <1>1 DEF HasBits, Bits
  <2>3. s \in LitVec(m)
    BY <2>2, LiteralType DEF LitVec
  <2>4. \A i \in Bits(m) : Bit(s[i], v) = IF i < n THEN Bit(X[i], v) ELSE 0
    BY ConstBits
  <2> HIDE DEF s, X
  <2>5. Number(s, m, v) = Number(X, n, v)
    BY <1>1, <2>4, NumberPadded
  <2>6. Value(Symbolic(m, s), v) = Number(s, m, v)
    BY <2>3, SymbolicValue
  <2> QED BY <1>1, <2>1, <2>5, <2>6
<1> QED BY <1>2, <1>3

\* The literals of a word that begins as n literals and repeats their sign.
LEMMA SignRepeated ==
  ASSUME NEW n \in Nat \ {0}, NEW m \in Nat, n <= m, NEW X, NEW s, NEW v,
         \A i \in Bits(m) : Bit(s[i], v) = IF i < n THEN Bit(X[i], v) ELSE Bit(X[n - 1], v)
  PROVE  Number(s, m, v) = (Number(X, n, v) - Power(n) * Bit(X[n - 1], v)) % Power(m)
<1> DEFINE a == Number(X, n, v)
           p == Power(n)
           q == Power(m)
           k == m - n
           u == [i \in Bits(k) |-> s[n + i]]
           b == Bit(X[n - 1], v)
           c == Number(u, k, v)
           e == Power(k)
           r == Number(s, m, v)
<1>1. k \in Nat /\ n + k = m
  OBVIOUS
<1>2. Power(n + k) = Power(n) * Power(k)
  BY <1>1, PowerFacts
<1>3. p \in Nat \ {0} /\ q \in Nat \ {0} /\ e \in Nat \ {0} /\ q = p * e
  BY <1>1, <1>2, PowerFacts
<1>4. a \in Nat /\ a < p
  BY NumberBound
<1>5. r \in Nat /\ r < q
  BY NumberBound
<1>6. Above(u, s, n, k, v) /\ \A i \in Bits(k) : Bit(u[i], v) = b
  <2>1. \A i \in Bits(k) : n + i \in Bits(m) /\ ~(n + i < n)
    BY DEF Bits
  <2> QED BY <2>1 DEF Above
<1>7. Number(s, n, v) = a
  <2>1. \A i \in Bits(n) : i \in Bits(m) /\ i < n
    BY DEF Bits
  <2>2. \A i \in Bits(n) : Bit(s[i], v) = Bit(X[i], v)
    BY <2>1
  <2>3. n \in Nat
    OBVIOUS
  <2> QED BY <2>2, <2>3, NumberSame
<1> HIDE DEF k, u
<1>8. Number(s, n + k, v) = Number(s, n, v) + Power(n) * Number(u, k, v)
  BY <1>1, <1>6, NumberSplit
<1>9. r = a + p * c
  BY <1>1, <1>7, <1>8
<1>10. b = 0 \/ b = 1
  BY BitType
<1>11. CASE b = 0
  <2>1. c = 0
    BY <1>1, <1>6, <1>11, NumberZero
  <2> HIDE DEF a, p, q, b, c, e, r
  <2>2. r = a /\ a - p * b = a
    BY <1>3, <1>4, <1>9, <1>11, <2>1
  <2>3. r % q = r
    BY <1>3, <1>5, ModSmall
  <2> QED BY <2>2, <2>3 DEF a, p, q, b, r
<1>12. CASE b = 1
  <2> DEFINE z == [i \in Bits(k) |-> {}]
  <2>1. \A i \in Bits(k) : Bit(z[i], v) = 0 /\ Bit(u[i], v) = 1 - Bit(z[i], v)
    BY <1>6, <1>12 DEF Bit
  <2> HIDE DEF z
  <2>2. Number(z, k, v) = 0
    BY <1>1, <2>1, NumberZero
  <2>3. Number(u, k, v) = Power(k) - 1 - Number(z, k, v)
    BY <1>1, <2>1, InvertNumber
  <2>4. c = e - 1
    BY <1>3, <2>2, <2>3
  <2> HIDE DEF a, p, q, b, c, e, r
  <2> DEFINE l == -1
             d == a - p * b
  <2>5. d = q * l + r /\ d \in Int /\ l \in Int
    <3>1. p * (e - 1) = p * e - p
      BY <1>3
    <3> QED BY <1>3, <1>4, <1>5, <1>9, <1>12, <2>4, <3>1
  <2> HIDE DEF l, d
  <2>6. d % q = r
    BY <1>3, <1>5, <2>5, ModUnique
  <2> QED BY <2>6 DEF d, a, p, q, b, r
<1> QED BY <1>10, <1>11, <1>12

\* int_sextend reads the bits of the word above a sign bit that is not set.
SignRight(x) ==
  x.isSymbolic \/ BitLit(x.conWord, x.size - 1) = Const1 \/ x.conWord = Zext(x)

LEMMA SignedValue ==
  ASSUME NEW n, NEW x, Sized(x, n), NEW v \in Valuation
  PROVE  /\ Signed(Value(x, v), n) \in Int
         /\ Signed(Value(x, v), n) = Value(x, v) - Power(n) * Bit(Lits(x)[n - 1], v)
         /\ Signed(Value(x, v), n) < Power(n - 1) /\ -Power(n - 1) <= Signed(Value(x, v), n)
         /\ v \in Lits(x)[n - 1] => Signed(Value(x, v), n) = Value(x, v) - Power(n)
         /\ v \notin Lits(x)[n - 1] => Signed(Value(x, v), n) = Value(x, v)
<1> DEFINE a == Value(x, v)
           p == Power(n)
           h == Power(n - 1)
           b == Bit(Lits(x)[n - 1], v)
<1>1. p \in Nat \ {0} /\ a \in Nat /\ a < p
  BY OperandValue
<1>2. (v \in Lits(x)[n - 1] <=> SignBit(a, n)) /\ p = 2 * h /\ h \in Nat \ {0}
  BY SignValue
<1>3. Signed(a, n) = IF SignBit(a, n) THEN a - p ELSE a
  BY DEF Signed, Power
<1>4. SignBit(a, n) <=> a >= h
  BY DEF SignBit, Power
<1>5. b = IF SignBit(a, n) THEN 1 ELSE 0
  BY <1>2 DEF Bit
<1> DEFINE c == Signed(a, n)
           f == SignBit(a, n)
<1> HIDE DEF a, p, h, b, c, f
<1>6. CASE f
  <2>1. c = a - p /\ b = 1 /\ a >= h
    BY <1>3, <1>4, <1>5, <1>6 DEF c, f
  <2>2. p * b = p
    BY <1>1, <2>1
  <2>3. c \in Int /\ c = a - p * b /\ c < h /\ -h <= c
    BY <1>1, <1>2, <2>1, <2>2
  <2> QED BY <1>2, <1>6, <2>1, <2>3 DEF c, f, a, p, h, b
<1>7. CASE ~f
  <2>1. c = a /\ b = 0 /\ ~(a >= h)
    BY <1>3, <1>4, <1>5, <1>7 DEF c, f
  <2>2. p * b = 0
    BY <1>1, <2>1
  <2>3. c \in Int /\ c = a - p * b /\ c < h /\ -h <= c
    BY <1>1, <1>2, <2>1, <2>2
  <2> QED BY <1>2, <1>7, <2>1, <2>3 DEF c, f, a, p, h, b
<1> QED BY <1>6, <1>7

LEMMA ModTwice ==
  ASSUME NEW a \in Int, NEW m \in Nat \ {0}
  PROVE  (a % m) % m = a % m
<1> DEFINE r == a % m
<1>1. r \in Nat /\ r < m
  BY DivMod
<1> HIDE DEF r
<1>2. r % m = r
  BY <1>1, ModSmall
<1> QED BY <1>2 DEF r

\* vec_sextend is sign extension, of a word only where int_sextend does not read
\* bits above a sign bit that is not set.
THEOREM SextendValue ==
  ASSUME NEW n, NEW x, Sized(x, n), NEW m \in Nat \ {0}, n <= m, SignRight(x),
         NEW v \in Valuation
  PROVE  Value(vec_sextend(x, m), v) = SEXT(Value(x, v), n, m)
<1> DEFINE a == Value(x, v)
           X == Lits(x)
           p == Power(n)
           q == Power(m)
           c == Signed(a, n)
           s == [i \in Bits(m) |-> X[IF i < n THEN i ELSE n - 1]]
<1>1. /\ n \in Nat \ {0} /\ x.size = n /\ HasBits(X, n) /\ p \in Nat \ {0}
      /\ a = Number(X, n, v) /\ a \in Nat /\ a < p
      /\ ~x.isSymbolic => /\ n <= WORD_BITS /\ Zext(x) = a
                          /\ x.conWord \in Nat /\ a = x.conWord % p
  BY OperandValue
<1>2. SEXT(a, n, m) = c % q
  BY DEF SEXT, Wrap, Power
<1>3. /\ c \in Int
      /\ c = a - p * Bit(X[n - 1], v)
      /\ v \in X[n - 1] => c = a - p
      /\ v \notin X[n - 1] => c = a
  BY SignedValue
<1>4. n - 1 \in Bits(n) /\ X[n - 1] \in Literal
  BY SignValue
<1>5. q \in Nat \ {0}
  BY PowerFacts
<1>6. CASE ~x.isSymbolic /\ m <= WORD_BITS
  <2> DEFINE e == int_sextend(x.conWord, n, m)
  <2>1. vec_sextend(x, m) = Concrete(m, e)
    BY <1>1, <1>6 DEF vec_sextend
  <2>2. e \in Int
    <3>1. x.conWord \in Int /\ m \in Nat
      BY <1>1, <1>6
    <3> QED BY <1>1, <3>1, ExtendType
  <2>3. Value(Concrete(m, e), v) = e % Power(m)
    <3> HIDE DEF e
    <3> QED BY <1>6, <2>2, ConcreteValue
  <2>4. X[n - 1] = BitLit(x.conWord, n - 1)
    BY <1>1, <1>4, <1>6 DEF Lits
  <2>5. BitLit(x.conWord, n - 1) = Const1 <=> v \in X[n - 1]
    BY <2>4 DEF BitLit, Const0, Const1
  <2>6. e % q = c % q
    <3>1. CASE n = WORD_BITS
      <4>1. e = x.conWord /\ m = n
        BY <1>1, <1>6, <3>1, WordsType DEF int_sextend
      <4>2. e % q = a
        BY <1>1, <1>6, <4>1
      <4>3. c % q = a
        <5> DEFINE k == -Bit(X[n - 1], v)
        <5>1. k \in Int
          BY BitType
        <5>2. c = a + p * k
          <6>1. p * (-Bit(X[n - 1], v)) = -(p * Bit(X[n - 1], v)) /\ p * Bit(X[n - 1], v) \in Int
            BY <1>1, BitType
          <6> QED BY <1>1, <1>3, <6>1
        <5> HIDE DEF k, a, p, c
        <5>3. a \in Int
          BY <1>1
        <5>4. (a + p * k) % p = a % p
          BY <1>1, <5>1, <5>3, ModShift
        <5>5. a % p = a
          BY <1>1, ModSmall
        <5> QED BY <4>1, <5>2, <5>4, <5>5 DEF p, q
      <4> QED BY <4>2, <4>3
    <3>2. CASE n # WORD_BITS /\ v \in X[n - 1]
      <4> DEFINE u == a + Words - p
      <4>1. e = u % q
        BY <1>1, <1>6, <2>5, <3>2 DEF int_sextend, int_zextend, Zext, Power
      <4>2. PICK l \in Nat \ {0} : Words = q * l
        BY <1>6, WordsMultiple
      <4>3. u = c + q * l /\ l \in Int
        BY <1>1, <1>3, <1>5, <3>2, <4>2
      <4>4. u \in Int
        BY <1>1, WordsType
      <4> HIDE DEF u, c, q, e
      <4>5. (c + q * l) % q = c % q
        BY <1>3, <1>5, <4>3, ModShift
      <4>6. (u % q) % q = u % q
        BY <1>5, <4>4, ModTwice
      <4> QED BY <4>1, <4>3, <4>5, <4>6
    <3>3. CASE n # WORD_BITS /\ v \notin X[n - 1]
      <4>1. x.conWord = a
        BY <1>1, <1>6, <2>5, <3>3 DEF SignRight
      <4>2. e = a % q
        BY <1>1, <1>6, <2>5, <3>3, <4>1 DEF int_sextend, int_zextend, Power
      <4>3. (a % q) % q = a % q
        <5> HIDE DEF a, q
        <5>1. a \in Int
          BY <1>1
        <5> QED BY <1>5, <5>1, ModTwice
      <4> QED BY <1>3, <3>3, <4>2, <4>3
    <3> QED BY <3>1, <3>2, <3>3
  <2> QED BY <1>2, <2>1, <2>3, <2>6
<1>7. CASE ~(~x.isSymbolic /\ m <= WORD_BITS)
  <2>1. vec_sextend(x, m) = Symbolic(m, s)
    BY <1>1, <1>7 DEF vec_sextend
  <2>2. \A i \in Bits(m) : (IF i < n THEN i ELSE n - 1) \in Bits(n)
    BY <1>1, <1>4 DEF Bits
  <2>3. \A i \in Bits(m) : X[IF i < n THEN i ELSE n - 1] \in Literal
    BY <1>1, <2>2 DEF HasBits
  <2>4. s \in LitVec(m)
    BY <2>3 DEF LitVec
  <2>5. \A i \in Bits(m) : Bit(s[i], v) = IF i < n THEN Bit(X[i], v) ELSE Bit(X[n - 1], v)
    OBVIOUS
  <2> HIDE DEF s, X
  <2>6. Number(s, m, v) = (Number(X, n, v) - Power(n) * Bit(X[n - 1], v)) % Power(m)
    BY <1>1, <2>5, SignRepeated
  <2>7. Value(Symbolic(m, s), v) = Number(s, m, v)
    BY <2>4, SymbolicValue
  <2> QED BY <1>1, <1>2, <1>3, <2>1, <2>6, <2>7
<1> QED BY <1>6, <1>7

\* vec_cat puts the first operand above the second.
THEOREM CatValue ==
  ASSUME NEW n, NEW x, Sized(x, n), NEW m, NEW y, Sized(y, m), NEW v \in Valuation
  PROVE  Value(vec_cat(x, y), v) = CAT(Value(x, v), Value(y, v), m)
<1> DEFINE a == Value(x, v)
           b == Value(y, v)
           X == Lits(x)
           Y == Lits(y)
           p == Power(n)
           q == Power(m)
           N == n + m
           s == [i \in Bits(N) |-> IF i < m THEN Y[i] ELSE X[i - m]]
           r == a * q + b
<1>1. /\ n \in Nat \ {0} /\ x.size = n /\ HasBits(X, n) /\ p \in Nat \ {0}
      /\ a = Number(X, n, v) /\ a \in Nat /\ a < p
      /\ ~x.isSymbolic => x.conWord \in Nat /\ a = x.conWord % p
  BY OperandValue
<1>2. /\ m \in Nat \ {0} /\ y.size = m /\ HasBits(Y, m) /\ q \in Nat \ {0}
      /\ b = Number(Y, m, v) /\ b \in Nat /\ b < q
      /\ ~y.isSymbolic => Zext(y) = b
  BY OperandValue
<1>3. CAT(a, b, m) = r
  BY DEF CAT, Power
<1>4. N \in Nat \ {0} /\ m + n = N /\ Power(m + n) = q * p
  BY <1>1, <1>2, PowerFacts
<1>5. CASE ~x.isSymbolic /\ ~y.isSymbolic /\ N <= WORD_BITS
  <2> DEFINE w == x.conWord
             u == w * q + b
             e == Power(N)
             k == w \div p
  <2>1. vec_cat(x, y) = Concrete(N, u)
    BY <1>1, <1>2, <1>5 DEF vec_cat, Zext, Power
  <2>2. w = p * k + a /\ k \in Int
    <3>1. w \in Int
      BY <1>1, <1>5
    <3> HIDE DEF p, w
    <3>2. w = p * (w \div p) + (w % p) /\ w \div p \in Int
      BY <1>1, <3>1, DivMod
    <3> QED BY <1>1, <1>5, <3>2 DEF w
  <2>3. e = q * p
    BY <1>4
  <2>4. w \in Nat
    BY <1>1, <1>5
  <2> HIDE DEF w, e, k, a, b, p, q
  <2>5. u = e * k + r
    <3>1. (p * k + a) * q = (q * p) * k + a * q
      BY <1>1, <1>2, <2>2
    <3>2. (q * p) * k \in Int /\ a * q \in Int
      BY <1>1, <1>2, <2>2
    <3> QED BY <1>2, <2>2, <2>3, <3>1, <3>2
  <2>6. u \in Int /\ r \in Nat /\ e \in Nat \ {0}
    <3>1. w * q \in Nat /\ a * q \in Nat /\ q * p \in Nat \ {0}
      BY <1>1, <1>2, <2>4
    <3> QED BY <1>2, <2>3, <3>1
  <2>7. r < e
    <3>1. (p - (a + 1)) * q \in Nat
      <4>1. p - (a + 1) \in Nat
        BY <1>1
      <4> QED BY <1>2, <4>1
    <3>2. (p - (a + 1)) * q = q * p - a * q - q
      BY <1>1, <1>2
    <3>3. a * q \in Nat /\ q * p \in Nat
      BY <1>1, <1>2
    <3> QED BY <1>2, <2>3, <3>1, <3>2, <3>3
  <2> HIDE DEF u, r
  <2>8. u % e = r
    BY <2>2, <2>5, <2>6, <2>7, ModUnique
  <2>9. Value(Concrete(N, u), v) = u % Power(N)
    <3> HIDE DEF N
    <3> QED BY <1>4, <1>5, <2>6, ConcreteValue
  <2> QED BY <1>3, <2>1, <2>8, <2>9 DEF e, a, b
<1>6. CASE ~(~x.isSymbolic /\ ~y.isSymbolic /\ N <= WORD_BITS)
  <2>1. vec_cat(x, y) = Symbolic(N, s)
    BY <1>1, <1>2, <1>6 DEF vec_cat
  <2>2. s \in LitVec(N)
    <3>1. \A i \in Bits(N) : IF i < m THEN Y[i] \in Literal ELSE X[i - m] \in Literal
      BY <1>1, <1>2 DEF HasBits, Bits
    <3> QED BY <3>1 DEF LitVec
  <2>3. \A i \in Bits(m) : Bit(s[i], v) = Bit(Y[i], v)
    <3>1. \A i \in Bits(m) : i \in Bits(N) /\ i < m
      BY <1>1, <1>2 DEF Bits
    <3> QED BY <3>1
  <2>4. Above(X, s, m, n, v)
    <3>1. \A i \in Bits(n) : m + i \in Bits(N) /\ ~(m + i < m) /\ (m + i) - m = i
      BY <1>1, <1>2 DEF Bits
    <3> QED BY <3>1 DEF Above
  <2> HIDE DEF s, X, Y
  <2>5. Value(Symbolic(N, s), v) = Number(s, N, v)
    <3> HIDE DEF N
    <3> QED BY <1>4, <2>2, SymbolicValue
  <2>6. Number(s, m + n, v) = Number(s, m, v) + Power(m) * Number(X, n, v)
    BY <1>1, <1>2, <2>4, NumberSplit
  <2>7. Number(s, m, v) = Number(Y, m, v)
    BY <1>2, <2>3, NumberSame
  <2>8. Number(s, N, v) = b + q * a
    BY <1>1, <1>2, <1>4, <2>6, <2>7
  <2> HIDE DEF a, b, q
  <2>9. b + q * a = r
    BY <1>1, <1>2
  <2> QED BY <1>3, <2>1, <2>5, <2>8, <2>9 DEF a, b
<1> QED BY <1>5, <1>6

LEMMA SetValueValue ==
  ASSUME NEW n \in Nat \ {0}, NEW w \in Int, NEW v \in Valuation
  PROVE  Value(vec_setValue(n, w), v) = w % Power(n)
<1>1. CASE n <= WORD_BITS
  <2>1. vec_setValue(n, w) = Concrete(n, w)
    BY <1>1, WordsType DEF vec_setValue
  <2> QED BY <1>1, <2>1, ConcreteValue
<1>2. CASE ~(n <= WORD_BITS)
  <2> DEFINE s == [i \in Bits(n) |-> BitLit(w, i)]
  <2>1. vec_setValue(n, w) = Symbolic(n, s)
    BY <1>2, WordsType DEF vec_setValue
  <2>2. s \in LitVec(n) /\ \A i \in Bits(n) : s[i] = BitLit(w, i)
    BY LiteralType DEF BitLit, LitVec
  <2> HIDE DEF s
  <2>3. Value(Symbolic(n, s), v) = Number(s, n, v)
    BY <2>2, SymbolicValue
  <2>4. Number(s, n, v) = w % Power(n)
    BY <2>2, WordNumber
  <2> QED BY <2>1, <2>3, <2>4
<1> QED BY <1>1, <1>2

\* The bits from start on of the word w.
LEMMA BitLitAbove ==
  ASSUME NEW w \in Int, NEW k \in Nat, NEW i \in Nat
  PROVE  BitLit(w \div 2^k, i) = BitLit(w, k + i) /\ w \div 2^k \in Int
<1>1. Power(k) \in Nat \ {0} /\ Power(i) \in Nat \ {0} /\ Power(k + i) = Power(k) * Power(i)
  BY PowerFacts
<1>2. (w \div Power(k)) \div Power(i) = w \div (Power(k) * Power(i)) /\ w \div Power(k) \in Int
  BY <1>1, DivDiv, DivMod
<1> QED BY <1>1, <1>2 DEF BitLit, Power

\* vec_extract, where its assertions hold, and vec_selectBits, everywhere, give
\* the bits from start on.
THEOREM ExtractValue ==
  ASSUME NEW n, NEW x, Sized(x, n), NEW start \in Nat, NEW amount \in Nat \ {0},
         start + amount <= n, NEW v \in Valuation
  PROVE  /\ ExtractAsserts(x, start, amount) =>
              Value(vec_extract(x, start, amount), v) = PIECE(Value(x, v), start, amount)
         /\ Value(vec_selectBits(x, amount, start), v) = PIECE(Value(x, v), start, amount)
<1> DEFINE a == Value(x, v)
           X == Lits(x)
           p == Power(start)
           q == Power(amount)
           s == [i \in Bits(amount) |-> X[start + i]]
           r == (a \div p) % q
<1>1. /\ n \in Nat \ {0} /\ x.size = n /\ HasBits(X, n)
      /\ a = Number(X, n, v) /\ a \in Nat
      /\ x.isSymbolic \in BOOLEAN
      /\ x.isSymbolic => X = x.symWord
      /\ ~x.isSymbolic => /\ n <= WORD_BITS /\ Zext(x) = a /\ x.conWord \in Nat
  BY OperandValue
<1>2. PIECE(a, start, amount) = r
  BY DEF PIECE, Wrap, Power
<1>3. \A i \in Bits(amount) : start + i \in Bits(n) /\ start + i < n /\ i \in Nat
  BY <1>1 DEF Bits
<1>4. s \in LitVec(amount)
  BY <1>1, <1>3 DEF HasBits, LitVec
<1>5. Number(s, amount, v) = r
  <2>1. \A i \in Bits(amount) : Bit(s[i], v) = IF start + i < n THEN Bit(X[start + i], v) ELSE 0
    BY <1>3
  <2> HIDE DEF s, X
  <2>2. Number(s, amount, v) = (Number(X, n, v) \div Power(start)) % Power(amount)
    BY <1>1, <2>1, PieceNumber
  <2> QED BY <1>1, <2>2 DEF X
<1>6. amount <= n /\ p \in Nat \ {0} /\ q \in Nat \ {0}
  <2>1. p \in Nat \ {0} /\ q \in Nat \ {0}
    BY PowerFacts
  <2>2. amount <= n
    BY <1>1
  <2> QED BY <2>1, <2>2
<1>7. CASE ~x.isSymbolic
  <2> DEFINE w == x.conWord
             u == w \div 2^start
             e == u % q
  <2>1. vec_extract(x, start, amount) = Concrete(amount, e)
    BY <1>7 DEF vec_extract, int_zextend, Power
  <2>2. vec_selectBits(x, amount, start) = Concrete(amount, a \div p)
    BY <1>1, <1>7 DEF vec_selectBits, Zext, Power
  <2>3. a \div p \in Int
    <3> HIDE DEF a, p
    <3>1. a \in Int
      BY <1>1
    <3> QED BY <1>6, <3>1, DivMod
  <2>4. Value(Concrete(amount, a \div p), v) = (a \div p) % Power(amount)
    <3>1. amount <= WORD_BITS
      BY <1>1, <1>6, <1>7, WordsType
    <3> HIDE DEF a, p
    <3> QED BY <2>3, <3>1, ConcreteValue
  <2>5. w \in Int
    BY <1>1, <1>7
  <2>6. u \in Int /\ \A i \in Bits(amount) : BitLit(u, i) = BitLit(w, start + i)
    <3> HIDE DEF w
    <3> QED BY <1>3, <2>5, BitLitAbove
  <2>7. \A i \in Bits(amount) : s[i] = BitLit(u, i)
    BY <1>1, <1>3, <1>7, <2>6 DEF Lits
  <2>8. Number(s, amount, v) = u % Power(amount)
    <3> HIDE DEF s, u
    <3> QED BY <2>6, <2>7, WordNumber
  <2>9. Value(Concrete(amount, e), v) = e % Power(amount) /\ e % q = e
    <3>1. amount <= WORD_BITS
      BY <1>1, <1>6, <1>7, WordsType
    <3> HIDE DEF u, q
    <3>4. u % q \in Nat /\ u \in Int
      BY <1>6, <2>6, DivMod
    <3>5. (u % q) % q = u % q
      BY <1>6, <3>4, ModTwice
    <3>2. e \in Int /\ e % q = e
      BY <3>4, <3>5
    <3> HIDE DEF e
    <3> QED BY <3>1, <3>2, ConcreteValue
  <2> QED BY <1>2, <1>5, <2>1, <2>2, <2>4, <2>8, <2>9
<1>8. CASE x.isSymbolic
  <2> DEFINE t == [i \in Bits(amount) |-> x.symWord[i + start]]
  <2>1. t = s
    <3>1. \A i \in Bits(amount) : i + start = start + i
      BY <1>3
    <3> QED BY <1>1, <1>8, <3>1
  <2>2. vec_selectBits(x, amount, start) = Folded(amount, t)
    BY <1>8 DEF vec_selectBits
  <2>3. vec_extract(x, start, amount) =
          IF AllConst(s, amount) THEN Concrete(amount, ConWord(s, amount)) ELSE Symbolic(amount, s)
    BY <1>8 DEF vec_extract
  <2>4. ExtractAsserts(x, start, amount) /\ AllConst(s, amount) => amount <= WORD_BITS
    BY <1>1, <1>8 DEF ExtractAsserts
  <2> HIDE DEF s, t
  <2>5. Value(Folded(amount, s), v) = Number(s, amount, v)
    BY <1>4, FoldedValue
  <2>6. CASE AllConst(s, amount)
    <3>1. ExtractAsserts(x, start, amount) =>
            Value(Concrete(amount, ConWord(s, amount)), v) = Number(s, amount, v)
      BY <2>4, <2>6, ConWordValue
    <3> QED BY <1>2, <1>5, <2>1, <2>2, <2>3, <2>5, <2>6, <3>1
  <2>7. CASE ~AllConst(s, amount)
    <3>1. Value(Symbolic(amount, s), v) = Number(s, amount, v)
      BY <1>4, SymbolicValue
    <3> QED BY <1>2, <1>5, <2>1, <2>2, <2>3, <2>5, <2>7, <3>1
  <2> QED BY <2>6, <2>7
<1> QED BY <1>1, <1>7, <1>8

\* pSUBPIECE gives the bytes from input1 on, with zeros above those there are.
THEOREM SubpieceValue ==
  ASSUME NEW n, NEW x, Sized(x, n), NEW input1 \in Nat, NEW output_size \in Nat \ {0},
         NEW v \in Valuation
  PROVE  Value(pSUBPIECE(x, input1, output_size), v) =
           PIECE(Value(x, v), input1 * BITS_IN_BYTE, output_size * BITS_IN_BYTE)
<1> DEFINE a == Value(x, v)
           X == Lits(x)
           m == output_size * BITS_IN_BYTE
           k == input1 * BITS_IN_BYTE
           s == [i \in Bits(m) |-> IF i + k < n THEN X[i + k] ELSE Const0]
           p == Power(k)
           q == Power(m)
           r == (a \div p) % q
<1>1. /\ n \in Nat \ {0} /\ x.size = n /\ HasBits(X, n)
      /\ a = Number(X, n, v) /\ a \in Nat /\ a < Power(n) /\ Power(n) \in Nat \ {0}
      /\ ~x.isSymbolic => Zext(x) = a
  BY OperandValue
<1>2. m \in Nat \ {0} /\ k \in Nat
  BY BytesType, WordsType
<1>3. PIECE(a, k, m) = r
  BY DEF PIECE, Wrap, Power
<1>4. p \in Nat \ {0} /\ q \in Nat \ {0}
  <2> HIDE DEF k, m
  <2> QED BY <1>2, PowerFacts
<1>5. CASE k >= n
  <2>1. pSUBPIECE(x, input1, output_size) = vec_setValue(m, 0)
    <3>1. ~(k < n)
      BY <1>1, <1>2, <1>5
    <3> QED BY <1>1, <1>5, <3>1 DEF pSUBPIECE
  <2> HIDE DEF m, k
  <2>2. Value(vec_setValue(m, 0), v) = 0 % Power(m)
    <3> DEFINE zero == 0
    <3>1. zero \in Int
      OBVIOUS
    <3> HIDE DEF zero
    <3>2. Value(vec_setValue(m, zero), v) = zero % Power(m)
      BY <1>2, <3>1, SetValueValue
    <3> QED BY <3>2 DEF zero
  <2>3. a \div p = 0
    <3>1. Power(n) <= p
      BY <1>1, <1>2, <1>5, PowerFacts
    <3> DEFINE zero == 0
    <3>2. a \in Int /\ a = p * zero + a /\ a < p /\ zero \in Int
      <4> HIDE DEF a, p
      <4> QED BY <1>1, <1>4, <3>1
    <3> HIDE DEF zero, a, p
    <3>3. a \div p = zero
      BY <1>1, <1>4, <3>2, ModUnique
    <3> QED BY <3>3 DEF zero
  <2> QED BY <1>3, <2>1, <2>2, <2>3 DEF k, m
<1>6. CASE k < n /\ ~x.isSymbolic /\ m <= WORD_BITS
  <2>1. pSUBPIECE(x, input1, output_size) = Concrete(m, a \div p)
    <3>1. ~(k >= n)
      BY <1>1, <1>2, <1>6
    <3> QED BY <1>1, <1>6, <3>1 DEF pSUBPIECE, Power
  <2>2. a \div p \in Int
    <3> HIDE DEF a, p
    <3>1. a \in Int
      BY <1>1
    <3> QED BY <1>4, <3>1, DivMod
  <2>3. Value(Concrete(m, a \div p), v) = (a \div p) % Power(m)
    <3> HIDE DEF a, p, m
    <3> QED BY <1>2, <1>6, <2>2, ConcreteValue
  <2> QED BY <1>3, <2>1, <2>3
<1>7. CASE k < n /\ ~(~x.isSymbolic /\ m <= WORD_BITS)
  <2>1. pSUBPIECE(x, input1, output_size) = Folded(m, s)
    <3>1. ~(k >= n)
      BY <1>1, <1>2, <1>7
    <3> QED BY <1>1, <1>7, <3>1 DEF pSUBPIECE
  <2> HIDE DEF m, k
  <2>2. \A i \in Bits(m) : i \in Nat /\ i + k = k + i /\ (k + i < n => k + i \in Bits(n))
    BY <1>1, <1>2 DEF Bits
  <2>3. s \in LitVec(m)
    BY <1>1, <2>2, LiteralType DEF HasBits, LitVec
  <2>4. \A i \in Bits(m) : Bit(s[i], v) = IF k + i < n THEN Bit(X[k + i], v) ELSE 0
    BY <2>2, ConstBits
  <2> HIDE DEF s, X
  <2>5. Number(s, m, v) = (Number(X, n, v) \div Power(k)) % Power(m)
    BY <1>1, <1>2, <2>4, PieceNumber
  <2>6. Value(Folded(m, s), v) = Number(s, m, v)
    BY <1>2, <2>3, FoldedValue
  <2> QED BY <1>1, <1>3, <2>1, <2>5, <2>6 DEF X, m, k
<1> QED BY <1>1, <1>2, <1>5, <1>6, <1>7

-----------------------------------------------------------------------------
(***************************************************************************)
(* Quotients and remainders.                                               *)
(***************************************************************************)
\* The n literals u are those of s where c holds, and those of t elsewhere.
Muxed(u, c, s, t, n, v) == \A i \in Bits(n) : Bit(u[i], v) = Bit(HashMux(c, s[i], t[i]), v)

LEMMA MuxNumber ==
  ASSUME NEW n \in Nat, NEW c, NEW s, NEW t, NEW u, NEW v, Muxed(u, c, s, t, n, v)
  PROVE  Number(u, n, v) = IF v \in c THEN Number(s, n, v) ELSE Number(t, n, v)
<1>1. \A i \in Bits(n) : Bit(u[i], v) = IF v \in c THEN Bit(s[i], v) ELSE Bit(t[i], v)
  BY DEF HashMux, Bit, Muxed
<1>2. CASE v \in c
  <2>1. \A i \in Bits(n) : Bit(u[i], v) = Bit(s[i], v)
    BY <1>1, <1>2
  <2> QED BY <1>2, <2>1, NumberSame
<1>3. CASE v \notin c
  <2>1. \A i \in Bits(n) : Bit(u[i], v) = Bit(t[i], v)
    BY <1>1, <1>3
  <2> QED BY <1>3, <2>1, NumberSame
<1> QED BY <1>2, <1>3

\* t is s with a bit that was not set.
LEMMA NumberExcept ==
  ASSUME NEW n \in Nat, NEW s, NEW t, NEW v, NEW j \in Bits(n),
         \A i \in Bits(n) : i # j => Bit(t[i], v) = Bit(s[i], v), Bit(s[j], v) = 0
  PROVE  Number(t, n, v) = Number(s, n, v) + Power(j) * Bit(t[j], v)
<1> DEFINE d == Power(j) * Bit(t[j], v)
           G == {k \in 0 .. n : Number(t, k, v) = Number(s, k, v) + IF j < k THEN d ELSE 0}
<1>0. j \in Nat /\ j < n /\ d \in Nat
  <2>1. j \in Nat /\ j < n
    BY DEF Bits
  <2>2. Power(j) \in Nat /\ Bit(t[j], v) \in Nat
    BY <2>1, PowerFacts, BitType
  <2> QED BY <2>1, <2>2
<1> HIDE DEF d
<1>1. 0 \in G
  <2>1. Number(t, 0, v) = 0 /\ Number(s, 0, v) = 0
    BY NumberStep
  <2> QED BY <1>0, <2>1
<1>2. ASSUME NEW k \in 1 .. n, k - 1 \in G
      PROVE  k \in G
  <2> DEFINE i == k - 1
  <2>1. i \in Nat /\ i + 1 = k /\ i \in Bits(n)
    BY DEF Bits
  <2>2. /\ Number(t, i + 1, v) = Number(t, i, v) + Power(i) * Bit(t[i], v)
        /\ Number(t, i, v) \in Nat
    BY <2>1, NumberStep
  <2>3. /\ Number(s, i + 1, v) = Number(s, i, v) + Power(i) * Bit(s[i], v)
        /\ Number(s, i, v) \in Nat
    BY <2>1, NumberStep
  <2>4. Number(t, i, v) = Number(s, i, v) + IF j < i THEN d ELSE 0
    BY <1>2
  <2>5. Power(i) * Bit(s[i], v) \in Nat
    <3>1. Power(i) \in Nat /\ Bit(s[i], v) \in Nat
      BY <2>1, PowerFacts, BitType
    <3> QED BY <3>1
  <2>6. CASE i # j
    <3>1. Bit(t[i], v) = Bit(s[i], v)
      BY <2>1, <2>6
    <3>2. j < i + 1 <=> j < i
      BY <1>0, <2>1, <2>6
    <3> HIDE DEF i
    <3>3. Number(t, i + 1, v) = Number(s, i + 1, v) + IF j < i + 1 THEN d ELSE 0
      BY <1>0, <2>2, <2>3, <2>4, <2>5, <3>1, <3>2
    <3> QED BY <2>1, <3>3
  <2>7. CASE i = j
    <3>1. Power(i) * Bit(s[i], v) = 0
      <4>1. Power(i) \in Nat /\ Bit(s[i], v) = 0
        BY <2>1, <2>7, PowerFacts
      <4> QED BY <4>1
    <3>2. j < i + 1 /\ ~(j < i)
      BY <1>0, <2>7
    <3>3. Power(i) * Bit(t[i], v) = d
      BY <2>7 DEF d
    <3> HIDE DEF i
    <3>4. Number(t, i + 1, v) = Number(s, i + 1, v) + IF j < i + 1 THEN d ELSE 0
      BY <1>0, <2>2, <2>3, <2>4, <3>1, <3>2, <3>3
    <3> QED BY <2>1, <3>4
  <2> QED BY <2>6, <2>7
<1>3. 0 .. n \subseteq G
  <2> HIDE DEF G
  <2> QED BY <1>1, <1>2, UpTo
<1>4. n \in G
  BY <1>3
<1> QED BY <1>0, <1>4 DEF d

\* y shifted left by j: its number, unless a bit is lost.
LEMMA ShiftedNumber ==
  ASSUME NEW n \in Nat, NEW Y, NEW Z, NEW j \in Bits(n), NEW v,
         \A i \in Bits(n) : Bit(Z[i], v) = IF j <= i THEN Bit(Y[i - j], v) ELSE 0
  PROVE  LET lost == \E i \in (n - j) .. n - 1 : Bit(Y[i], v) = 1
             b    == Number(Y, n, v)
         IN  /\ lost => b * Power(j) >= Power(n)
             /\ ~lost => Number(Z, n, v) = b * Power(j)
<1> DEFINE lost == \E i \in (n - j) .. n - 1 : Bit(Y[i], v) = 1
           m == n - j
           u == [i \in Bits(j) |-> Y[m + i]]
           b == Number(Y, n, v)
           l == Number(Y, m, v)
           h == Number(u, j, v)
           p == Power(j)
           q == Power(m)
           e == Power(n)
<1>1. j \in Nat /\ m \in Nat /\ m + j = n /\ n <= n + j
  BY DEF Bits
<1>2. Above(u, Y, m, j, v)
  BY DEF Above
<1>3. Number(Y, m + j, v) = Number(Y, m, v) + Power(m) * Number(u, j, v)
  <2> HIDE DEF m, u
  <2> QED BY <1>1, <1>2, NumberSplit
<1>4. Power(m + j) = Power(m) * Power(j) /\ p \in Nat \ {0} /\ q \in Nat \ {0}
  <2> HIDE DEF m
  <2> QED BY <1>1, PowerFacts
<1>5. Number(Z, n, v) = (Number(Y, n, v) * Power(j)) % Power(n)
  BY <1>1, LeftNumber
<1>6. l \in Nat /\ l < q
  <2> HIDE DEF m
  <2> QED BY <1>1, NumberBound
<1>7. h \in Nat
  BY <1>1, NumberBound
<1>8. b = l + q * h /\ e = q * p
  BY <1>1, <1>3, <1>4
<1>9. ~lost => h = 0
  <2> SUFFICES ASSUME ~lost PROVE h = 0
    OBVIOUS
  <2>1. \A i \in Bits(j) : Bit(u[i], v) = 0
    <3> TAKE i \in Bits(j)
    <3>1. m + i \in (n - j) .. n - 1
      BY <1>1 DEF Bits
    <3>2. Bit(Y[m + i], v) # 1
      BY <3>1
    <3> QED BY <3>2, BitType
  <2> HIDE DEF u
  <2> QED BY <1>1, <2>1, NumberZero
<1>10. lost => h # 0
  <2> SUFFICES ASSUME lost PROVE h # 0
    OBVIOUS
  <2>1. PICK i \in (n - j) .. n - 1 : Bit(Y[i], v) = 1
    OBVIOUS
  <2>2. i - m \in Bits(j) /\ m + (i - m) = i
    BY <1>1 DEF Bits
  <2>3. Bit(u[i - m], v) = 1
    BY <2>1, <2>2
  <2> DEFINE z == [k \in Bits(j) |-> {}]
  <2>4. \A k \in Bits(j) : Bit(z[k], v) = 0
    BY DEF Bit
  <2> HIDE DEF z, u
  <2>5. Number(z, j, v) = 0
    BY <1>1, <2>4, NumberZero
  <2>6. ~\A k \in Bits(j) : Bit(u[k], v) = Bit(z[k], v)
    BY <2>2, <2>3, <2>4
  <2> QED BY <1>1, <2>5, <2>6, NumberSame
<1> HIDE DEF lost, m, u, b, l, h, p, q, e
<1>11. ASSUME h # 0 PROVE b * p >= e
  <2>1. b * p = l * p + (q * p) * h /\ l * p \in Nat
    BY <1>4, <1>6, <1>7, <1>8
  <2> DEFINE lp == l * p
             bp == b * p
  <2>2. bp = lp + e * h /\ lp \in Nat /\ e \in Nat
    <3>1. q * p \in Nat
      BY <1>4
    <3> QED BY <1>8, <2>1, <3>1
  <2> HIDE DEF lp, bp
  <2>3. e * h = e + e * (h - 1) /\ e * (h - 1) \in Nat
    <3>1. h - 1 \in Nat
      BY <1>7, <1>11
    <3> QED BY <1>7, <2>2, <3>1
  <2>4. bp >= e
    BY <2>2, <2>3
  <2> QED BY <2>4 DEF bp
<1>12. ASSUME h = 0 PROVE (b * p) % e = b * p
  <2>1. b = l
    BY <1>4, <1>6, <1>8, <1>12
  <2>2. b * p \in Nat /\ e \in Nat \ {0}
    BY <1>4, <1>6, <1>8, <2>1
  <2>3. b * p < e
    <3>1. (q - (l + 1)) * p \in Nat
      <4>1. q - (l + 1) \in Nat
        BY <1>4, <1>6
      <4> QED BY <1>4, <4>1
    <3>2. (q - (l + 1)) * p = q * p - l * p - p
      BY <1>4, <1>6
    <3>3. q * p \in Nat /\ l * p \in Nat
      BY <1>4, <1>6
    <3> QED BY <1>4, <1>8, <2>1, <3>1, <3>2, <3>3
  <2> DEFINE c == b * p
  <2> HIDE DEF c
  <2>4. c \in Nat /\ c < e
    BY <2>2, <2>3 DEF c
  <2>5. c % e = c
    BY <2>2, <2>4, ModSmall
  <2> QED BY <2>5 DEF c
<1>13. (lost => b * p >= e) /\ (~lost => (b * p) % e = b * p)
  BY <1>9, <1>10, <1>11, <1>12
<1> QED BY <1>5, <1>13 DEF lost, b, p, e

\* What is known of quotient q and remainder r of a by b after bit j.
Divided(a, b, q, r, j, n) ==
  /\ a = b * q + r
  /\ b # 0 => r < b * Power(j)
  /\ b = 0 => q + Power(j) = Power(n)

LEMMA DividedStep ==
  ASSUME NEW a \in Nat, NEW b \in Nat, NEW q \in Nat, NEW r \in Nat, NEW j \in Nat, NEW n \in Nat,
         Divided(a, b, q, r, j + 1, n), b * Power(j) <= r
  PROVE  Divided(a, b, q + Power(j), r - b * Power(j), j, n)
<1> DEFINE p == Power(j)
           bp == b * p
<1>1. p \in Nat /\ Power(j + 1) = 2 * p
  BY PowerFacts
<1>2. b * (q + p) = b * q + b * p /\ b * (2 * p) = 2 * (b * p) /\ b * q \in Nat /\ b * p \in Nat
  <2> HIDE DEF p
  <2> QED BY <1>1
<1>3. a = b * q + r
  BY DEF Divided
<1>4. b # 0 => r < b * (2 * p)
  BY <1>1 DEF Divided
<1>5. b = 0 => q + 2 * p = Power(n)
  BY <1>1 DEF Divided
<1> HIDE DEF p, bp
<1>6. bp <= r /\ b * (q + p) = b * q + bp /\ bp \in Nat /\ (b # 0 => r < 2 * bp)
  BY <1>2, <1>4 DEF bp, p
<1>7. a = b * (q + p) + (r - bp)
  BY <1>2, <1>3, <1>6
<1>8. b # 0 => r - bp < bp
  BY <1>6
<1>9. b = 0 => (q + p) + p = Power(n)
  BY <1>1, <1>5
<1> QED BY <1>7, <1>8, <1>9 DEF Divided, bp, p

LEMMA DividedStay ==
  ASSUME NEW a \in Nat, NEW b \in Nat, NEW q \in Nat, NEW r \in Nat, NEW j \in Nat, NEW n \in Nat,
         Divided(a, b, q, r, j + 1, n), ~(b * Power(j) <= r)
  PROVE  Divided(a, b, q, r, j, n)
<1> DEFINE p == Power(j)
<1>1. p \in Nat
  BY PowerFacts
<1>2. b * p \in Nat
  <2> HIDE DEF p
  <2> QED BY <1>1
<1>3. r < b * p
  BY <1>2
<1>4. b # 0
  <2>1. b = 0 => b * p = 0
    <3> HIDE DEF p
    <3> QED BY <1>1
  <2> QED BY <1>3, <2>1
<1> QED BY <1>3, <1>4 DEF Divided

LEMMA DivisionStepNumber ==
  ASSUME NEW n \in Nat, NEW X \in LitVec(n), NEW Y \in LitVec(n), NEW j \in Bits(n),
         NEW d \in Division(n), NEW v \in Valuation,
         \A i \in Bits(j + 1) : v \notin d.quot[i],
         Divided(Number(X, n, v), Number(Y, n, v), Number(d.quot, n, v), Number(d.ret, n, v), j + 1, n)
  PROVE  LET e == DivisionStep(X, Y, n, j, d)
         IN  /\ \A i \in Bits(j) : v \notin e.quot[i]
             /\ Divided(Number(X, n, v), Number(Y, n, v), Number(e.quot, n, v), Number(e.ret, n, v), j, n)
<1> DEFINE e == DivisionStep(X, Y, n, j, d)
           Yj == [i \in Bits(n) |-> IF i >= j THEN Y[i - j] ELSE Const0]
           lost == UNION {Y[i] : i \in (n - j) .. n - 1}
           bit == LitNot(Greater(Yj, d.ret, n, lost))
           minus == DifferenceBits(d.ret, Yj, n)
           a == Number(X, n, v)
           b == Number(Y, n, v)
           q == Number(d.quot, n, v)
           r == Number(d.ret, n, v)
           p == Power(j)
           N == Power(n)
           z == Number(Yj, n, v)
<1>1. e = [quot |-> [d.quot EXCEPT ![j] = bit],
           ret |-> [i \in Bits(n) |-> HashMux(bit, minus[i], d.ret[i])]]
  BY DEF DivisionStep
<1>2. j \in Nat /\ j < n /\ p \in Nat \ {0} /\ N \in Nat \ {0}
  <2>1. j \in Nat /\ j < n
    BY DEF Bits
  <2> QED BY <2>1, PowerFacts
<1>3. d.ret \in LitVec(n) /\ d.quot \in LitVec(n)
  BY DEF Division
<1>4. Yj \in LitVec(n)
  <2>1. \A i \in Bits(n) : i >= j => i - j \in Bits(n)
    BY <1>2 DEF Bits
  <2> QED BY <2>1, LiteralType DEF LitVec
<1>5. lost \in Literal
  <2>1. \A i \in (n - j) .. n - 1 : i \in Bits(n)
    BY <1>2 DEF Bits
  <2>2. \A i \in (n - j) .. n - 1 : Y[i] \in Literal
    BY <2>1 DEF LitVec
  <2> QED BY <2>2 DEF Literal
<1>6. HasBits(d.ret, n) /\ HasBits(Yj, n)
  <2> HIDE DEF Yj
  <2> QED BY <1>3, <1>4, LitVecHasBits
<1>7. a \in Nat /\ b \in Nat /\ q \in Nat /\ r \in Nat /\ r < N /\ z \in Nat
  <2> HIDE DEF Yj
  <2>1. a \in Nat
    BY NumberBound
  <2>2. b \in Nat
    BY NumberBound
  <2>3. q \in Nat
    BY NumberBound
  <2>4. r \in Nat /\ r < N
    BY NumberBound
  <2>5. z \in Nat
    BY NumberBound
  <2> QED BY <2>1, <2>2, <2>3, <2>4, <2>5
<1>8. /\ v \in lost => b * p >= N
      /\ v \notin lost => z = b * p
  <2>1. \A i \in Bits(n) : Bit(Yj[i], v) = IF j <= i THEN Bit(Y[i - j], v) ELSE 0
    <3>1. \A i \in Bits(n) : i >= j <=> j <= i
      BY <1>2 DEF Bits
    <3> QED BY <3>1, ConstBits
  <2>2. v \in lost <=> \E i \in (n - j) .. n - 1 : Bit(Y[i], v) = 1
    BY DEF Bit
  <2> HIDE DEF Yj, lost
  <2> QED BY <2>1, <2>2, ShiftedNumber
<1>9. v \in bit <=> ~(v \in lost \/ z > r)
  <2>1. v \in Greater(Yj, d.ret, n, lost) <=> v \in lost \/ Number(Yj, n, v) > Number(d.ret, n, v)
    <3> HIDE DEF Yj, lost
    <3> QED BY <1>5, <1>6, GreaterNumber
  <2> QED BY <2>1 DEF LitNot
<1>10. Number(minus, n, v) + z = r + N * Bit(Borrow(d.ret, Yj, n)[n], v)
  <2> HIDE DEF Yj
  <2> QED BY <1>6, SumNumber
<1>11. Number(minus, n, v) \in Nat /\ Number(minus, n, v) < N
  <2> HIDE DEF minus
  <2> QED BY NumberBound
<1>12. Number(e.ret, n, v) = IF v \in bit THEN Number(minus, n, v) ELSE r
  <2>1. Muxed(e.ret, bit, minus, d.ret, n, v)
    <3> HIDE DEF bit, minus, e
    <3> QED BY <1>1 DEF Muxed
  <2> HIDE DEF bit, minus, e
  <2> QED BY <2>1, MuxNumber
<1>13. Number(e.quot, n, v) = q + p * Bit(bit, v)
  <2>1. j \in Bits(j + 1)
    BY <1>2 DEF Bits
  <2>2. Bit(d.quot[j], v) = 0
    BY <2>1 DEF Bit
  <2>3. e.quot[j] = bit /\ \A i \in Bits(n) : i # j => e.quot[i] = d.quot[i]
    <3> HIDE DEF bit, minus, e
    <3> QED BY <1>1, <1>3 DEF LitVec
  <2>4. \A i \in Bits(n) : i # j => Bit(e.quot[i], v) = Bit(d.quot[i], v)
    BY <2>3
  <2> HIDE DEF e, bit
  <2>5. Number(e.quot, n, v) = Number(d.quot, n, v) + Power(j) * Bit(e.quot[j], v)
    BY <2>2, <2>4, NumberExcept
  <2> QED BY <2>3, <2>5
<1>14. \A i \in Bits(j) : v \notin e.quot[i]
  <2>1. \A i \in Bits(j) : i # j /\ i \in Bits(j + 1) /\ i \in Bits(n)
    BY <1>2 DEF Bits
  <2>2. \A i \in Bits(n) : i # j => e.quot[i] = d.quot[i]
    <3> HIDE DEF bit, minus, e
    <3> QED BY <1>1, <1>3 DEF LitVec
  <2> HIDE DEF e
  <2> QED BY <2>1, <2>2
<1>15. v \in bit <=> b * p <= r
  <2> DEFINE bp == b * p
  <2>1. bp \in Nat
    <3> HIDE DEF b, p
    <3> QED BY <1>2, <1>7
  <2>2. (v \in lost => bp >= N) /\ (v \notin lost => z = bp)
    BY <1>8
  <2> HIDE DEF bp, lost, bit, z, r, N
  <2>3. v \in bit <=> bp <= r
    BY <1>2, <1>7, <1>9, <2>1, <2>2
  <2> QED BY <2>3 DEF bp, r
<1> DEFINE c == Bit(Borrow(d.ret, Yj, n)[n], v)
           f == Number(minus, n, v)
<1>16. CASE v \in bit
  <2>1. v \notin lost /\ ~(z > r)
    BY <1>9, <1>16
  <2>2. c = 0 \/ c = 1
    BY BitType
  <2>3. f + z = r + N * c /\ f \in Nat /\ f < N
    BY <1>10, <1>11
  <2>4. f = r - z
    <3> HIDE DEF f, z, r, N, c
    <3>1. CASE c = 0
      BY <1>2, <1>7, <2>3, <3>1
    <3>2. CASE c = 1
      BY <1>2, <1>7, <2>1, <2>3, <3>2
    <3> QED BY <2>2, <3>1, <3>2
  <2>5. z = b * p
    BY <1>8, <2>1
  <2>6. Number(e.ret, n, v) = r - b * p
    BY <1>12, <1>16, <2>4, <2>5
  <2>7. Number(e.quot, n, v) = q + p
    <3>1. Bit(bit, v) = 1
      BY <1>16 DEF Bit
    <3> HIDE DEF bit, p, q, e
    <3>2. p * 1 = p
      BY <1>2
    <3> QED BY <1>13, <3>1, <3>2
  <2>8. Divided(a, b, q, r, j + 1, n) /\ b * Power(j) <= r
    BY <1>15, <1>16
  <2> HIDE DEF a, b, q, r
  <2>9. Divided(a, b, q + Power(j), r - b * Power(j), j, n)
    BY <1>2, <1>7, <2>8, DividedStep
  <2> QED BY <1>14, <2>6, <2>7, <2>9 DEF a, b
<1>17. CASE v \notin bit
  <2>1. Number(e.ret, n, v) = r
    BY <1>12, <1>17
  <2>2. Number(e.quot, n, v) = q
    <3>1. Bit(bit, v) = 0
      BY <1>17 DEF Bit
    <3> HIDE DEF bit, p, q, e
    <3>2. p * 0 = 0 /\ q + 0 = q
      BY <1>2, <1>7
    <3> QED BY <1>13, <3>1, <3>2
  <2>3. Divided(a, b, q, r, j + 1, n) /\ ~(b * Power(j) <= r)
    BY <1>15, <1>17
  <2> HIDE DEF a, b, q, r
  <2>4. Divided(a, b, q, r, j, n)
    BY <1>2, <1>7, <2>3, DividedStay
  <2> QED BY <1>14, <2>1, <2>2, <2>4 DEF a, b
<1> QED BY <1>16, <1>17

LEMMA DivisionNumber ==
  ASSUME NEW n \in Nat, NEW X \in LitVec(n), NEW Y \in LitVec(n), NEW v \in Valuation
  PROVE  /\ Number(DivisionBits(X, Y, n).quot, n, v) = DIV(Number(X, n, v), Number(Y, n, v), n)
         /\ Number(DivisionBits(X, Y, n).ret, n, v) = REM(Number(X, n, v), Number(Y, n, v), n)
<1> DEFINE a == Number(X, n, v)
           b == Number(Y, n, v)
           N == Power(n)
<1>1. PICK above \in [0 .. n -> Division(n)] :
             /\ above[n] = [quot |-> [i \in Bits(n) |-> Const0], ret |-> X]
             /\ \A j \in Bits(n) : above[j] = DivisionStep(X, Y, n, j, above[j + 1])
             /\ DivisionBits(X, Y, n) = above[0]
  BY DivisionIs
<1>2. a \in Nat /\ b \in Nat /\ a < N /\ N \in Nat \ {0}
  <2>1. a \in Nat /\ a < N
    BY NumberBound
  <2>2. b \in Nat
    BY NumberBound
  <2> QED BY <2>1, <2>2, PowerFacts
<1> DEFINE Right(j) == /\ \A i \in Bits(j) : v \notin above[j].quot[i]
                       /\ Divided(a, b, Number(above[j].quot, n, v), Number(above[j].ret, n, v), j, n)
           G == {k \in 0 .. n : Right(n - k)}
<1>3. 0 \in G
  <2>0. n - 0 = n
    OBVIOUS
  <2>1. \A i \in Bits(n) : above[n].quot[i] = Const0
    BY <1>1
  <2>2. \A i \in Bits(n) : v \notin above[n].quot[i] /\ Bit(above[n].quot[i], v) = 0
    BY <2>1, ConstBits DEF Const0
  <2>3. Number(above[n].quot, n, v) = 0
    BY <2>2, NumberZero
  <2>4. Number(above[n].ret, n, v) = a
    BY <1>1
  <2>5. Divided(a, b, 0, a, n, n)
    <3> HIDE DEF a, b, N
    <3>1. b * 0 + a = a
      BY <1>2
    <3>2. b # 0 => a < b * N
      <4> SUFFICES ASSUME b # 0 PROVE a < b * N
        OBVIOUS
      <4>1. b - 1 \in Nat
        BY <1>2
      <4>2. (b - 1) * N \in Nat /\ (b - 1) * N = b * N - N /\ b * N \in Nat
        BY <1>2, <4>1
      <4> QED BY <1>2, <4>2
    <3> QED BY <1>2, <3>1, <3>2 DEF Divided, N
  <2> QED BY <2>0, <2>2, <2>3, <2>4, <2>5
<1>4. ASSUME NEW k \in 1 .. n, k - 1 \in G
      PROVE  k \in G
  <2> DEFINE j == n - k
  <2>1. j \in Bits(n) /\ n - (k - 1) = j + 1 /\ j + 1 \in 0 .. n
    BY DEF Bits
  <2>2. Right(j + 1)
    BY <1>4, <2>1
  <2>3. above[j] = DivisionStep(X, Y, n, j, above[j + 1]) /\ above[j + 1] \in Division(n)
    BY <1>1, <2>1
  <2>4. Right(j)
    <3> HIDE DEF j
    <3>1. /\ \A i \in Bits(j + 1) : v \notin above[j + 1].quot[i]
          /\ Divided(Number(X, n, v), Number(Y, n, v), Number(above[j + 1].quot, n, v),
                     Number(above[j + 1].ret, n, v), j + 1, n)
      BY <2>2
    <3> QED BY <2>1, <2>3, <3>1, DivisionStepNumber
  <2> QED BY <2>4
<1>5. n \in G
  <2> HIDE DEF G
  <2>1. 0 .. n \subseteq G
    BY <1>3, <1>4, UpTo
  <2> QED BY <2>1
<1>6. n - n = 0
  OBVIOUS
<1>7. Divided(a, b, Number(above[0].quot, n, v), Number(above[0].ret, n, v), 0, n)
  BY <1>5, <1>6
<1> DEFINE q == Number(above[0].quot, n, v)
           r == Number(above[0].ret, n, v)
<1>8. q \in Nat /\ r \in Nat
  <2>1. q \in Nat
    BY NumberBound
  <2>2. r \in Nat
    BY NumberBound
  <2> QED BY <2>1, <2>2
<1>9. a = b * q + r /\ (b # 0 => r < b * 1) /\ (b = 0 => q + 1 = N)
  BY <1>7, PowerFacts DEF Divided
<1>10. q = DIV(a, b, n) /\ r = REM(a, b, n)
  <2> HIDE DEF a, b, q, r, N
  <2>1. CASE b = 0
    <3>1. b * q = 0
      BY <1>8, <2>1
    <3>2. q = N - 1 /\ r = a
      BY <1>2, <1>8, <1>9, <2>1, <3>1
    <3> QED BY <2>1, <3>2 DEF DIV, REM, N, Power
  <2>2. CASE b # 0
    <3>1. b \in Nat \ {0} /\ a \in Int /\ q \in Int /\ r < b
      BY <1>2, <1>8, <1>9, <2>2
    <3>2. a % b = r /\ a \div b = q
      BY <1>8, <1>9, <3>1, ModUnique
    <3> QED BY <2>2, <3>2 DEF DIV, REM
  <2> QED BY <2>1, <2>2
<1> QED BY <1>1, <1>10

LEMMA ArithmeticValue ==
  ASSUME NEW n, NEW x, NEW y, Sized(x, n), Sized(y, n), NEW v \in Valuation,
         NEW con, NEW s \in LitVec(n), NEW value, Number(s, n, v) = value,
         ~x.isSymbolic /\ ~y.isSymbolic => con \in Int /\ con % Power(n) = value
  PROVE  Value(Arithmetic(x, y, con, s), v) = value
<1>1. /\ n \in Nat \ {0} /\ x.size = n /\ x.isSymbolic \in BOOLEAN
      /\ ~x.isSymbolic => n <= WORD_BITS
  BY OperandValue
<1>2. CASE ~x.isSymbolic /\ ~y.isSymbolic
  <2>1. Arithmetic(x, y, con, s) = Concrete(n, con)
    BY <1>1, <1>2 DEF Arithmetic
  <2>2. con \in Int
    BY <1>2
  <2>3. Value(Concrete(n, con), v) = con % Power(n)
    BY <1>1, <1>2, <2>2, ConcreteValue
  <2> QED BY <1>2, <2>1, <2>3
<1>3. CASE ~(~x.isSymbolic /\ ~y.isSymbolic)
  <2>1. Arithmetic(x, y, con, s) = Folded(n, s)
    BY <1>1, <1>3 DEF Arithmetic
  <2>2. Value(Folded(n, s), v) = Number(s, n, v)
    BY <1>1, FoldedValue
  <2> QED BY <2>1, <2>2
<1> QED BY <1>2, <1>3

LEMMA QuotientBound ==
  ASSUME NEW a \in Nat, NEW b \in Nat \ {0}
  PROVE  a \div b \in Nat /\ a \div b <= a
<1> DEFINE q == a \div b
           r == a % b
<1>1. a = b * q + r /\ q \in Int /\ r \in Nat /\ r < b
  <2>1. a \in Int
    OBVIOUS
  <2> QED BY <2>1, DivMod
<1>2. q \in Nat
  BY ModType
<1> HIDE DEF q, r
<1>3. b * q = q + (b - 1) * q /\ (b - 1) * q \in Nat
  <2>1. b - 1 \in Nat
    OBVIOUS
  <2> QED BY <1>2, <2>1
<1>4. q <= a
  BY <1>1, <1>2, <1>3
<1> QED BY <1>2, <1>4 DEF q

\* vec_quot_rem is division: the long division of literals, which subtracts a
\* shifted divisor where it fits, gives quotient and remainder, and for a zero
\* divisor the numbers the concrete case gives.
THEOREM QuotRemValue ==
  ASSUME NEW n, NEW x, NEW y, Sized(x, n), Sized(y, n), NEW v \in Valuation
  PROVE  /\ Value(vec_quot_rem(x, y, TRUE), v) = DIV(Value(x, v), Value(y, v), n)
         /\ Value(vec_quot_rem(x, y, FALSE), v) = REM(Value(x, v), Value(y, v), n)
<1> DEFINE a == Value(x, v)
           b == Value(y, v)
           p == Power(n)
           quot == DivisionBits(Lits(x), Lits(y), n).quot
           ret == DivisionBits(Lits(x), Lits(y), n).ret
           cq == IF Zext(y) = 0 THEN -1 ELSE Zext(x) \div Zext(y)
           cr == IF Zext(y) = 0 THEN Zext(x) ELSE Zext(x) % Zext(y)
<1>1. /\ n \in Nat \ {0} /\ x.size = n /\ p \in Nat \ {0}
      /\ a = Number(Lits(x), n, v) /\ b = Number(Lits(y), n, v)
      /\ a \in Nat /\ a < p /\ b \in Nat /\ b < p
      /\ ~x.isSymbolic => Zext(x) = a
      /\ ~y.isSymbolic => Zext(y) = b
  BY OperandValues
<1>2. Lits(x) \in LitVec(n) /\ Lits(y) \in LitVec(n)
  BY SizedFacts
<1>3. /\ vec_quot_rem(x, y, TRUE) = Arithmetic(x, y, cq, quot)
      /\ vec_quot_rem(x, y, FALSE) = Arithmetic(x, y, cr, ret)
  BY <1>1 DEF vec_quot_rem
<1>4. quot \in LitVec(n) /\ ret \in LitVec(n)
  BY <1>1, <1>2, ProductType
<1>5. Number(quot, n, v) = DIV(a, b, n) /\ Number(ret, n, v) = REM(a, b, n)
  BY <1>1, <1>2, DivisionNumber
<1>6. ASSUME ~x.isSymbolic, ~y.isSymbolic
      PROVE  /\ cq \in Int /\ cq % Power(n) = DIV(a, b, n)
             /\ cr \in Int /\ cr % Power(n) = REM(a, b, n)
  <2>1. Zext(x) = a /\ Zext(y) = b
    BY <1>1, <1>6
  <2>2. CASE b = 0
    <3>1. cq = -1 /\ cr = a
      BY <2>1, <2>2
    <3>2. DIV(a, b, n) = p - 1 /\ REM(a, b, n) = a
      BY <2>2 DEF DIV, REM, Power
    <3> HIDE DEF a, b, p
    <3>3. (-1) % p = p - 1
      <4> DEFINE c == -1
                 r == p - 1
      <4>1. c = p * c + r /\ c \in Int /\ r \in Nat /\ r < p
        BY <1>1
      <4> HIDE DEF c, r
      <4>2. c % p = r
        BY <1>1, <4>1, ModUnique
      <4> QED BY <4>2 DEF c, r
    <3>4. a % p = a
      BY <1>1, ModSmall
    <3> QED BY <1>1, <3>1, <3>2, <3>3, <3>4 DEF p
  <2>3. CASE b # 0
    <3>1. cq = a \div b /\ cr = a % b
      BY <2>1, <2>3
    <3>2. DIV(a, b, n) = a \div b /\ REM(a, b, n) = a % b
      BY <2>3 DEF DIV, REM
    <3> HIDE DEF a, b, p, cq, cr
    <3>3. b \in Nat \ {0} /\ a \in Int
      BY <1>1, <2>3
    <3>4. cq \in Nat /\ cq <= a
      BY <1>1, <3>1, <3>3, QuotientBound
    <3>5. cr \in Nat /\ cr < b
      BY <3>1, <3>3, DivMod
    <3>6. cq < p /\ cr < p
      BY <1>1, <3>4, <3>5
    <3>7. cq % p = cq
      BY <1>1, <3>4, <3>6, ModSmall
    <3>8. cr % p = cr
      BY <1>1, <3>5, <3>6, ModSmall
    <3> QED BY <3>1, <3>2, <3>4, <3>5, <3>7, <3>8 DEF p
  <2> QED BY <2>2, <2>3
<1> HIDE DEF a, b, quot, ret, cq, cr
<1>7. Value(Arithmetic(x, y, cq, quot), v) = DIV(a, b, n)
  <2> DEFINE value == DIV(a, b, n)
  <2>1. Number(quot, n, v) = value
    BY <1>5
  <2>2. ~x.isSymbolic /\ ~y.isSymbolic => cq \in Int /\ cq % Power(n) = value
    BY <1>6
  <2> HIDE DEF value
  <2>3. Value(Arithmetic(x, y, cq, quot), v) = value
    BY <1>4, <2>1, <2>2, ArithmeticValue
  <2> QED BY <2>3 DEF value
<1>8. Value(Arithmetic(x, y, cr, ret), v) = REM(a, b, n)
  <2> DEFINE value == REM(a, b, n)
  <2>1. Number(ret, n, v) = value
    BY <1>5
  <2>2. ~x.isSymbolic /\ ~y.isSymbolic => cr \in Int /\ cr % Power(n) = value
    BY <1>6
  <2> HIDE DEF value
  <2>3. Value(Arithmetic(x, y, cr, ret), v) = value
    BY <1>4, <2>1, <2>2, ArithmeticValue
  <2> QED BY <2>3 DEF value
<1> QED BY <1>3, <1>7, <1>8 DEF a, b

(***************************************************************************)
(* Bit by bit.                                                             *)
(***************************************************************************)
\* Bit i of a number.
LEMMA BitOfNumber ==
  ASSUME NEW n \in Nat, NEW s, NEW v, NEW i \in Bits(n)
  PROVE  (Number(s, n, v) \div 2^i) % 2 = Bit(s[i], v)
<1> DEFINE t == [j \in Bits(1) |-> s[i]]
<1>1. i \in Nat /\ i < n
  BY DEF Bits
<1>2. \A j \in Bits(1) : Bit(t[j], v) = IF i + j < n THEN Bit(s[i + j], v) ELSE 0
  <2> TAKE j \in Bits(1)
  <2>1. j = 0
    BY DEF Bits
  <2>2. i + j = i /\ t[j] = s[i]
    BY <1>1, <2>1
  <2> QED BY <1>1, <2>2
<1>3. t[0] = s[i]
  BY DEF Bits
<1> HIDE DEF t
<1>4. 1 \in Nat /\ 0 \in Nat
  OBVIOUS
<1>5. Number(t, 1, v) = (Number(s, n, v) \div Power(i)) % Power(1)
  BY <1>1, <1>2, <1>4, PieceNumber
<1>6. Number(t, 0, v) = 0 /\ Number(t, 0 + 1, v) = Number(t, 0, v) + Power(0) * Bit(t[0], v)
  BY <1>4, NumberStep
<1>7. Power(0) = 1 /\ Power(0 + 1) = 2 * Power(0)
  BY <1>4, PowerFacts
<1>8. Bit(s[i], v) \in Nat
  BY BitType
<1>9. Number(t, 1, v) = Bit(s[i], v) /\ Power(1) = 2
  BY <1>3, <1>6, <1>7, <1>8
<1> QED BY <1>5, <1>9 DEF Power

\* The number that BitByBit adds up for the bits of s.
LEMMA AndNumber ==
  ASSUME NEW n \in Nat, NEW a, NEW b, NEW s, NEW v,
         \A i \in Bits(n) : Bit(s[i], v) = ((a \div 2^i) % 2) * ((b \div 2^i) % 2)
  PROVE  AND(a, b, n) = Number(s, n, v)
<1> DEFINE add(k) == 2^(k - 1) * (((a \div 2^(k - 1)) % 2) * ((b \div 2^(k - 1)) % 2))
           Is(f) == f = [k \in 0 .. n |-> IF k = 0 THEN 0 ELSE f[k - 1] + add(k)]
           low == CHOOSE f : Is(f)
<1>1. AND(a, b, n) = low[n]
  BY DEF AND, BitByBit
<1>2. \A k \in 1 .. n : k - 1 \in Nat /\ k - 1 \in Bits(n) /\ k - 1 + 1 = k
  BY DEF Bits
<1>3. \A k \in 1 .. n : add(k) = Power(k - 1) * Bit(s[k - 1], v)
  BY <1>2 DEF Power
<1> HIDE DEF add
<1>4. \A k \in 1 .. n : Number(s, k, v) = Number(s, k - 1, v) + add(k)
  BY <1>2, <1>3, NumberStep
<1>5. Number(s, 0, v) = 0
  BY NumberStep
<1>6. Is([k \in 0 .. n |-> Number(s, k, v)])
  <2> DEFINE f == [k \in 0 .. n |-> Number(s, k, v)]
  <2>1. \A k \in 0 .. n : f[k] = IF k = 0 THEN 0 ELSE f[k - 1] + add(k)
    BY <1>4, <1>5
  <2> QED BY <2>1
<1>7. Is(low)
  BY <1>6
<1> HIDE DEF low
<1>8. low[0] = 0 /\ \A k \in 1 .. n : low[k] = low[k - 1] + add(k)
  BY <1>7
<1> DEFINE G == {k \in 0 .. n : low[k] = Number(s, k, v)}
<1>9. 0 \in G /\ \A k \in 1 .. n : k - 1 \in G => k \in G
  BY <1>4, <1>5, <1>8
<1> HIDE DEF G
<1>10. 0 .. n \subseteq G
  BY <1>9, UpTo
<1> QED BY <1>1, <1>10 DEF G

LEMMA OrNumber ==
  ASSUME NEW n \in Nat, NEW a, NEW b, NEW s, NEW v,
         \A i \in Bits(n) :
           Bit(s[i], v) = ((a \div 2^i) % 2) + ((b \div 2^i) % 2) - ((a \div 2^i) % 2) * ((b \div 2^i) % 2)
  PROVE  OR(a, b, n) = Number(s, n, v)
<1> DEFINE add(k) == 2^(k - 1) * (((a \div 2^(k - 1)) % 2) + ((b \div 2^(k - 1)) % 2)
                                   - ((a \div 2^(k - 1)) % 2) * ((b \div 2^(k - 1)) % 2))
           Is(f) == f = [k \in 0 .. n |-> IF k = 0 THEN 0 ELSE f[k - 1] + add(k)]
           low == CHOOSE f : Is(f)
<1>1. OR(a, b, n) = low[n]
  BY DEF OR, BitByBit
<1>2. \A k \in 1 .. n : k - 1 \in Nat /\ k - 1 \in Bits(n) /\ k - 1 + 1 = k
  BY DEF Bits
<1>3. \A k \in 1 .. n : add(k) = Power(k - 1) * Bit(s[k - 1], v)
  BY <1>2 DEF Power
<1> HIDE DEF add
<1>4. \A k \in 1 .. n : Number(s, k, v) = Number(s, k - 1, v) + add(k)
  BY <1>2, <1>3, NumberStep
<1>5. Number(s, 0, v) = 0
  BY NumberStep
<1>6. Is([k \in 0 .. n |-> Number(s, k, v)])
  <2> DEFINE f == [k \in 0 .. n |-> Number(s, k, v)]
  <2>1. \A k \in 0 .. n : f[k] = IF k = 0 THEN 0 ELSE f[k - 1] + add(k)
    BY <1>4, <1>5
  <2> QED BY <2>1
<1>7. Is(low)
  BY <1>6
<1> HIDE DEF low
<1>8. low[0] = 0 /\ \A k \in 1 .. n : low[k] = low[k - 1] + add(k)
  BY <1>7
<1> DEFINE G == {k \in 0 .. n : low[k] = Number(s, k, v)}
<1>9. 0 \in G /\ \A k \in 1 .. n : k - 1 \in G => k \in G
  BY <1>4, <1>5, <1>8
<1> HIDE DEF G
<1>10. 0 .. n \subseteq G
  BY <1>9, UpTo
<1> QED BY <1>1, <1>10 DEF G

LEMMA XorNumber ==
  ASSUME NEW n \in Nat, NEW a, NEW b, NEW s, NEW v,
         \A i \in Bits(n) : Bit(s[i], v) = (((a \div 2^i) % 2) + ((b \div 2^i) % 2)) % 2
  PROVE  XOR(a, b, n) = Number(s, n, v)
<1> DEFINE add(k) == 2^(k - 1) * ((((a \div 2^(k - 1)) % 2) + ((b \div 2^(k - 1)) % 2)) % 2)
           Is(f) == f = [k \in 0 .. n |-> IF k = 0 THEN 0 ELSE f[k - 1] + add(k)]
           low == CHOOSE f : Is(f)
<1>1. XOR(a, b, n) = low[n]
  BY DEF XOR, BitByBit
<1>2. \A k \in 1 .. n : k - 1 \in Nat /\ k - 1 \in Bits(n) /\ k - 1 + 1 = k
  BY DEF Bits
<1>3. \A k \in 1 .. n : add(k) = Power(k - 1) * Bit(s[k - 1], v)
  BY <1>2 DEF Power
<1> HIDE DEF add
<1>4. \A k \in 1 .. n : Number(s, k, v) = Number(s, k - 1, v) + add(k)
  BY <1>2, <1>3, NumberStep
<1>5. Number(s, 0, v) = 0
  BY NumberStep
<1>6. Is([k \in 0 .. n |-> Number(s, k, v)])
  <2> DEFINE f == [k \in 0 .. n |-> Number(s, k, v)]
  <2>1. \A k \in 0 .. n : f[k] = IF k = 0 THEN 0 ELSE f[k - 1] + add(k)
    BY <1>4, <1>5
  <2> QED BY <2>1
<1>7. Is(low)
  BY <1>6
<1> HIDE DEF low
<1>8. low[0] = 0 /\ \A k \in 1 .. n : low[k] = low[k - 1] + add(k)
  BY <1>7
<1> DEFINE G == {k \in 0 .. n : low[k] = Number(s, k, v)}
<1>9. 0 \in G /\ \A k \in 1 .. n : k - 1 \in G => k \in G
  BY <1>4, <1>5, <1>8
<1> HIDE DEF G
<1>10. 0 .. n \subseteq G
  BY <1>9, UpTo
<1> QED BY <1>1, <1>10 DEF G

LEMMA NumberLow ==
  ASSUME NEW m \in Nat, NEW n \in Nat, n <= m, NEW s, NEW v
  PROVE  Number(s, m, v) % Power(n) = Number(s, n, v)
<1> DEFINE d == m - n
           t == [i \in Bits(d) |-> s[n + i]]
           a == Number(s, n, v)
           b == Number(t, d, v)
           p == Power(n)
<1>1. d \in Nat /\ n + d = m
  OBVIOUS
<1>2. Above(t, s, n, d, v)
  BY DEF Above
<1> HIDE DEF t, d
<1>3. Number(s, n + d, v) = a + p * b
  BY <1>1, <1>2, NumberSplit
<1>4. a \in Nat /\ a < p
  BY NumberBound
<1>5. b \in Nat
  BY <1>1, NumberBound
<1>6. p \in Nat \ {0}
  BY PowerFacts
<1> HIDE DEF a, b, p
<1>7. (a + p * b) % p = a % p
  <2>1. a \in Int /\ b \in Int
    BY <1>4, <1>5
  <2> QED BY <1>6, <2>1, ModShift
<1>8. a % p = a
  BY <1>4, <1>6, ModSmall
<1>9. Number(s, m, v) = a + p * b
  BY <1>1, <1>3
<1> QED BY <1>7, <1>8, <1>9 DEF a, p

\* The vector of n bits made of a whole word.
LEMMA WholeWordValue ==
  ASSUME NEW n \in Nat \ {0}, n <= WORD_BITS, NEW s, AllConst(s, WORD_BITS), NEW v \in Valuation
  PROVE  Value(Concrete(n, ConWord(s, WORD_BITS)), v) = Number(s, n, v)
<1>1. WORD_BITS \in Nat
  BY WordsType
<1>2. ConWord(s, WORD_BITS) = Number(s, WORD_BITS, v)
  BY <1>1, ConNumber
<1>3. Number(s, WORD_BITS, v) \in Int
  BY <1>1, NumberBound
<1>4. Value(Concrete(n, ConWord(s, WORD_BITS)), v) = ConWord(s, WORD_BITS) % Power(n)
  BY <1>2, <1>3, ConcreteValue
<1>5. n \in Nat
  OBVIOUS
<1> QED BY <1>1, <1>2, <1>4, <1>5, NumberLow

\* vec_and is conjunction bit by bit, of words with all their bits.
THEOREM AndValue ==
  ASSUME NEW n, NEW x, NEW y, Sized(x, n), Sized(y, n), NEW v \in Valuation
  PROVE  Value(vec_and(x, y), v) = AND(Value(x, v), Value(y, v), n)
<1> DEFINE X == Lits(x)
           Y == Lits(y)
           s == [i \in Bits(n) |-> HashAnd(X[i], Y[i])]
           t == [i \in Bits(WORD_BITS) |-> HashAnd(BitLit(x.conWord, i), BitLit(y.conWord, i))]
           a == Number(X, n, v)
           b == Number(Y, n, v)
<1>1. /\ n \in Nat \ {0} /\ n \in Nat /\ x.size = n /\ y.size = n
      /\ Value(x, v) = a /\ Value(y, v) = b
      /\ HasBits(X, n) /\ HasBits(Y, n)
      /\ ~x.isSymbolic => n <= WORD_BITS
      /\ x.isSymbolic \in BOOLEAN /\ y.isSymbolic \in BOOLEAN
  BY OperandValues, SizedFacts
<1>2. \A i \in Bits(n) : X[i] \in Literal /\ Y[i] \in Literal
  BY <1>1 DEF HasBits
<1>3. \A i \in Bits(n) :
        Bit(s[i], v) = ((a \div 2^i) % 2) * ((b \div 2^i) % 2)
  <2> TAKE i \in Bits(n)
  <2>1. (a \div 2^i) % 2 = Bit(X[i], v) /\ (b \div 2^i) % 2 = Bit(Y[i], v)
    BY <1>1, BitOfNumber
  <2>2. Bit(s[i], v) = Bit(X[i], v) * Bit(Y[i], v)
    BY DEF Bit, HashAnd
  <2> QED BY <2>1, <2>2
<1>4. s \in LitVec(n)
  BY <1>2, LiteralType DEF LitVec
<1> HIDE DEF a, b
<1>5. AND(a, b, n) = Number(s, n, v)
  <2> HIDE DEF s
  <2> QED BY <1>1, <1>3, AndNumber
<1>6. CASE ~x.isSymbolic /\ ~y.isSymbolic
  <2>1. n <= WORD_BITS /\ WORD_BITS \in Nat
    BY <1>1, <1>6, WordsType
  <2>2. vec_and(x, y) = Concrete(n, ConWord(t, WORD_BITS))
    BY <1>1, <1>6 DEF vec_and, Bitwise
  <2>3. \A i \in Bits(n) : i \in Bits(WORD_BITS) /\ X[i] = BitLit(x.conWord, i) /\ Y[i] = BitLit(y.conWord, i)
    BY <1>1, <1>6, <2>1 DEF Lits, Bits
  <2>4. \A i \in Bits(n) : Bit(t[i], v) = Bit(s[i], v)
    BY <2>3
  <2>5. AllConst(t, WORD_BITS)
    <3> SUFFICES ASSUME NEW i \in Bits(WORD_BITS) PROVE IsConst(t[i])
      BY DEF AllConst
    <3>1. t[i] = HashAnd(BitLit(x.conWord, i), BitLit(y.conWord, i))
      OBVIOUS
    <3>2. /\ BitLit(x.conWord, i) \in {Const0, Const1}
          /\ BitLit(y.conWord, i) \in {Const0, Const1}
      BY DEF BitLit
    <3> QED BY <3>1, <3>2 DEF HashAnd, IsConst, Const0, Const1
  <2> HIDE DEF t, s
  <2>6. Number(t, n, v) = Number(s, n, v)
    BY <1>1, <2>4, NumberSame
  <2>7. Value(Concrete(n, ConWord(t, WORD_BITS)), v) = Number(t, n, v)
    BY <1>1, <2>1, <2>5, WholeWordValue
  <2> QED BY <1>1, <1>5, <2>2, <2>6, <2>7
<1>7. CASE ~(~x.isSymbolic /\ ~y.isSymbolic)
  <2>1. vec_and(x, y) = Folded(n, s)
    BY <1>1, <1>7 DEF vec_and, Bitwise
  <2> HIDE DEF s
  <2>2. Value(Folded(n, s), v) = Number(s, n, v)
    BY <1>1, <1>4, FoldedValue
  <2> QED BY <1>1, <1>5, <2>1, <2>2
<1> QED BY <1>6, <1>7

\* vec_or is disjunction bit by bit, of words with all their bits.
THEOREM OrValue ==
  ASSUME NEW n, NEW x, NEW y, Sized(x, n), Sized(y, n), NEW v \in Valuation
  PROVE  Value(vec_or(x, y), v) = OR(Value(x, v), Value(y, v), n)
<1> DEFINE X == Lits(x)
           Y == Lits(y)
           s == [i \in Bits(n) |-> HashOr(X[i], Y[i])]
           t == [i \in Bits(WORD_BITS) |-> HashOr(BitLit(x.conWord, i), BitLit(y.conWord, i))]
           a == Number(X, n, v)
           b == Number(Y, n, v)
<1>1. /\ n \in Nat \ {0} /\ n \in Nat /\ x.size = n /\ y.size = n
      /\ Value(x, v) = a /\ Value(y, v) = b
      /\ HasBits(X, n) /\ HasBits(Y, n)
      /\ ~x.isSymbolic => n <= WORD_BITS
      /\ x.isSymbolic \in BOOLEAN /\ y.isSymbolic \in BOOLEAN
  BY OperandValues, SizedFacts
<1>2. \A i \in Bits(n) : X[i] \in Literal /\ Y[i] \in Literal
  BY <1>1 DEF HasBits
<1>3. \A i \in Bits(n) :
        Bit(s[i], v) = ((a \div 2^i) % 2) + ((b \div 2^i) % 2) - ((a \div 2^i) % 2) * ((b \div 2^i) % 2)
  <2> TAKE i \in Bits(n)
  <2>1. (a \div 2^i) % 2 = Bit(X[i], v) /\ (b \div 2^i) % 2 = Bit(Y[i], v)
    BY <1>1, BitOfNumber
  <2>2. Bit(s[i], v) = Bit(X[i], v) + Bit(Y[i], v) - Bit(X[i], v) * Bit(Y[i], v)
    BY DEF Bit, HashOr
  <2> QED BY <2>1, <2>2
<1>4. s \in LitVec(n)
  BY <1>2, LiteralType DEF LitVec
<1> HIDE DEF a, b
<1>5. OR(a, b, n) = Number(s, n, v)
  <2> HIDE DEF s
  <2> QED BY <1>1, <1>3, OrNumber
<1>6. CASE ~x.isSymbolic /\ ~y.isSymbolic
  <2>1. n <= WORD_BITS /\ WORD_BITS \in Nat
    BY <1>1, <1>6, WordsType
  <2>2. vec_or(x, y) = Concrete(n, ConWord(t, WORD_BITS))
    BY <1>1, <1>6 DEF vec_or, Bitwise
  <2>3. \A i \in Bits(n) : i \in Bits(WORD_BITS) /\ X[i] = BitLit(x.conWord, i) /\ Y[i] = BitLit(y.conWord, i)
    BY <1>1, <1>6, <2>1 DEF Lits, Bits
  <2>4. \A i \in Bits(n) : Bit(t[i], v) = Bit(s[i], v)
    BY <2>3
  <2>5. AllConst(t, WORD_BITS)
    <3> SUFFICES ASSUME NEW i \in Bits(WORD_BITS) PROVE IsConst(t[i])
      BY DEF AllConst
    <3>1. t[i] = HashOr(BitLit(x.conWord, i), BitLit(y.conWord, i))
      OBVIOUS
    <3>2. /\ BitLit(x.conWord, i) \in {Const0, Const1}
          /\ BitLit(y.conWord, i) \in {Const0, Const1}
      BY DEF BitLit
    <3> QED BY <3>1, <3>2 DEF HashOr, IsConst, Const0, Const1
  <2> HIDE DEF t, s
  <2>6. Number(t, n, v) = Number(s, n, v)
    BY <1>1, <2>4, NumberSame
  <2>7. Value(Concrete(n, ConWord(t, WORD_BITS)), v) = Number(t, n, v)
    BY <1>1, <2>1, <2>5, WholeWordValue
  <2> QED BY <1>1, <1>5, <2>2, <2>6, <2>7
<1>7. CASE ~(~x.isSymbolic /\ ~y.isSymbolic)
  <2>1. vec_or(x, y) = Folded(n, s)
    BY <1>1, <1>7 DEF vec_or, Bitwise
  <2> HIDE DEF s
  <2>2. Value(Folded(n, s), v) = Number(s, n, v)
    BY <1>1, <1>4, FoldedValue
  <2> QED BY <1>1, <1>5, <2>1, <2>2
<1> QED BY <1>6, <1>7

\* vec_xor is exclusive disjunction bit by bit, of words with all their bits.
THEOREM XorValue ==
  ASSUME NEW n, NEW x, NEW y, Sized(x, n), Sized(y, n), NEW v \in Valuation
  PROVE  Value(vec_xor(x, y), v) = XOR(Value(x, v), Value(y, v), n)
<1> DEFINE X == Lits(x)
           Y == Lits(y)
           s == [i \in Bits(n) |-> HashXor(X[i], Y[i])]
           t == [i \in Bits(WORD_BITS) |-> HashXor(BitLit(x.conWord, i), BitLit(y.conWord, i))]
           a == Number(X, n, v)
           b == Number(Y, n, v)
<1>1. /\ n \in Nat \ {0} /\ n \in Nat /\ x.size = n /\ y.size = n
      /\ Value(x, v) = a /\ Value(y, v) = b
      /\ HasBits(X, n) /\ HasBits(Y, n)
      /\ ~x.isSymbolic => n <= WORD_BITS
      /\ x.isSymbolic \in BOOLEAN /\ y.isSymbolic \in BOOLEAN
  BY OperandValues, SizedFacts
<1>2. \A i \in Bits(n) : X[i] \in Literal /\ Y[i] \in Literal
  BY <1>1 DEF HasBits
<1>3. \A i \in Bits(n) :
        Bit(s[i], v) = (((a \div 2^i) % 2) + ((b \div 2^i) % 2)) % 2
  <2> TAKE i \in Bits(n)
  <2>1. (a \div 2^i) % 2 = Bit(X[i], v) /\ (b \div 2^i) % 2 = Bit(Y[i], v)
    BY <1>1, BitOfNumber
  <2>2. Bit(s[i], v) = (Bit(X[i], v) + Bit(Y[i], v)) % 2
    BY DEF Bit, HashXor
  <2> QED BY <2>1, <2>2
<1>4. s \in LitVec(n)
  BY <1>2, LiteralType DEF LitVec
<1> HIDE DEF a, b
<1>5. XOR(a, b, n) = Number(s, n, v)
  <2> HIDE DEF s
  <2> QED BY <1>1, <1>3, XorNumber
<1>6. CASE ~x.isSymbolic /\ ~y.isSymbolic
  <2>1. n <= WORD_BITS /\ WORD_BITS \in Nat
    BY <1>1, <1>6, WordsType
  <2>2. vec_xor(x, y) = Concrete(n, ConWord(t, WORD_BITS))
    BY <1>1, <1>6 DEF vec_xor, Bitwise
  <2>3. \A i \in Bits(n) : i \in Bits(WORD_BITS) /\ X[i] = BitLit(x.conWord, i) /\ Y[i] = BitLit(y.conWord, i)
    BY <1>1, <1>6, <2>1 DEF Lits, Bits
  <2>4. \A i \in Bits(n) : Bit(t[i], v) = Bit(s[i], v)
    BY <2>3
  <2>5. AllConst(t, WORD_BITS)
    <3> SUFFICES ASSUME NEW i \in Bits(WORD_BITS) PROVE IsConst(t[i])
      BY DEF AllConst
    <3>1. t[i] = HashXor(BitLit(x.conWord, i), BitLit(y.conWord, i))
      OBVIOUS
    <3>2. /\ BitLit(x.conWord, i) \in {Const0, Const1}
          /\ BitLit(y.conWord, i) \in {Const0, Const1}
      BY DEF BitLit
    <3> QED BY <3>1, <3>2 DEF HashXor, IsConst, Const0, Const1
  <2> HIDE DEF t, s
  <2>6. Number(t, n, v) = Number(s, n, v)
    BY <1>1, <2>4, NumberSame
  <2>7. Value(Concrete(n, ConWord(t, WORD_BITS)), v) = Number(t, n, v)
    BY <1>1, <2>1, <2>5, WholeWordValue
  <2> QED BY <1>1, <1>5, <2>2, <2>6, <2>7
<1>7. CASE ~(~x.isSymbolic /\ ~y.isSymbolic)
  <2>1. vec_xor(x, y) = Folded(n, s)
    BY <1>1, <1>7 DEF vec_xor, Bitwise
  <2> HIDE DEF s
  <2>2. Value(Folded(n, s), v) = Number(s, n, v)
    BY <1>1, <1>4, FoldedValue
  <2> QED BY <1>1, <1>5, <2>1, <2>2
<1> QED BY <1>6, <1>7

(***************************************************************************)
(* Bits and bytes in the other order.                                      *)
(***************************************************************************)
Reversed(X, k) == [i \in Bits(k) |-> X[(k - 1) - i]]

LEMMA ReversedStep ==
  ASSUME NEW k \in Nat \ {0}, NEW X, NEW v
  PROVE  Number(Reversed(X, k), k, v) = 2 * Number(Reversed(X, k - 1), k - 1, v) + Bit(X[k - 1], v)
<1> DEFINE s == Reversed(X, k)
           t == Reversed(X, k - 1)
           m == 1
           j == k - 1
<1>1. j \in Nat /\ m \in Nat /\ m + j = k /\ 0 \in Nat /\ m = 0 + 1
  OBVIOUS
<1>2. Above(t, s, m, j, v)
  <2> SUFFICES ASSUME NEW i \in Bits(j) PROVE Bit(t[i], v) = Bit(s[m + i], v)
    BY DEF Above
  <2>1. i \in Bits(k - 1) /\ m + i \in Bits(k) /\ (k - 1) - (m + i) = (k - 1 - 1) - i
    BY DEF Bits
  <2> QED BY <2>1 DEF Reversed
<1>3. s[0] = X[k - 1]
  BY DEF Bits, Reversed
<1> HIDE DEF s, t, m
<1>4. Number(s, m + j, v) = Number(s, m, v) + Power(m) * Number(t, j, v)
  BY <1>1, <1>2, NumberSplit
<1>5. Number(s, 0, v) = 0 /\ Number(s, 0 + 1, v) = Number(s, 0, v) + Power(0) * Bit(s[0], v)
  BY <1>1, NumberStep
<1>6. Power(0) = 1 /\ Power(0 + 1) = 2 * Power(0)
  BY <1>1, PowerFacts
<1>7. Bit(s[0], v) \in Nat
  BY BitType
<1>8. Number(s, m, v) = Bit(s[0], v) /\ Power(m) = 2
  BY <1>1, <1>5, <1>6, <1>7
<1>9. Number(t, j, v) \in Nat
  BY <1>1, NumberBound
<1> QED BY <1>1, <1>3, <1>4, <1>7, <1>8, <1>9 DEF s, t

LEMMA ReverseNumber ==
  ASSUME NEW n \in Nat, NEW X, NEW v
  PROVE  REVERSE(Number(X, n, v), n) = Number(Reversed(X, n), n, v)
<1> DEFINE a == Number(X, n, v)
           bit(k) == (a \div 2^(k - 1)) % 2
           Is(f) == f = [k \in 0 .. n |-> IF k = 0 THEN 0 ELSE 2 * f[k - 1] + bit(k)]
           low == CHOOSE f : Is(f)
           num(k) == Number(Reversed(X, k), k, v)
<1>1. REVERSE(a, n) = low[n]
  BY DEF REVERSE
<1>2. \A k \in 1 .. n : bit(k) = Bit(X[k - 1], v)
  <2> TAKE k \in 1 .. n
  <2>1. k - 1 \in Bits(n)
    BY DEF Bits
  <2> QED BY <2>1, BitOfNumber
<1>3. \A k \in 1 .. n : num(k) = 2 * num(k - 1) + Bit(X[k - 1], v)
  <2> TAKE k \in 1 .. n
  <2>1. k \in Nat \ {0}
    OBVIOUS
  <2> QED BY <2>1, ReversedStep
<1>4. num(0) = 0
  BY NumberStep
<1> HIDE DEF num, bit
<1>5. Is([k \in 0 .. n |-> num(k)])
  <2> DEFINE f == [k \in 0 .. n |-> num(k)]
  <2>1. \A k \in 0 .. n : f[k] = IF k = 0 THEN 0 ELSE 2 * f[k - 1] + bit(k)
    BY <1>2, <1>3, <1>4
  <2> QED BY <2>1
<1>6. Is(low)
  BY <1>5
<1> HIDE DEF low
<1>7. low[0] = 0 /\ \A k \in 1 .. n : low[k] = 2 * low[k - 1] + bit(k)
  BY <1>6
<1> DEFINE G == {k \in 0 .. n : low[k] = num(k)}
<1>8. 0 \in G /\ \A k \in 1 .. n : k - 1 \in G => k \in G
  BY <1>2, <1>3, <1>4, <1>7
<1> HIDE DEF G
<1>9. 0 .. n \subseteq G
  BY <1>8, UpTo
<1> QED BY <1>1, <1>9 DEF G, num

\* vec_reverse puts the last bit first.
THEOREM ReverseValue ==
  ASSUME NEW n, NEW x, Sized(x, n), NEW v \in Valuation
  PROVE  Value(vec_reverse(x), v) = REVERSE(Value(x, v), n)
<1> DEFINE X == Lits(x)
           s == Reversed(X, n)
<1>1. /\ n \in Nat \ {0} /\ n \in Nat /\ x.size = n /\ X \in LitVec(n)
      /\ Value(x, v) = Number(X, n, v)
      /\ ~x.isSymbolic => n <= WORD_BITS
  BY SizedFacts, LitsNumber
<1>2. s = [i \in Bits(n) |-> X[(n - 1) - i]]
  BY DEF Reversed
<1>3. \A i \in Bits(n) : (n - 1) - i \in Bits(n) /\ s[i] = X[(n - 1) - i]
  BY <1>1, <1>2 DEF Bits
<1>4. REVERSE(Value(x, v), n) = Number(s, n, v)
  BY <1>1, ReverseNumber
<1>5. CASE x.isSymbolic
  <2>1. vec_reverse(x) = Symbolic(n, s)
    BY <1>1, <1>2, <1>5 DEF vec_reverse
  <2>2. s \in LitVec(n)
    BY <1>1, <1>2, <1>3 DEF LitVec
  <2> HIDE DEF s
  <2>3. Value(Symbolic(n, s), v) = Number(s, n, v)
    BY <1>1, <2>2, SymbolicValue
  <2> QED BY <1>4, <2>1, <2>3
<1>6. CASE ~x.isSymbolic
  <2>1. vec_reverse(x) = Concrete(n, ConWord(s, n))
    BY <1>1, <1>2, <1>6 DEF vec_reverse
  <2>2. AllConst(s, n)
    <3> SUFFICES ASSUME NEW i \in Bits(n) PROVE IsConst(s[i])
      BY DEF AllConst
    <3>1. s[i] = BitLit(x.conWord, (n - 1) - i)
      BY <1>1, <1>3, <1>6 DEF Lits
    <3> QED BY <3>1 DEF BitLit, IsConst
  <2> HIDE DEF s
  <2>3. Value(Concrete(n, ConWord(s, n)), v) = Number(s, n, v)
    BY <1>1, <1>6, <2>2, ConWordValue
  <2> QED BY <1>4, <2>1, <2>3
<1> QED BY <1>5, <1>6

\* The bits of a vector that may have been made a word.
LEMMA FoldedBits ==
  ASSUME NEW n \in Nat \ {0}, NEW s \in LitVec(n), NEW v \in Valuation
  PROVE  \A i \in Bits(n) : Bit(Lits(Folded(n, s))[i], v) = Bit(s[i], v)
<1> DEFINE x == Folded(n, s)
<1>1. Sized(x, n)
  BY FoldedType
<1>2. Value(x, v) = Number(s, n, v)
  BY FoldedValue
<1> HIDE DEF x
<1>3. Number(Lits(x), n, v) = Number(s, n, v)
  BY <1>1, <1>2, LitsNumber
<1> QED BY <1>3, NumberSame DEF x

\* The literals of k bytes of m bits, the last byte first.
SwapBits(X, m, k) == [i \in Bits(k * m) |-> X[((k - 1) - i \div m) * m + (i % m)]]

LEMMA SwapStep ==
  ASSUME NEW m \in Nat \ {0}, NEW k \in Nat \ {0}, NEW X, NEW v
  PROVE  Number(SwapBits(X, m, k), k * m, v)
           = Number(SwapBits(X, m, k - 1), (k - 1) * m, v) * Power(m)
               + Number([i \in Bits(m) |-> X[(k - 1) * m + i]], m, v)
<1> DEFINE s == SwapBits(X, m, k)
           t == SwapBits(X, m, k - 1)
           u == [i \in Bits(m) |-> X[(k - 1) * m + i]]
           j == (k - 1) * m
<1>1. j \in Nat /\ m \in Nat /\ m + j = k * m
  OBVIOUS
<1>2. \A i \in Nat : i < m => i \div m = 0 /\ i % m = i
  OBVIOUS
<1>3. ASSUME NEW i \in Nat
      PROVE  (m + i) \div m = (i \div m) + 1 /\ (m + i) % m = i % m
  <2> DEFINE q == i \div m
             r == i % m
  <2>1. q \in Int /\ r \in Nat /\ r < m /\ i = m * q + r
    BY DivMod
  <2> HIDE DEF q, r
  <2>2. m + i = m * (q + 1) + r /\ q + 1 \in Int /\ m + i \in Int
    BY <2>1
  <2>3. (m + i) % m = r /\ (m + i) \div m = q + 1
    BY <2>1, <2>2, ModUnique
  <2> QED BY <2>3 DEF q, r
<1>4. Above(t, s, m, j, v)
  <2> SUFFICES ASSUME NEW i \in Bits(j) PROVE t[i] = s[m + i]
    BY DEF Above
  <2>1. i \in Nat /\ i < j /\ m + i \in Nat /\ m + i < k * m
    BY <1>1 DEF Bits
  <2>2. m + i \in Bits(k * m)
    <3>1. k * m \in Nat
      OBVIOUS
    <3> DEFINE km == k * m
    <3> HIDE DEF km
    <3> QED BY <2>1, <3>1 DEF Bits, km
  <2>3. s[m + i] = X[((k - 1) - ((m + i) \div m)) * m + ((m + i) % m)]
    BY <2>2 DEF SwapBits
  <2>4. t[i] = X[((k - 1 - 1) - (i \div m)) * m + (i % m)]
    BY DEF SwapBits
  <2>5. (k - 1) - ((i \div m) + 1) = (k - 1 - 1) - (i \div m)
    <3>1. i \div m \in Int
      BY <2>1, DivMod
    <3> QED BY <3>1
  <2> QED BY <1>3, <2>1, <2>3, <2>4, <2>5
<1>5. \A i \in Bits(m) : s[i] = u[i]
  <2> TAKE i \in Bits(m)
  <2>1. i \in Nat /\ i < m
    BY DEF Bits
  <2>2. i \in Bits(k * m)
    <3> DEFINE km == k * m
    <3>1. km \in Nat /\ m <= km
      BY <1>1
    <3> HIDE DEF km
    <3> QED BY <2>1, <3>1 DEF Bits, km
  <2>3. s[i] = X[((k - 1) - (i \div m)) * m + (i % m)]
    BY <2>2 DEF SwapBits
  <2>4. i \div m = 0 /\ i % m = i
    BY <1>2, <2>1
  <2>5. (k - 1) - 0 = k - 1
    OBVIOUS
  <2> QED BY <2>3, <2>4, <2>5
<1> HIDE DEF s, t, u
<1>6. Number(s, m + j, v) = Number(s, m, v) + Power(m) * Number(t, j, v)
  <2> HIDE DEF j
  <2> QED BY <1>1, <1>4, NumberSplit
<1>7. Number(s, m, v) = Number(u, m, v)
  BY <1>5, NumberSame
<1>8. Number(u, m, v) \in Nat /\ Number(t, j, v) \in Nat /\ Power(m) \in Nat
  <2> HIDE DEF j
  <2> QED BY <1>1, NumberBound, PowerFacts
<1>9. Number(s, m + j, v) = Number(t, j, v) * Power(m) + Number(u, m, v)
  <2> DEFINE a == Number(u, m, v)
             b == Number(t, j, v)
             p == Power(m)
  <2>1. Number(s, m + j, v) = a + p * b /\ a \in Nat /\ b \in Nat /\ p \in Nat
    BY <1>6, <1>7, <1>8
  <2> HIDE DEF a, b, p
  <2> QED BY <2>1 DEF a, b, p
<1> QED BY <1>1, <1>9 DEF s, t, u

LEMMA SwapNumber ==
  ASSUME NEW n \in Nat, NEW m \in Nat \ {0}, NEW k \in Nat, n = k * m, NEW X, NEW v
  PROVE  SWAP(Number(X, n, v), k, m) = Number(SwapBits(X, m, k), n, v)
<1> DEFINE a == Number(X, n, v)
           part(j) == PIECE(a, (j - 1) * m, m)
           Is(f) == f = [j \in 0 .. k |-> IF j = 0 THEN 0 ELSE f[j - 1] * 2^m + part(j)]
           low == CHOOSE f : Is(f)
           num(j) == Number(SwapBits(X, m, j), j * m, v)
<1>1. SWAP(a, k, m) = low[k]
  BY DEF SWAP
<1>2. \A j \in 1 .. k : part(j) = Number([i \in Bits(m) |-> X[(j - 1) * m + i]], m, v)
  <2> TAKE j \in 1 .. k
  <2> DEFINE d == (j - 1) * m
             t == [i \in Bits(m) |-> X[d + i]]
  <2>1. d \in Nat /\ d + m <= n
    <3>1. j - 1 \in Nat /\ j <= k /\ j \in Nat
      OBVIOUS
    <3>2. j * m <= k * m /\ d + m = j * m
      BY <3>1
    <3> QED BY <3>1, <3>2
  <2> HIDE DEF d
  <2>2. \A i \in Bits(m) : Bit(t[i], v) = IF d + i < n THEN Bit(X[d + i], v) ELSE 0
    BY <2>1 DEF Bits
  <2>3. part(j) = (a \div Power(d)) % Power(m)
    BY DEF PIECE, Wrap, Power, d
  <2> HIDE DEF t, part
  <2>4. m \in Nat
    OBVIOUS
  <2>5. Number(t, m, v) = (Number(X, n, v) \div Power(d)) % Power(m)
    BY <2>1, <2>2, <2>4, PieceNumber
  <2> QED BY <2>3, <2>5 DEF t, d
<1>3. \A j \in 1 .. k : num(j) = num(j - 1) * 2^m + part(j)
  <2> TAKE j \in 1 .. k
  <2>1. j \in Nat \ {0}
    OBVIOUS
  <2> HIDE DEF part
  <2>2. num(j) = num(j - 1) * Power(m) + Number([i \in Bits(m) |-> X[(j - 1) * m + i]], m, v)
    BY <2>1, SwapStep
  <2> QED BY <1>2, <2>2 DEF Power
<1>4. num(0) = 0
  <2>1. 0 * m = 0 /\ 0 \in Nat
    OBVIOUS
  <2>2. num(0) = Number(SwapBits(X, m, 0), 0, v)
    BY <2>1
  <2> HIDE DEF num
  <2> QED BY <2>1, <2>2, NumberStep
<1> HIDE DEF num, part
<1>5. Is([j \in 0 .. k |-> num(j)])
  <2> DEFINE f == [j \in 0 .. k |-> num(j)]
  <2>1. \A j \in 0 .. k : f[j] = IF j = 0 THEN 0 ELSE f[j - 1] * 2^m + part(j)
    BY <1>3, <1>4
  <2> QED BY <2>1
<1>6. Is(low)
  BY <1>5
<1> HIDE DEF low
<1>7. low[0] = 0 /\ \A j \in 1 .. k : low[j] = low[j - 1] * 2^m + part(j)
  BY <1>6
<1> DEFINE G == {j \in 0 .. k : low[j] = num(j)}
<1>8. 0 \in G /\ \A j \in 1 .. k : j - 1 \in G => j \in G
  BY <1>3, <1>4, <1>7
<1> HIDE DEF G
<1>9. 0 .. k \subseteq G
  BY <1>8, UpTo
<1> QED BY <1>1, <1>9 DEF G, num

\* Splitting a vector into bytes and joining them the other way round swaps
\* the bytes of the number.
THEOREM SwapValue ==
  ASSUME NEW n, NEW x, Sized(x, n), n % BITS_IN_BYTE = 0, NEW v \in Valuation
  PROVE  Value(Swapped(x), v) = SWAP(Value(x, v), n \div BITS_IN_BYTE, BITS_IN_BYTE)
<1> DEFINE b     == BITS_IN_BYTE
           k     == n \div b
           X     == Lits(x)
           bytes == vec_splitIntoNewArray(x, k)
           other == [j \in Bits(k) |-> bytes[(k - 1) - j]]
           s     == [i \in Bits(n) |-> Lits(other[i \div b])[i % b]]
           t     == SwapBits(X, b, k)
<1>1. /\ n \in Nat \ {0} /\ n \in Nat /\ x.size = n /\ X \in LitVec(n) /\ b \in Nat \ {0}
      /\ Value(x, v) = Number(X, n, v)
  BY SizedFacts, WordsType, LitsNumber
<1>2. k \in Nat \ {0} /\ n = k * b /\ n \div k = b
  <2>1. k \in Nat /\ n = k * b
    <3> HIDE DEF b
    <3> QED BY <1>1 DEF b
  <2>2. k # 0
    BY <1>1, <2>1
  <2>3. \A p, q \in Nat \ {0} : (p * q) \div p = q
    OBVIOUS
  <2> HIDE DEF k, b
  <2> QED BY <1>1, <2>1, <2>2, <2>3
<1> HIDE DEF k, b
<1>3. ASSUME NEW j \in Bits(k)
      PROVE  /\ Sized(bytes[j], b)
             /\ \A i \in Bits(b) : Bit(Lits(bytes[j])[i], v) = Bit(X[j * b + i], v)
  <2> DEFINE u == [i \in Bits(b) |-> X[j * b + i]]
  <2>1. u \in LitVec(b)
    <3>1. ASSUME NEW i \in Bits(b) PROVE j * b + i \in Bits(n)
      <4>1. j \in Nat /\ i \in Nat /\ i < b /\ j + 1 <= k
        BY <1>1, <1>2 DEF Bits
      <4>2. (j + 1) * b <= k * b /\ (j + 1) * b = j * b + b
        BY <1>1, <1>2, <4>1
      <4>3. j * b \in Nat
        BY <1>1, <4>1
      <4>4. j * b + i < n
        BY <1>1, <1>2, <4>1, <4>2, <4>3
      <4> QED BY <4>1, <4>3, <4>4, <1>1 DEF Bits
    <3> QED BY <1>1, <3>1 DEF LitVec
  <2>2. bytes[j] = Folded(b, u)
    <3>1. bytes[j] = Folded(n \div k, [i \in Bits(n \div k) |-> X[j * (n \div k) + i]])
      BY <1>1 DEF vec_splitIntoNewArray
    <3> HIDE DEF bytes, X
    <3> QED BY <1>2, <3>1
  <2>3. \A i \in Bits(b) : u[i] = X[j * b + i]
    OBVIOUS
  <2> HIDE DEF u
  <2> QED BY <1>1, <2>1, <2>2, <2>3, FoldedType, FoldedBits
<1> HIDE DEF bytes
<1>4. ASSUME NEW j \in Bits(k)
      PROVE  /\ Sized(other[j], b)
             /\ \A i \in Bits(b) : Bit(Lits(other[j])[i], v) = Bit(X[((k - 1) - j) * b + i], v)
  <2>1. (k - 1) - j \in Bits(k)
    BY <1>2 DEF Bits
  <2> QED BY <1>3, <2>1
<1>5. ASSUME NEW i \in Bits(n)
      PROVE  /\ Lits(other[i \div b])[i % b] \in Literal
             /\ Bit(s[i], v) = Bit(t[i], v)
  <2> HIDE DEF other
  <2>1. i \in Nat /\ i < k * b
    BY <1>1, <1>2 DEF Bits
  <2>2. i \div b \in Bits(k) /\ i % b \in Bits(b)
    <3>1. i \div b \in Nat /\ i % b \in 0 .. b - 1 /\ i = b * (i \div b) + (i % b)
      BY <1>1, <2>1
    <3>2. i \div b < k
      <4> DEFINE q == i \div b
      <4>1. q \in Nat /\ b * q <= i
        BY <1>1, <3>1
      <4> HIDE DEF q
      <4>2. q >= k => b * q >= k * b
        BY <1>1, <1>2, <4>1
      <4>3. q < k
        BY <1>1, <1>2, <2>1, <4>1, <4>2
      <4> QED BY <4>3 DEF q
    <3> QED BY <1>2, <3>1, <3>2 DEF Bits
  <2>3. Lits(other[i \div b]) \in LitVec(b)
    BY <1>4, <2>2, SizedFacts
  <2>4. t[i] = X[((k - 1) - i \div b) * b + (i % b)]
    BY <1>2 DEF SwapBits
  <2>5. Bit(Lits(other[i \div b])[i % b], v) = Bit(X[((k - 1) - i \div b) * b + (i % b)], v)
    BY <1>4, <2>2
  <2> QED BY <2>2, <2>3, <2>4, <2>5 DEF LitVec
<1>6. Swapped(x) = Folded(n, s)
  <2>1. Swapped(x) = vec_joinArray(other, k)
    BY <1>1 DEF Swapped, bytes, k, b
  <2>2. other[0].size = b
    <3>1. 0 \in Bits(k)
      BY <1>2 DEF Bits
    <3> HIDE DEF other
    <3> QED BY <1>4, <3>1, SizedFacts
  <2> HIDE DEF other
  <2>3. vec_joinArray(other, k) = Folded(k * b, [i \in Bits(k * b) |-> Lits(other[i \div b])[i % b]])
    BY <2>2 DEF vec_joinArray
  <2> QED BY <1>2, <2>1, <2>3
<1>7. s \in LitVec(n)
  BY <1>5 DEF LitVec
<1> HIDE DEF s, t, X, other
<1>8. Value(Folded(n, s), v) = Number(s, n, v)
  BY <1>1, <1>7, FoldedValue
<1>9. Number(s, n, v) = Number(t, n, v)
  BY <1>1, <1>5, NumberSame
<1>10. SWAP(Number(X, n, v), k, b) = Number(SwapBits(X, b, k), n, v)
  BY <1>1, <1>2, SwapNumber
<1> QED BY <1>1, <1>6, <1>8, <1>9, <1>10 DEF t, k, b

(***************************************************************************)
(* Products.                                                               *)
(***************************************************************************)
\* X added from bit at on.
AddedFrom(u, r, X, at, n, v) ==
  \A i \in Bits(n) :
    Bit(u[i], v) = IF i < at THEN Bit(r[i], v)
                   ELSE Bit(SumBits(X, [h \in Bits(n) |-> r[h + at]], n - at)[i - at], v)

LEMMA AddAbove ==
  ASSUME NEW n \in Nat, NEW at \in Bits(n), NEW X \in LitVec(n), NEW r \in LitVec(n), NEW u,
         NEW v \in Valuation, AddedFrom(u, r, X, at, n, v)
  PROVE  Number(u, n, v) = (Number(r, n, v) + Power(at) * Number(X, n, v)) % Power(n)
<1> DEFINE d    == n - at
           rest == [i \in Bits(n) |-> r[i + at]]
           sum  == SumBits(X, rest, d)
           high == [i \in Bits(at) |-> X[d + i]]
           U == Number(u, n, v)
           R == Number(r, n, v)
           A == Number(X, n, v)
           low == Number(r, at, v)
           S == Number(sum, d, v)
           T == Number(rest, d, v)
           B == Number(X, d, v)
           H == Number(high, at, v)
           p == Power(at)
           q == Power(d)
           c == Bit(Carry(X, rest, d)[d], v)
<1>1. at \in Nat /\ at < n /\ d \in Nat /\ at + d = n /\ d + at = n
  BY DEF Bits
<1>2. \A i \in Bits(d) : /\ i \in Bits(n) /\ at + i \in Bits(n) /\ (at + i) - at = i
                         /\ ~(at + i < at) /\ i + at = at + i
  BY <1>1 DEF Bits
<1>3. \A i \in Bits(at) : i \in Bits(n) /\ i < at
  BY <1>1 DEF Bits
<1>4. HasBits(X, d) /\ HasBits(rest, d)
  BY <1>2 DEF HasBits, LitVec
<1>5. U = low + p * S
  <2>1. Above(sum, u, at, d, v)
    BY <1>2 DEF Above, AddedFrom
  <2>2. \A i \in Bits(at) : Bit(u[i], v) = Bit(r[i], v)
    BY <1>3 DEF AddedFrom
  <2> HIDE DEF sum, d
  <2>3. Number(u, at + d, v) = Number(u, at, v) + Power(at) * Number(sum, d, v)
    BY <1>1, <2>1, NumberSplit
  <2>4. Number(u, at, v) = Number(r, at, v)
    BY <1>1, <2>2, NumberSame
  <2> QED BY <1>1, <2>3, <2>4
<1>6. R = low + p * T
  <2>1. Above(rest, r, at, d, v)
    BY <1>2 DEF Above
  <2> HIDE DEF rest, d
  <2>2. Number(r, at + d, v) = Number(r, at, v) + Power(at) * Number(rest, d, v)
    BY <1>1, <2>1, NumberSplit
  <2> QED BY <1>1, <2>2
<1>7. A = B + q * H
  <2>1. Above(high, X, d, at, v)
    BY DEF Above
  <2> HIDE DEF high, d
  <2>2. Number(X, d + at, v) = Number(X, d, v) + Power(d) * Number(high, at, v)
    BY <1>1, <2>1, NumberSplit
  <2> QED BY <1>1, <2>2
<1>8. S + q * c = B + T
  <2> HIDE DEF rest, d
  <2> QED BY <1>1, <1>4, SumNumber DEF sum
<1>9. p \in Nat \ {0} /\ q \in Nat \ {0} /\ Power(n) = p * q /\ Power(n) \in Nat \ {0}
  <2> HIDE DEF d
  <2>1. Power(at + d) = Power(at) * Power(d)
    BY <1>1, PowerFacts
  <2> QED BY <1>1, <2>1, PowerFacts
<1>10. low \in Nat /\ S \in Nat /\ T \in Nat /\ B \in Nat /\ H \in Nat /\ c \in Nat
  <2> HIDE DEF sum, rest, high, d
  <2> QED BY <1>1, NumberBound, BitType
<1>11. U \in Nat /\ U < Power(n)
  BY NumberBound
<1> DEFINE m == Power(n)
           e == c + H
<1> HIDE DEF d, rest, sum, high, U, R, A, low, S, T, B, H, p, q, c
<1>12. R + p * A = U + m * e
  <2>1. p * A = p * B + p * (q * H)
    BY <1>7, <1>9, <1>10
  <2>2. p * (B + T) = p * B + p * T /\ p * (S + q * c) = p * S + p * (q * c)
    BY <1>9, <1>10
  <2>3. p * (q * H) = m * H /\ p * (q * c) = m * c
    BY <1>9, <1>10
  <2>4. m * e = m * c + m * H
    BY <1>9, <1>10
  <2>5. p * B + p * T = p * S + m * c
    BY <1>8, <2>2, <2>3
  <2>6. /\ p * B \in Nat /\ p * T \in Nat /\ p * S \in Nat
        /\ m * c \in Nat /\ m * H \in Nat
    BY <1>9, <1>10
  <2> DEFINE pB == p * B
             pT == p * T
             pS == p * S
             mc == m * c
             mH == m * H
  <2>7. p * A = pB + mH /\ m * e = mc + mH /\ pB + pT = pS + mc /\ U = low + pS /\ R = low + pT
    BY <1>5, <1>6, <2>1, <2>3, <2>4, <2>5
  <2>8. pB \in Nat /\ pT \in Nat /\ pS \in Nat /\ mc \in Nat /\ mH \in Nat
    BY <2>6
  <2> HIDE DEF pB, pT, pS, mc, mH, m, e
  <2> QED BY <1>10, <2>7, <2>8
<1>13. e \in Int /\ m \in Nat \ {0}
  BY <1>9, <1>10
<1> HIDE DEF m, e
<1>14. (U + m * e) % m = U % m
  <2>1. U \in Int
    BY <1>11
  <2> QED BY <1>13, <2>1, ModShift
<1>15. U % m = U
  BY <1>11, <1>13, ModSmall DEF m
<1> QED BY <1>12, <1>14, <1>15 DEF U, R, A, p, m

\* What the loop of vec_mult knows before bit j: tmp is ret while no literal
\* of Y was symbolic.
Multiplied(p, X, Y, j, n, v) ==
  /\ Number(p.ret, n, v) = (Number(X, n, v) * Number(Y, j, v)) % Power(n)
  /\ (\A i \in Bits(j) : IsConst(Y[i])) => p.tmp = p.ret

LEMMA MultiplyStepNumber ==
  ASSUME NEW n \in Nat, NEW X \in LitVec(n), NEW Y \in LitVec(n), NEW j \in 1 .. n,
         NEW p \in Product(n), NEW v \in Valuation,
         \A i, k \in Bits(n) : i < k /\ Y[k] = Const1 => IsConst(Y[i]),
         Multiplied(p, X, Y, j - 1, n, v)
  PROVE  Multiplied(MultiplyStep(X, Y, n, j, p), X, Y, j, n, v)
<1> DEFINE at  == j - 1
           rest == [i \in Bits(n) |-> p.ret[i + at]]
           sum == SumBits(X, rest, n - at)
           tmp == [i \in Bits(n) |-> IF i < at THEN p.tmp[i] ELSE sum[i - at]]
           ret == [i \in Bits(n) |-> IF i < at THEN p.ret[i] ELSE HashMux(Y[at], tmp[i], p.ret[i])]
           new == MultiplyStep(X, Y, n, j, p)
           a == Number(X, n, v)
           b == Number(Y, at, v)
           pn == Power(n)
           pa == Power(at)
<1>1. /\ at \in Bits(n) /\ at \in Nat /\ at + 1 = j /\ n \in Nat
      /\ \A i \in Bits(j) : i \in Bits(at) \/ i = at
      /\ \A i \in Bits(at) : i \in Bits(n) /\ i < at /\ i \in Bits(j)
      /\ at \in Bits(j)
  BY DEF Bits
<1>2. p.ret \in LitVec(n) /\ p.tmp \in LitVec(n) /\ Y[at] \in Literal
  BY <1>1 DEF Product, LitVec
<1>3. /\ Number(p.ret, n, v) = (a * b) % pn
      /\ (\A i \in Bits(at) : IsConst(Y[i])) => p.tmp = p.ret
  BY DEF Multiplied
<1>4. Number(Y, j, v) = b + pa * Bit(Y[at], v)
  <2> HIDE DEF at
  <2> QED BY <1>1, NumberStep
<1>5. a \in Nat /\ b \in Nat /\ pn \in Nat \ {0} /\ pa \in Nat
  <2> HIDE DEF at
  <2> QED BY <1>1, NumberBound, PowerFacts
\* The number with X added.
<1>6. (((a * b) % pn) + pa * a) % pn = (a * (b + pa)) % pn
  <2> DEFINE c == a * b
             d == pa * a
  <2> HIDE DEF a, b, pn, pa
  <2>1. c \in Int /\ d \in Int /\ a * (b + pa) = d + c
    BY <1>5
  <2> HIDE DEF c, d
  <2>2. (d + c) % pn = (d + (c % pn)) % pn
    BY <1>5, <2>1, ModSum
  <2>3. c % pn \in Nat
    BY <1>5, <2>1, DivMod
  <2>4. d + (c % pn) = (c % pn) + d
    BY <2>1, <2>3
  <2> QED BY <2>1, <2>2, <2>4 DEF c, d
<1>7. ASSUME NEW u, AddedFrom(u, p.ret, X, at, n, v)
      PROVE  Number(u, n, v) = (a * (b + pa)) % pn
  <2> HIDE DEF at
  <2>1. Number(u, n, v) = (Number(p.ret, n, v) + pa * a) % pn
    BY <1>1, <1>2, <1>7, AddAbove
  <2> QED BY <1>3, <1>6, <2>1
<1>8. CASE Y[at] = Const0
  <2>1. new = p
    <3>1. Y[at] # Const1 /\ IsConst(Y[at])
      BY <1>8, ConstBits DEF IsConst
    <3> QED BY <1>8, <3>1 DEF MultiplyStep
  <2>2. Bit(Y[at], v) = 0
    BY <1>8, ConstBits
  <2>3. Number(Y, j, v) = b
    BY <1>4, <1>5, <2>2
  <2>4. (\A i \in Bits(j) : IsConst(Y[i])) => p.tmp = p.ret
    BY <1>1, <1>3
  <2> QED BY <1>3, <2>1, <2>3, <2>4 DEF Multiplied
<1>9. CASE Y[at] = Const1
  <2>1. new = [ret |-> tmp, tmp |-> tmp]
    <3>1. Y[at] # Const0 /\ IsConst(Y[at])
      BY <1>9, ConstBits DEF IsConst
    <3> QED BY <1>9, <3>1 DEF MultiplyStep
  <2>2. \A i \in Bits(at) : IsConst(Y[i])
    BY <1>1, <1>9
  <2>3. p.tmp = p.ret
    BY <1>3, <2>2
  <2>4. AddedFrom(tmp, p.ret, X, at, n, v)
    BY <2>3 DEF AddedFrom
  <2> HIDE DEF tmp, sum, at
  <2>5. Number(tmp, n, v) = (a * (b + pa)) % pn
    BY <1>7, <2>4
  <2>6. Bit(Y[at], v) = 1
    BY <1>9, ConstBits
  <2>7. Number(Y, j, v) = b + pa
    BY <1>4, <1>5, <2>6
  <2>8. new.ret = tmp /\ new.tmp = tmp
    BY <2>1
  <2> HIDE DEF new
  <2> QED BY <2>5, <2>7, <2>8 DEF Multiplied, new
<1>10. CASE ~IsConst(Y[at])
  <2>1. new = [ret |-> ret, tmp |-> tmp]
    <3>1. Y[at] # Const0 /\ Y[at] # Const1
      BY <1>10 DEF IsConst
    <3> QED BY <1>10, <3>1 DEF MultiplyStep
  <2>2. ~(\A i \in Bits(j) : IsConst(Y[i]))
    BY <1>1, <1>10
  <2>3. CASE v \in Y[at]
    <3>1. \A i \in Bits(n) : ~(i < at) => Bit(ret[i], v) = Bit(sum[i - at], v)
      BY <2>3 DEF Bit, HashMux
    <3>2. \A i \in Bits(n) : i < at => ret[i] = p.ret[i]
      OBVIOUS
    <3>3. AddedFrom(ret, p.ret, X, at, n, v)
      BY <3>1, <3>2 DEF AddedFrom
    <3> HIDE DEF ret, tmp, sum, at
    <3>4. Number(ret, n, v) = (a * (b + pa)) % pn
      BY <1>7, <3>3
    <3>5. Bit(Y[at], v) = 1
      BY <2>3 DEF Bit
    <3>6. Number(Y, j, v) = b + pa
      BY <1>4, <1>5, <3>5
    <3>7. new.ret = ret
      BY <2>1
    <3> HIDE DEF new
    <3> QED BY <2>2, <3>4, <3>6, <3>7 DEF Multiplied, new
  <2>4. CASE v \notin Y[at]
    <3>1. \A i \in Bits(n) : Bit(ret[i], v) = Bit(p.ret[i], v)
      BY <2>4 DEF Bit, HashMux
    <3>2. Bit(Y[at], v) = 0
      BY <2>4 DEF Bit
    <3> HIDE DEF ret, tmp, sum
    <3>3. Number(ret, n, v) = Number(p.ret, n, v)
      BY <3>1, NumberSame
    <3>4. Number(Y, j, v) = b
      BY <1>4, <1>5, <3>2
    <3>5. new.ret = ret
      BY <2>1
    <3> HIDE DEF new
    <3> QED BY <1>3, <2>2, <3>3, <3>4, <3>5 DEF Multiplied, new
  <2> QED BY <2>3, <2>4
<1> QED BY <1>8, <1>9, <1>10 DEF IsConst

LEMMA MultiplyNumber ==
  ASSUME NEW n \in Nat, NEW X \in LitVec(n), NEW Y \in LitVec(n), NEW v \in Valuation,
         \A i, k \in Bits(n) : i < k /\ Y[k] = Const1 => IsConst(Y[i])
  PROVE  Number(MultiplyBits(X, Y, n), n, v) = MULT(Number(X, n, v), Number(Y, n, v), n)
<1> DEFINE zero == [i \in Bits(n) |-> Const0]
<1>1. PICK after \in [0 .. n -> Product(n)] :
           /\ after[0] = [ret |-> zero, tmp |-> zero]
           /\ \A j \in 1 .. n : after[j] = MultiplyStep(X, Y, n, j, after[j - 1])
           /\ MultiplyBits(X, Y, n) = after[n].ret
  BY MultiplyIs
<1> DEFINE G == {j \in 0 .. n : Multiplied(after[j], X, Y, j, n, v)}
<1>2. 0 \in G
  <2>1. \A i \in Bits(n) : Bit(zero[i], v) = 0
    BY ConstBits
  <2>2. after[0].ret = zero /\ after[0].tmp = zero
    BY <1>1
  <2> HIDE DEF zero
  <2>3. Number(zero, n, v) = 0
    BY <2>1, NumberZero
  <2>4. Number(Y, 0, v) = 0
    BY NumberStep
  <2>5. (Number(X, n, v) * 0) % Power(n) = 0
    <3> DEFINE a == Number(X, n, v)
               m == Power(n)
    <3>1. a \in Nat /\ m \in Nat \ {0}
      BY NumberBound, PowerFacts
    <3> HIDE DEF a, m
    <3>2. (a * 0) % m = 0
      BY <3>1
    <3> QED BY <3>2 DEF a, m
  <2> QED BY <2>2, <2>3, <2>4, <2>5 DEF Multiplied
<1>3. \A j \in 1 .. n : j - 1 \in G => j \in G
  <2> TAKE j \in 1 .. n
  <2> HAVE j - 1 \in G
  <2>1. j - 1 \in 0 .. n /\ after[j - 1] \in Product(n)
    OBVIOUS
  <2>2. Multiplied(after[j - 1], X, Y, j - 1, n, v)
    OBVIOUS
  <2>3. Multiplied(MultiplyStep(X, Y, n, j, after[j - 1]), X, Y, j, n, v)
    BY <2>1, <2>2, MultiplyStepNumber
  <2> QED BY <1>1, <2>3
<1> HIDE DEF G
<1>4. 0 .. n \subseteq G
  BY <1>2, <1>3, UpTo
<1>5. Multiplied(after[n], X, Y, n, n, v)
  BY <1>4 DEF G
<1> QED BY <1>1, <1>5 DEF Multiplied, MULT, Wrap, Power

\* vec_mult is multiplication modulo 2^n, of words or where no symbolic
\* literal of the multiplier is below a constant 1.
THEOREM MultValue ==
  ASSUME NEW n, NEW x, NEW y, Sized(x, n), Sized(y, n), NEW v \in Valuation,
         \/ ~x.isSymbolic /\ ~y.isSymbolic
         \/ \A i, k \in Bits(n) : i < k /\ Lits(y)[k] = Const1 => IsConst(Lits(y)[i])
  PROVE  Value(vec_mult(x, y), v) = MULT(Value(x, v), Value(y, v), n)
<1> DEFINE X == Lits(x)
           Y == Lits(y)
           s == MultiplyBits(X, Y, n)
           a == Value(x, v)
           b == Value(y, v)
<1>1. /\ n \in Nat \ {0} /\ n \in Nat /\ x.size = n /\ y.size = n
      /\ a = Number(X, n, v) /\ b = Number(Y, n, v) /\ a \in Nat /\ b \in Nat
      /\ ~x.isSymbolic => n <= WORD_BITS /\ Zext(x) = a
      /\ ~y.isSymbolic => Zext(y) = b
      /\ X \in LitVec(n) /\ Y \in LitVec(n)
  BY OperandValues, SizedFacts
<1>2. vec_mult(x, y) = Arithmetic(x, y, Zext(x) * Zext(y), s)
  BY <1>1 DEF vec_mult
<1>3. CASE ~x.isSymbolic /\ ~y.isSymbolic
  <2>1. vec_mult(x, y) = Concrete(n, a * b)
    BY <1>1, <1>2, <1>3 DEF Arithmetic
  <2>2. a * b \in Int
    BY <1>1
  <2>3. Value(Concrete(n, a * b), v) = (a * b) % Power(n)
    <3> DEFINE c == a * b
    <3> HIDE DEF a, b
    <3>1. c \in Int
      BY <2>2
    <3> HIDE DEF c
    <3>2. Value(Concrete(n, c), v) = c % Power(n)
      BY <1>1, <1>3, <3>1, ConcreteValue
    <3> QED BY <3>2 DEF c
  <2> QED BY <2>1, <2>3 DEF MULT, Wrap, Power
<1>4. CASE ~(~x.isSymbolic /\ ~y.isSymbolic)
  <2>1. vec_mult(x, y) = Folded(n, s)
    BY <1>1, <1>2, <1>4 DEF Arithmetic
  <2>2. s \in LitVec(n)
    BY <1>1, ProductType
  <2>3. \A i, k \in Bits(n) : i < k /\ Y[k] = Const1 => IsConst(Y[i])
    BY <1>4
  <2>4. Number(s, n, v) = MULT(Number(X, n, v), Number(Y, n, v), n)
    <3> HIDE DEF X, Y
    <3> QED BY <1>1, <2>3, MultiplyNumber
  <2> HIDE DEF s
  <2>5. Value(Folded(n, s), v) = Number(s, n, v)
    BY <1>1, <2>2, FoldedValue
  <2> QED BY <1>1, <2>1, <2>4, <2>5
<1> QED BY <1>3, <1>4

(***************************************************************************)
(* Shifts.  What the loop over a symbolic amount moves in all is what the  *)
(* amount is.                                                              *)
(***************************************************************************)
LEMMA RightShifterBits ==
  ASSUME NEW n \in Nat \ {0}, NEW s \in LitVec(n), NEW amount, NEW m \in Nat,
         amount.size = m, amount.symWord \in LitVec(m), NEW fill \in Literal, NEW v \in Valuation
  PROVE  \A j \in Bits(n) :
           Bit(RightShifter(s, n, amount, fill)[j], v)
             = Bit(ShiftedRight(n, fill, s, j, Number(amount.symWord, m, v)), v)
<1>1. PICK after \in [0 .. m -> LitVec(n)] :
           /\ ShiftsRight(after, s, n, amount, fill)
           /\ RightShifter(s, n, amount, fill) = after[m]
  BY RightShifterIs
<1> DEFINE A == amount.symWord
           K(i) == Number(A, i, v)
<1> DEFINE G == {i \in 0 .. m : \A j \in Bits(n) :
                  Bit(after[i][j], v) = Bit(ShiftedRight(n, fill, s, j, K(i)), v)}
<1>2. 0 \in G
  <2>1. K(0) = 0
    BY NumberStep
  <2>2. \A j \in Bits(n) : j + 0 = j /\ j < n
    BY DEF Bits
  <2> QED BY <1>1, <2>1, <2>2 DEF ShiftsRight, ShiftedRight
<1>3. \A i \in 1 .. m : i - 1 \in G => i \in G
  <2> TAKE i \in 1 .. m
  <2> HAVE i - 1 \in G
  <2> DEFINE d == 2^(i - 1)
             t == after[i - 1]
             k == K(i - 1)
  <2>1. i - 1 \in Nat /\ i - 1 + 1 = i
    OBVIOUS
  <2>2. K(i) = k + Power(i - 1) * Bit(A[i - 1], v)
    BY <2>1, NumberStep
  <2>3. d \in Nat \ {0} /\ d = Power(i - 1)
    BY <2>1, PowerFacts DEF Power
  <2>4. k \in Nat
    BY <2>1, NumberBound
  <2>5. \A j \in Bits(n) : Bit(t[j], v) = Bit(ShiftedRight(n, fill, s, j, k), v)
    OBVIOUS
  <2>6. \A j \in Bits(n) : after[i][j] = HashMux(A[i - 1], ShiftedRight(n, fill, t, j, d), t[j])
    <3>1. i \in 1 .. amount.size
      OBVIOUS
    <3>2. after[i] = [j \in Bits(n) |-> HashMux(amount.symWord[i - 1],
                                                ShiftedRight(n, fill, after[i - 1], j, 2^(i - 1)),
                                                after[i - 1][j])]
      BY <1>1, <3>1 DEF ShiftsRight
    <3> QED BY <3>2
  <2> HIDE DEF K, d, t, k, G
  <2>7. CASE v \in A[i - 1]
    <3>1. Bit(A[i - 1], v) = 1
      BY <2>7 DEF Bit
    <3>2. K(i) = k + d
      BY <2>2, <2>3, <2>4, <3>1
    <3> SUFFICES ASSUME NEW j \in Bits(n) PROVE Bit(after[i][j], v) = Bit(ShiftedRight(n, fill, s, j, k + d), v)
      BY <3>2 DEF G
    <3>3. Bit(after[i][j], v) = Bit(ShiftedRight(n, fill, t, j, d), v)
      BY <2>6, <2>7 DEF Bit, HashMux
    <3>4. CASE j + d < n
      <4>1. j + d \in Bits(n)
        BY <2>3, <3>4 DEF Bits
      <4>2. Bit(t[j + d], v) = Bit(ShiftedRight(n, fill, s, j + d, k), v)
        BY <2>5, <4>1
      <4>3. (j + d) + k = j + (k + d)
        BY <2>3, <2>4 DEF Bits
      <4> QED BY <3>3, <3>4, <4>2, <4>3 DEF ShiftedRight
    <3>5. CASE ~(j + d < n)
      <4>1. ~(j + (k + d) < n)
        BY <2>3, <2>4, <3>5 DEF Bits
      <4> QED BY <3>3, <3>5, <4>1 DEF ShiftedRight
    <3> QED BY <3>4, <3>5
  <2>8. CASE v \notin A[i - 1]
    <3>1. Bit(A[i - 1], v) = 0
      BY <2>8 DEF Bit
    <3>2. K(i) = k
      BY <2>2, <2>3, <2>4, <3>1
    <3>3. \A j \in Bits(n) : Bit(after[i][j], v) = Bit(t[j], v)
      BY <2>6, <2>8 DEF Bit, HashMux
    <3> QED BY <2>5, <3>2, <3>3 DEF G
  <2> QED BY <2>7, <2>8
<1> HIDE DEF G, K
<1>4. 0 .. m \subseteq G
  BY <1>2, <1>3, UpTo
<1> QED BY <1>1, <1>4 DEF G, K

LEMMA LeftShifterBits ==
  ASSUME NEW n \in Nat \ {0}, NEW s \in LitVec(n), NEW amount, NEW m \in Nat,
         amount.size = m, amount.symWord \in LitVec(m), NEW v \in Valuation
  PROVE  \A j \in Bits(n) :
           Bit(LeftShifter(s, n, amount)[j], v) = Bit(ShiftedLeft(n, s, j, Number(amount.symWord, m, v)), v)
<1>1. PICK after \in [0 .. m -> LitVec(n)] :
           /\ ShiftsLeft(after, s, n, amount)
           /\ LeftShifter(s, n, amount) = after[m]
  BY LeftShifterIs
<1> DEFINE A == amount.symWord
           K(i) == Number(A, i, v)
<1> DEFINE G == {i \in 0 .. m : \A j \in Bits(n) : Bit(after[i][j], v) = Bit(ShiftedLeft(n, s, j, K(i)), v)}
<1>2. 0 \in G
  <2>1. K(0) = 0
    BY NumberStep
  <2>2. \A j \in Bits(n) : j - 0 = j /\ 0 <= j
    BY DEF Bits
  <2> QED BY <1>1, <2>1, <2>2 DEF ShiftsLeft, ShiftedLeft
<1>3. \A i \in 1 .. m : i - 1 \in G => i \in G
  <2> TAKE i \in 1 .. m
  <2> HAVE i - 1 \in G
  <2> DEFINE d == 2^(i - 1)
             t == after[i - 1]
             k == K(i - 1)
  <2>1. i - 1 \in Nat /\ i - 1 + 1 = i
    OBVIOUS
  <2>2. K(i) = k + Power(i - 1) * Bit(A[i - 1], v)
    BY <2>1, NumberStep
  <2>3. d \in Nat \ {0} /\ d = Power(i - 1)
    BY <2>1, PowerFacts DEF Power
  <2>4. k \in Nat
    BY <2>1, NumberBound
  <2>5. \A j \in Bits(n) : Bit(t[j], v) = Bit(ShiftedLeft(n, s, j, k), v)
    OBVIOUS
  <2>6. \A j \in Bits(n) : after[i][j] = HashMux(A[i - 1], ShiftedLeft(n, t, j, d), t[j])
    <3>1. i \in 1 .. amount.size
      OBVIOUS
    <3>2. after[i] = [j \in Bits(n) |-> HashMux(amount.symWord[i - 1],
                                                ShiftedLeft(n, after[i - 1], j, 2^(i - 1)),
                                                after[i - 1][j])]
      BY <1>1, <3>1 DEF ShiftsLeft
    <3> QED BY <3>2
  <2> HIDE DEF K, d, t, k, G
  <2>7. CASE v \in A[i - 1]
    <3>1. Bit(A[i - 1], v) = 1
      BY <2>7 DEF Bit
    <3>2. K(i) = k + d
      BY <2>2, <2>3, <2>4, <3>1
    <3> SUFFICES ASSUME NEW j \in Bits(n) PROVE Bit(after[i][j], v) = Bit(ShiftedLeft(n, s, j, k + d), v)
      BY <3>2 DEF G
    <3>3. Bit(after[i][j], v) = Bit(ShiftedLeft(n, t, j, d), v)
      BY <2>6, <2>7 DEF Bit, HashMux
    <3>4. CASE d <= j
      <4>1. j - d \in Bits(n)
        BY <2>3, <3>4 DEF Bits
      <4>2. Bit(t[j - d], v) = Bit(ShiftedLeft(n, s, j - d, k), v)
        BY <2>5, <4>1
      <4>3. (j - d) - k = j - (k + d) /\ (k <= j - d <=> k + d <= j)
        BY <2>3, <2>4 DEF Bits
      <4> QED BY <3>3, <3>4, <4>2, <4>3 DEF ShiftedLeft
    <3>5. CASE ~(d <= j)
      <4>1. ~(k + d <= j)
        BY <2>3, <2>4, <3>5 DEF Bits
      <4> QED BY <3>3, <3>5, <4>1 DEF ShiftedLeft
    <3> QED BY <3>4, <3>5
  <2>8. CASE v \notin A[i - 1]
    <3>1. Bit(A[i - 1], v) = 0
      BY <2>8 DEF Bit
    <3>2. K(i) = k
      BY <2>2, <2>3, <2>4, <3>1
    <3>3. \A j \in Bits(n) : Bit(after[i][j], v) = Bit(t[j], v)
      BY <2>6, <2>8 DEF Bit, HashMux
    <3> QED BY <2>5, <3>2, <3>3 DEF G
  <2> QED BY <2>7, <2>8
<1> HIDE DEF G, K
<1>4. 0 .. m \subseteq G
  BY <1>2, <1>3, UpTo
<1> QED BY <1>1, <1>4 DEF G, K

LEMMA RightRotatorBits ==
  ASSUME NEW n \in Nat \ {0}, NEW s \in LitVec(n), NEW amount, NEW m \in Nat,
         amount.size = m, amount.symWord \in LitVec(m), NEW v \in Valuation
  PROVE  \A j \in Bits(n) :
           Bit(RightRotator(s, n, amount)[j], v) = Bit(RotatedRight(n, s, j, Number(amount.symWord, m, v)), v)
<1>1. PICK after \in [0 .. m -> LitVec(n)] :
           /\ RotatesRight(after, s, n, amount)
           /\ RightRotator(s, n, amount) = after[m]
  BY RightRotatorIs
<1> DEFINE A == amount.symWord
           K(i) == Number(A, i, v)
<1> DEFINE G == {i \in 0 .. m : \A j \in Bits(n) : Bit(after[i][j], v) = Bit(RotatedRight(n, s, j, K(i)), v)}
<1>2. 0 \in G
  <2>1. K(0) = 0
    BY NumberStep
  <2>2. \A j \in Bits(n) : (j + 0) % n = j
    <3> TAKE j \in Bits(n)
    <3>1. j \in Nat /\ j < n /\ j + 0 = j
      BY DEF Bits
    <3> QED BY <3>1, ModSmall
  <2> QED BY <1>1, <2>1, <2>2 DEF RotatesRight, RotatedRight
<1>3. \A i \in 1 .. m : i - 1 \in G => i \in G
  <2> TAKE i \in 1 .. m
  <2> HAVE i - 1 \in G
  <2> DEFINE d == 2^(i - 1)
             t == after[i - 1]
             k == K(i - 1)
  <2>1. i - 1 \in Nat /\ i - 1 + 1 = i
    OBVIOUS
  <2>2. K(i) = k + Power(i - 1) * Bit(A[i - 1], v)
    BY <2>1, NumberStep
  <2>3. d \in Nat \ {0} /\ d = Power(i - 1)
    BY <2>1, PowerFacts DEF Power
  <2>4. k \in Nat
    BY <2>1, NumberBound
  <2>5. \A j \in Bits(n) : Bit(t[j], v) = Bit(RotatedRight(n, s, j, k), v)
    OBVIOUS
  <2>6. \A j \in Bits(n) : after[i][j] = HashMux(A[i - 1], RotatedRight(n, t, j, d), t[j])
    <3>1. i \in 1 .. amount.size
      OBVIOUS
    <3>2. after[i] = [j \in Bits(n) |-> HashMux(amount.symWord[i - 1],
                                                RotatedRight(n, after[i - 1], j, 2^(i - 1)),
                                                after[i - 1][j])]
      BY <1>1, <3>1 DEF RotatesRight
    <3> QED BY <3>2
  <2> HIDE DEF K, d, t, k, G
  <2>7. CASE v \in A[i - 1]
    <3>1. Bit(A[i - 1], v) = 1
      BY <2>7 DEF Bit
    <3>2. K(i) = k + d
      BY <2>2, <2>3, <2>4, <3>1
    <3> SUFFICES ASSUME NEW j \in Bits(n) PROVE Bit(after[i][j], v) = Bit(RotatedRight(n, s, j, k + d), v)
      BY <3>2 DEF G
    <3>3. Bit(after[i][j], v) = Bit(RotatedRight(n, t, j, d), v)
      BY <2>6, <2>7 DEF Bit, HashMux
    <3>4. j + d \in Int /\ (j + d) + k = j + (k + d) /\ k \in Int
      BY <2>3, <2>4 DEF Bits
    <3>5. (j + d) % n \in Bits(n)
      BY <3>4, ModType DEF Bits
    <3>6. Bit(t[(j + d) % n], v) = Bit(RotatedRight(n, s, (j + d) % n, k), v)
      BY <2>5, <3>5
    <3>7. (((j + d) % n) + k) % n = (j + (k + d)) % n
      <4> DEFINE e == j + d
      <4>1. e \in Int /\ e + k = j + (k + d) /\ k + e = e + k
        BY <3>4
      <4> HIDE DEF e
      <4>3. (e % n) + k = k + (e % n)
        BY <3>4, <4>1, ModType
      <4>2. (k + e) % n = (k + (e % n)) % n
        BY <3>4, <4>1, ModSum
      <4> QED BY <4>1, <4>2, <4>3 DEF e
    <3> QED BY <3>3, <3>6, <3>7 DEF RotatedRight
  <2>8. CASE v \notin A[i - 1]
    <3>1. Bit(A[i - 1], v) = 0
      BY <2>8 DEF Bit
    <3>2. K(i) = k
      BY <2>2, <2>3, <2>4, <3>1
    <3>3. \A j \in Bits(n) : Bit(after[i][j], v) = Bit(t[j], v)
      BY <2>6, <2>8 DEF Bit, HashMux
    <3> QED BY <2>5, <3>2, <3>3 DEF G
  <2> QED BY <2>7, <2>8
<1> HIDE DEF G, K
<1>4. 0 .. m \subseteq G
  BY <1>2, <1>3, UpTo
<1> QED BY <1>1, <1>4 DEF G, K

\* A rotation to the left, without the unsigned arithmetic of the code.
TurnedLeft(n, s, j, k) == s[(j - k) % n]

LEMMA LeftRotatorBits ==
  ASSUME NEW n \in Nat \ {0}, NEW s \in LitVec(n), NEW amount, NEW m \in Nat,
         amount.size = m, amount.symWord \in LitVec(m),
         \A i \in 1 .. m : 2^(i - 1) <= n, 2 * n <= Words, NEW v \in Valuation
  PROVE  \A j \in Bits(n) :
           Bit(LeftRotator(s, n, amount)[j], v) = Bit(TurnedLeft(n, s, j, Number(amount.symWord, m, v)), v)
<1>1. PICK after \in [0 .. m -> LitVec(n)] :
           /\ RotatesLeft(after, s, n, amount)
           /\ LeftRotator(s, n, amount) = after[m]
  BY LeftRotatorIs
<1> DEFINE A == amount.symWord
           K(i) == Number(A, i, v)
<1> DEFINE G == {i \in 0 .. m : \A j \in Bits(n) : Bit(after[i][j], v) = Bit(TurnedLeft(n, s, j, K(i)), v)}
<1>2. 0 \in G
  <2>1. K(0) = 0
    BY NumberStep
  <2>2. \A j \in Bits(n) : (j - 0) % n = j
    <3> TAKE j \in Bits(n)
    <3>1. j \in Nat /\ j < n /\ j - 0 = j
      BY DEF Bits
    <3> QED BY <3>1, ModSmall
  <2> QED BY <1>1, <2>1, <2>2 DEF RotatesLeft, TurnedLeft
<1>3. \A i \in 1 .. m : i - 1 \in G => i \in G
  <2> TAKE i \in 1 .. m
  <2> HAVE i - 1 \in G
  <2> DEFINE d == 2^(i - 1)
             t == after[i - 1]
             k == K(i - 1)
  <2>1. i - 1 \in Nat /\ i - 1 + 1 = i
    OBVIOUS
  <2>2. K(i) = k + Power(i - 1) * Bit(A[i - 1], v)
    BY <2>1, NumberStep
  <2>3. d \in Nat \ {0} /\ d = Power(i - 1)
    BY <2>1, PowerFacts DEF Power
  <2>4. k \in Nat
    BY <2>1, NumberBound
  <2>5. \A j \in Bits(n) : Bit(t[j], v) = Bit(TurnedLeft(n, s, j, k), v)
    OBVIOUS
  <2>6. \A j \in Bits(n) : after[i][j] = HashMux(A[i - 1], RotatedLeft(n, t, j, d), t[j])
    <3>1. i \in 1 .. amount.size
      OBVIOUS
    <3>2. after[i] = [j \in Bits(n) |-> HashMux(amount.symWord[i - 1],
                                                RotatedLeft(n, after[i - 1], j, 2^(i - 1)),
                                                after[i - 1][j])]
      BY <1>1, <3>1 DEF RotatesLeft
    <3> QED BY <3>2
  <2> HIDE DEF K, d, t, k, G
  <2>7. CASE v \in A[i - 1]
    <3>1. Bit(A[i - 1], v) = 1
      BY <2>7 DEF Bit
    <3>2. K(i) = k + d
      BY <2>2, <2>3, <2>4, <3>1
    <3> SUFFICES ASSUME NEW j \in Bits(n) PROVE Bit(after[i][j], v) = Bit(TurnedLeft(n, s, j, k + d), v)
      BY <3>2 DEF G
    <3>3. Bit(after[i][j], v) = Bit(RotatedLeft(n, t, j, d), v)
      BY <2>6, <2>7 DEF Bit, HashMux
    <3>4. j \in Nat /\ j < n /\ d <= n
      BY DEF Bits, d
    <3>5. ((n - d + j) % Words) % n = (j - d) % n
      <4>1. n - d + j \in Nat /\ n - d + j < Words
        BY <2>3, <3>4, WordsType
      <4>2. (n - d + j) % Words = n - d + j
        BY <4>1, WordsType, ModSmall
      <4>3. n - d + j = (j - d) + n * 1 /\ j - d \in Int /\ 1 \in Int
        BY <2>3, <3>4
      <4>4. ((j - d) + n * 1) % n = (j - d) % n
        BY <4>3, ModShift
      <4> QED BY <4>2, <4>3, <4>4
    <3>6. j - d \in Int /\ (j - d) - k = j - (k + d) /\ k \in Int
      BY <2>3, <2>4, <3>4
    <3>7. (j - d) % n \in Bits(n)
      BY <3>6, ModType DEF Bits
    <3>8. Bit(t[(j - d) % n], v) = Bit(TurnedLeft(n, s, (j - d) % n, k), v)
      BY <2>5, <3>7
    <3>9. (((j - d) % n) - k) % n = (j - (k + d)) % n
      <4> DEFINE e == j - d
                 f == e % n
      <4>1. e \in Int /\ e - k = j - (k + d) /\ f \in Int
        BY <3>6, ModType
      <4>2. f % n = e % n
        BY <4>1, ModTwice
      <4> HIDE DEF e
      <4>3. (e - k) % n = ((e % n) - (k % n)) % n
        BY <3>6, <4>1, ModSum
      <4> HIDE DEF f
      <4>4. (f - k) % n = ((f % n) - (k % n)) % n
        BY <3>6, <4>1, ModSum
      <4> QED BY <4>1, <4>2, <4>3, <4>4 DEF e, f
    <3> QED BY <3>3, <3>5, <3>8, <3>9 DEF RotatedLeft, TurnedLeft
  <2>8. CASE v \notin A[i - 1]
    <3>1. Bit(A[i - 1], v) = 0
      BY <2>8 DEF Bit
    <3>2. K(i) = k
      BY <2>2, <2>3, <2>4, <3>1
    <3>3. \A j \in Bits(n) : Bit(after[i][j], v) = Bit(t[j], v)
      BY <2>6, <2>8 DEF Bit, HashMux
    <3> QED BY <2>5, <3>2, <3>3 DEF G
  <2> QED BY <2>7, <2>8
<1> HIDE DEF G, K
<1>4. 0 .. m \subseteq G
  BY <1>2, <1>3, UpTo
<1> QED BY <1>1, <1>4 DEF G, K

LEMMA PowerOrder ==
  ASSUME NEW n \in Nat, NEW k \in Nat, n <= k
  PROVE  Power(n) <= Power(k) /\ Power(n) \in Nat \ {0} /\ Power(k) \in Nat \ {0}
BY PowerFacts

\* A shift to the right loses all of a number that is too small.
LEMMA RightIs ==
  ASSUME NEW n \in Nat, NEW a \in Nat, a < Power(n), NEW k \in Nat
  PROVE  RIGHT(a, k, n) = (a \div Power(k)) % Power(n) /\ RIGHT(a, k, n) = a \div Power(k)
<1> DEFINE p == Power(k)
           m == Power(n)
           q == a \div p
<1>1. p \in Nat \ {0} /\ m \in Nat \ {0}
  BY PowerFacts
<1>2. q \in Nat /\ q <= a
  <2> HIDE DEF p
  <2> QED BY <1>1, QuotientBound
<1>3. q % m = q
  <2>1. q < m
    BY <1>1, <1>2
  <2> HIDE DEF q, m
  <2> QED BY <1>1, <1>2, <2>1, ModSmall
<1>4. CASE k >= n
  <2>1. a < p
    BY <1>1, <1>4, PowerOrder
  <2>2. q = 0
    <3>1. a = p * 0 + a /\ 0 \in Int
      BY <1>1
    <3> HIDE DEF p
    <3> QED BY <1>1, <2>1, <3>1, ModUnique
  <2>3. RIGHT(a, k, n) = 0
    BY <1>4 DEF RIGHT
  <2> QED BY <1>3, <2>2, <2>3
<1>5. CASE ~(k >= n)
  <2>1. RIGHT(a, k, n) = q
    BY <1>5 DEF RIGHT, Power
  <2> QED BY <1>3, <2>1
<1> QED BY <1>4, <1>5

LEMMA LeftIs ==
  ASSUME NEW n \in Nat, NEW a \in Nat, NEW k \in Nat
  PROVE  LEFT(a, k, n) = (a * Power(k)) % Power(n)
<1>1. CASE k >= n
  <2> DEFINE m == Power(n)
             h == Power(k - n)
             z == 0
             ah == a * h
  <2>1. k - n \in Nat /\ n + (k - n) = k
    BY <1>1
  <2>2. Power(k) = m * h /\ m \in Nat \ {0} /\ h \in Nat
    BY <2>1, PowerFacts
  <2>3. a * Power(k) = z + m * ah /\ ah \in Int /\ z \in Int
    <3> HIDE DEF m, h
    <3>1. a * (m * h) = m * (a * h) /\ a * h \in Nat
      BY <2>2
    <3>2. m * (a * h) \in Nat
      BY <2>2, <3>1
    <3> QED BY <2>2, <3>1, <3>2
  <2>4. z % m = 0
    <3>1. z \in Nat /\ z < m
      BY <2>2
    <3> HIDE DEF m, z
    <3>2. z % m = z
      BY <2>2, <3>1, ModSmall
    <3> QED BY <3>2 DEF z
  <2>5. (z + m * ah) % m = z % m
    <3> HIDE DEF m, z, ah
    <3> QED BY <2>2, <2>3, ModShift
  <2>6. LEFT(a, k, n) = 0
    BY <1>1 DEF LEFT
  <2> QED BY <2>3, <2>4, <2>5, <2>6
<1>2. CASE ~(k >= n)
  BY <1>2 DEF LEFT, Wrap, Power
<1> QED BY <1>1, <1>2

LEMMA ShiftedRightNumber ==
  ASSUME NEW n \in Nat, NEW k \in Nat, NEW s, NEW u, NEW v \in Valuation,
         \A j \in Bits(n) : Bit(u[j], v) = Bit(ShiftedRight(n, Const0, s, j, k), v)
  PROVE  Number(u, n, v) = RIGHT(Number(s, n, v), k, n)
<1>1. \A j \in Bits(n) : Bit(u[j], v) = IF k + j < n THEN Bit(s[k + j], v) ELSE 0
  <2> TAKE j \in Bits(n)
  <2>1. k + j = j + k
    BY DEF Bits
  <2> QED BY <2>1, ConstBits DEF ShiftedRight
<1>2. Number(u, n, v) = (Number(s, n, v) \div Power(k)) % Power(n)
  BY <1>1, PieceNumber
<1>3. Number(s, n, v) \in Nat /\ Number(s, n, v) < Power(n)
  BY NumberBound
<1> QED BY <1>2, <1>3, RightIs

LEMMA ShiftedLeftNumber ==
  ASSUME NEW n \in Nat, NEW k \in Nat, NEW s, NEW u, NEW v \in Valuation,
         \A j \in Bits(n) : Bit(u[j], v) = Bit(ShiftedLeft(n, s, j, k), v)
  PROVE  Number(u, n, v) = LEFT(Number(s, n, v), k, n)
<1>1. \A j \in Bits(n) : Bit(u[j], v) = IF k <= j THEN Bit(s[j - k], v) ELSE 0
  BY ConstBits DEF ShiftedLeft
<1>2. Number(u, n, v) = (Number(s, n, v) * Power(k)) % Power(n)
  BY <1>1, LeftNumber
<1>3. Number(s, n, v) \in Nat
  BY NumberBound
<1> QED BY <1>2, <1>3, LeftIs

\* A quotient of low bits is what it is of the number, in the low bits.
LEMMA DivModDiv ==
  ASSUME NEW a \in Int, NEW p \in Nat \ {0}, NEW q \in Nat \ {0}
  PROVE  ((a % (q * p)) \div q) % p = (a \div q) % p
<1> DEFINE pq == q * p
           r == a % pq
           t == a \div pq
           b == a \div q
           c == b - p * t
           e == a % q
<1>1. pq \in Nat \ {0}
  OBVIOUS
<1>2. a = pq * t + r /\ t \in Int /\ r \in Nat
  <2> HIDE DEF pq
  <2> QED BY <1>1, DivMod
<1>3. a = q * b + e /\ b \in Int /\ e \in Nat /\ e < q
  BY DivMod
<1> HIDE DEF r, t, b, e
<1>4. p * t \in Int /\ c \in Int
  BY <1>2, <1>3
<1>5. r = q * c + e
  <2>1. q * c = q * b - q * (p * t) /\ pq * t = q * (p * t)
    BY <1>2, <1>3
  <2>2. q * b \in Int /\ q * (p * t) \in Int
    BY <1>2, <1>3, <1>4
  <2> DEFINE x == q * b
             y == q * (p * t)
             z == q * c
  <2>3. z = x - y /\ a = y + r /\ a = x + e /\ x \in Int /\ y \in Int
    BY <1>2, <1>3, <2>1, <2>2
  <2> HIDE DEF x, y, z
  <2>4. r = z + e
    BY <1>2, <1>3, <2>3
  <2> QED BY <2>4 DEF z
<1>6. r \div q = c
  <2> HIDE DEF c
  <2> QED BY <1>2, <1>3, <1>4, <1>5, ModUnique
<1>7. b = c + p * t
  BY <1>2, <1>3, <1>4
<1>8. (c + p * t) % p = c % p
  <2> HIDE DEF c
  <2> QED BY <1>2, <1>4, ModShift
<1> QED BY <1>6, <1>7, <1>8 DEF r, b, pq

LEMMA SignedNumber ==
  ASSUME NEW n \in Nat \ {0}, NEW X \in LitVec(n), NEW v \in Valuation
  PROVE  /\ Signed(Number(X, n, v), n) = Number(X, n, v) - Power(n) * Bit(X[n - 1], v)
         /\ Signed(Number(X, n, v), n) \in Int
<1> DEFINE x == Symbolic(n, X)
<1>1. Sized(x, n)
  BY SymbolicType
<1>2. Value(x, v) = Number(X, n, v)
  BY SymbolicValue
<1>3. Lits(x) = X
  BY DEF Lits, Symbolic
<1> HIDE DEF x
<1> QED BY <1>1, <1>2, <1>3, SignedValue

\* The literals moved right under copies of the sign.
LEMMA SignedRightNumber ==
  ASSUME NEW n \in Nat \ {0}, NEW k \in Nat, NEW X \in LitVec(n), NEW u, NEW v \in Valuation,
         \A j \in Bits(n) : Bit(u[j], v) = Bit(ShiftedRight(n, X[n - 1], X, j, k), v)
  PROVE  Number(u, n, v) = SRIGHT(Number(X, n, v), k, n)
<1> DEFINE K == IF k >= n THEN n ELSE k
           m == n + K
           w == [i \in Bits(m) |-> X[IF i < n THEN i ELSE n - 1]]
           a == Number(X, n, v)
           c == a - Power(n) * Bit(X[n - 1], v)
           p == Power(n)
           q == Power(K)
<1>1. K \in Nat /\ m \in Nat /\ n <= m /\ n \in Nat /\ K + n = m
  OBVIOUS
<1>2. SRIGHT(a, k, n) = (Signed(a, n) \div q) % p
  BY DEF SRIGHT, Wrap, Power
<1>3. Signed(a, n) = c /\ c \in Int
  BY SignedNumber
<1>4. \A i \in Bits(m) : Bit(w[i], v) = IF i < n THEN Bit(X[i], v) ELSE Bit(X[n - 1], v)
  OBVIOUS
<1>5. \A j \in Bits(n) : Bit(u[j], v) = IF K + j < m THEN Bit(w[K + j], v) ELSE 0
  <2> TAKE j \in Bits(n)
  <2>1. j \in Nat /\ j < n
    BY DEF Bits
  <2>2. K + j < m /\ K + j \in Bits(m)
    BY <1>1, <2>1 DEF Bits
  <2>3. CASE k >= n
    <3>1. ~(j + k < n) /\ ~(K + j < n)
      BY <2>1, <2>3
    <3> HIDE DEF K, m
    <3>2. Bit(u[j], v) = Bit(X[n - 1], v)
      BY <3>1 DEF ShiftedRight
    <3> HIDE DEF w
    <3> QED BY <1>4, <2>2, <3>1, <3>2
  <2>4. CASE ~(k >= n)
    <3>1. K + j = j + k
      BY <2>1, <2>4
    <3> HIDE DEF K, m, w
    <3>2. Bit(u[j], v) = Bit(IF K + j < n THEN X[K + j] ELSE X[n - 1], v)
      BY <3>1 DEF ShiftedRight
    <3> QED BY <1>4, <2>2, <3>2
  <2> QED BY <2>3, <2>4
<1> HIDE DEF w, K, m
<1>6. Number(w, m, v) = c % Power(m)
  BY <1>1, <1>4, SignRepeated
<1>7. Number(u, n, v) = (Number(w, m, v) \div q) % p
  BY <1>1, <1>5, PieceNumber
<1>8. Power(m) = q * p /\ q \in Nat \ {0} /\ p \in Nat \ {0}
  BY <1>1, PowerFacts
<1>9. ((c % (q * p)) \div q) % p = (c \div q) % p
  <2> HIDE DEF c, p, q
  <2> QED BY <1>3, <1>8, DivModDiv
<1> QED BY <1>2, <1>3, <1>6, <1>7, <1>8, <1>9

LEMMA HalfPower ==
  ASSUME NEW n \in Nat \ {0}
  PROVE  /\ n - 1 \in Nat /\ Power(n) = 2 * Power(n - 1)
         /\ Power(n - 1) \in Nat \ {0} /\ Power(n) \in Nat \ {0}
<1>1. n - 1 \in Nat /\ n - 1 + 1 = n
  OBVIOUS
<1> QED BY <1>1, PowerFacts

\* The word of a vector whose sign int_sextend reads right, as a signed number.
LEMMA SignedWordValue ==
  ASSUME NEW n, NEW x, Sized(x, n), ~x.isSymbolic, SignRight(x), NEW v \in Valuation
  PROVE  SignedWord(x) = Signed(Value(x, v), n)
<1> DEFINE a == Value(x, v)
           p == Power(n)
           h == Power(n - 1)
           X == Lits(x)
           c == Signed(a, n)
           e == int_sextend(x.conWord, n, WORD_BITS)
<1>1. /\ n \in Nat \ {0} /\ x.size = n /\ p \in Nat \ {0}
      /\ a \in Nat /\ a < p
      /\ n <= WORD_BITS /\ Zext(x) = a
      /\ x.conWord \in Nat /\ x.conWord < Words /\ a = x.conWord % p
  BY OperandValue
<1>2. SignedWord(x) = AsSigned(e)
  BY <1>1 DEF SignedWord
<1>3. p = 2 * h /\ h \in Nat \ {0}
  BY <1>1, HalfPower
<1>4. /\ v \in X[n - 1] <=> a >= h
      /\ n - 1 \in Bits(n)
  BY SignValue DEF SignBit, Power
<1>5. c = IF a >= h THEN a - p ELSE a
  BY DEF Signed, SignBit, Power
<1>6. X[n - 1] = BitLit(x.conWord, n - 1)
  BY <1>1, <1>4 DEF Lits
<1>7. BitLit(x.conWord, n - 1) = Const1 <=> v \in X[n - 1]
  BY <1>6 DEF BitLit, Const0, Const1
<1>8. Words \in Nat \ {0} /\ WORD_BITS \in Nat /\ p <= Words /\ Power(WORD_BITS) = Words
  BY <1>1, WordsType, PowerOrder, PowerFacts
<1>9. CASE n = WORD_BITS
  <2>1. e = x.conWord /\ p = Words
    BY <1>8, <1>9 DEF int_sextend
  <2>2. x.conWord % p = x.conWord
    <3> HIDE DEF p
    <3> QED BY <1>1, <2>1, ModSmall
  <2>3. a = x.conWord
    BY <1>1, <2>2
  <2>4. 2 * a >= Words <=> a >= h
    BY <1>1, <1>3, <2>1
  <2>5. AsSigned(a) = IF a >= h THEN a - p ELSE a
    BY <2>1, <2>4 DEF AsSigned
  <2> QED BY <1>2, <1>5, <2>1, <2>3, <2>5
<1>10. CASE n # WORD_BITS
  <2>1. 2 * p <= Words
    <3>1. n + 1 <= WORD_BITS /\ n + 1 \in Nat
      BY <1>1, <1>8, <1>10
    <3>2. Power(n + 1) <= Power(WORD_BITS) /\ Power(n + 1) = 2 * Power(n)
      BY <1>1, <1>8, <3>1, PowerFacts
    <3> QED BY <1>8, <3>2
  <2>2. CASE a >= h
    <3> DEFINE u == a + Words - p
    <3>1. e = u % Words
      <4>1. BitLit(x.conWord, n - 1) = Const1
        BY <1>4, <1>7, <2>2
      <4>2. e = (Zext(x) + Words - 2^n) % Words
        BY <1>1, <1>10, <4>1 DEF int_sextend, int_zextend, Zext, Words
      <4> QED BY <1>1, <4>2 DEF Power
    <3>2. u \in Nat /\ u < Words /\ 2 * u >= Words
      BY <1>1, <1>3, <1>8, <2>1, <2>2
    <3>3. u % Words = u
      <4> HIDE DEF u
      <4> QED BY <1>8, <3>2, ModSmall
    <3>4. AsSigned(u) = u - Words
      BY <3>2 DEF AsSigned
    <3>5. u - Words = a - p
      BY <1>1, <1>8
    <3> QED BY <1>2, <1>5, <2>2, <3>1, <3>3, <3>4, <3>5
  <2>3. CASE ~(a >= h)
    <3>1. BitLit(x.conWord, n - 1) # Const1
      BY <1>4, <1>7, <2>3
    <3>2. x.conWord = a
      BY <1>1, <3>1 DEF SignRight
    <3>3. e = a % Words
      BY <1>1, <1>10, <3>1, <3>2 DEF int_sextend, int_zextend, Words
    <3>4. a < Words /\ ~(2 * a >= Words)
      BY <1>1, <1>3, <1>8, <2>1, <2>3
    <3>5. a % Words = a
      <4> HIDE DEF a
      <4> QED BY <1>1, <1>8, <3>4, ModSmall
    <3>6. AsSigned(a) = a
      BY <3>4 DEF AsSigned
    <3> QED BY <1>2, <1>5, <2>3, <3>3, <3>5, <3>6
  <2> QED BY <2>2, <2>3
<1> QED BY <1>9, <1>10

\* vec_shiftright, by an amount of any size that may be more than there are bits.
THEOREM ShiftRightValue ==
  ASSUME NEW n, NEW x, Sized(x, n), NEW m, NEW amount, Sized(amount, m), NEW v \in Valuation
  PROVE  Value(vec_shiftright(x, amount), v) = RIGHT(Value(x, v), Value(amount, v), n)
<1> DEFINE X == Lits(x)
           A == Lits(amount)
           a == Value(x, v)
           k == Value(amount, v)
<1>1. /\ n \in Nat \ {0} /\ n \in Nat /\ x.size = n /\ X \in LitVec(n)
      /\ a = Number(X, n, v) /\ a \in Nat /\ a < Power(n)
      /\ ~x.isSymbolic => n <= WORD_BITS /\ Zext(x) = a
      /\ x.isSymbolic => x.symWord = X
  BY OperandValue, SizedFacts
<1>2. /\ m \in Nat /\ amount.size = m /\ A \in LitVec(m)
      /\ k = Number(A, m, v) /\ k \in Nat
      /\ ~amount.isSymbolic => Zext(amount) = k
      /\ amount.isSymbolic => amount.symWord = A
  BY OperandValue, SizedFacts
<1>3. ASSUME NEW u, \A j \in Bits(n) : Bit(u[j], v) = Bit(ShiftedRight(n, Const0, X, j, k), v)
      PROVE  Number(u, n, v) = RIGHT(a, k, n)
  <2> HIDE DEF X, k
  <2> QED BY <1>1, <1>2, <1>3, ShiftedRightNumber
<1>4. CASE ~amount.isSymbolic /\ ~x.isSymbolic
  <2> DEFINE con == IF k >= n THEN 0 ELSE a \div 2^k
  <2>1. vec_shiftright(x, amount) = Concrete(n, con)
    BY <1>1, <1>2, <1>4 DEF vec_shiftright, Shift
  <2>2. con = RIGHT(a, k, n)
    BY DEF RIGHT
  <2>3. con = a \div Power(k) /\ con = (a \div Power(k)) % Power(n)
    BY <1>1, <1>2, <2>2, RightIs
  <2>4. Power(k) \in Nat \ {0} /\ Power(n) \in Nat \ {0} /\ a \in Int
    BY <1>1, <1>2, PowerFacts
  <2>5. con \in Nat /\ con < Power(n)
    <3> DEFINE q == a \div Power(k)
               p == Power(n)
    <3>1. q \in Int /\ p \in Nat \ {0} /\ con = q % p
      BY <2>3, <2>4, DivMod
    <3> HIDE DEF q, p, con
    <3>2. con \in Nat /\ con < p
      BY <3>1, DivMod
    <3> QED BY <3>2 DEF p
  <2>6. Value(Concrete(n, con), v) = con % Power(n)
    <3> HIDE DEF con
    <3>1. con \in Int
      BY <2>5
    <3> QED BY <1>1, <1>4, <3>1, ConcreteValue
  <2>7. con % Power(n) = con
    <3> HIDE DEF con
    <3> QED BY <2>4, <2>5, ModSmall
  <2> QED BY <2>1, <2>2, <2>6, <2>7
<1>5. CASE ~amount.isSymbolic /\ x.isSymbolic
  <2> DEFINE s == [j \in Bits(n) |-> ShiftedRight(n, Const0, X, j, k)]
  <2>1. vec_shiftright(x, amount) = Folded(n, s)
    BY <1>1, <1>2, <1>5 DEF vec_shiftright, Shift, ShiftedRight
  <2>2. s \in LitVec(n)
    <3> HIDE DEF X, k
    <3>1. ASSUME NEW j \in Bits(n) PROVE ShiftedRight(n, Const0, X, j, k) \in Literal
      <4>1. n - 1 \in Bits(n)
        BY <1>1 DEF Bits
      <4>2. j + k < n => j + k \in Bits(n)
        BY <1>1, <1>2 DEF Bits
      <4> QED BY <1>1, <4>1, <4>2, LiteralType DEF ShiftedRight, LitVec
    <3> QED BY <3>1 DEF LitVec
  <2>3. \A j \in Bits(n) : Bit(s[j], v) = Bit(ShiftedRight(n, Const0, X, j, k), v)
    OBVIOUS
  <2> HIDE DEF s, X, k, a
  <2>4. Number(s, n, v) = RIGHT(a, k, n)
    BY <1>3, <2>3
  <2>5. Value(Folded(n, s), v) = Number(s, n, v)
    BY <1>1, <2>2, FoldedValue
  <2> QED BY <2>1, <2>4, <2>5 DEF a, k
<1>6. CASE amount.isSymbolic
  <2> DEFINE u == RightShifter(X, n, amount, Const0)
  <2>1. vec_shiftright(x, amount) = Symbolic(n, u)
    BY <1>1, <1>6 DEF vec_shiftright, Shift, Barrel, RightShifter, ShiftedRight
  <2>2. amount.symWord \in LitVec(m) /\ Number(amount.symWord, m, v) = k
    BY <1>2, <1>6
  <2> HIDE DEF X, k, a
  <2>0. Const0 \in Literal
    BY LiteralType
  <2>3. u \in LitVec(n)
    BY <1>1, <1>2, <2>2, <2>0, RightShifterType
  <2>4. \A j \in Bits(n) : Bit(u[j], v) = Bit(ShiftedRight(n, Const0, X, j, Number(amount.symWord, m, v)), v)
    BY <1>1, <1>2, <2>2, <2>0, RightShifterBits
  <2> HIDE DEF u
  <2>5. Number(u, n, v) = RIGHT(a, k, n)
    BY <1>3, <2>2, <2>4
  <2>6. Value(Symbolic(n, u), v) = Number(u, n, v)
    BY <1>1, <2>3, SymbolicValue
  <2> QED BY <2>1, <2>5, <2>6 DEF a, k
<1> QED BY <1>4, <1>5, <1>6

\* vec_shiftleft, by an amount of any size that may be more than there are bits.
THEOREM ShiftLeftValue ==
  ASSUME NEW n, NEW x, Sized(x, n), NEW m, NEW amount, Sized(amount, m), NEW v \in Valuation
  PROVE  Value(vec_shiftleft(x, amount), v) = LEFT(Value(x, v), Value(amount, v), n)
<1> DEFINE X == Lits(x)
           A == Lits(amount)
           a == Value(x, v)
           k == Value(amount, v)
<1>1. /\ n \in Nat \ {0} /\ n \in Nat /\ x.size = n /\ X \in LitVec(n)
      /\ a = Number(X, n, v) /\ a \in Nat /\ a < Power(n)
      /\ ~x.isSymbolic => n <= WORD_BITS /\ Zext(x) = a
      /\ x.isSymbolic => x.symWord = X
  BY OperandValue, SizedFacts
<1>2. /\ m \in Nat /\ amount.size = m /\ A \in LitVec(m)
      /\ k = Number(A, m, v) /\ k \in Nat
      /\ ~amount.isSymbolic => Zext(amount) = k
      /\ amount.isSymbolic => amount.symWord = A
  BY OperandValue, SizedFacts
<1>3. ASSUME NEW u, \A j \in Bits(n) : Bit(u[j], v) = Bit(ShiftedLeft(n, X, j, k), v)
      PROVE  Number(u, n, v) = LEFT(a, k, n)
  <2> HIDE DEF X, k
  <2> QED BY <1>1, <1>2, <1>3, ShiftedLeftNumber
<1>4. CASE ~amount.isSymbolic /\ ~x.isSymbolic
  <2> DEFINE con == IF k >= n THEN 0 ELSE a * 2^k
  <2>1. vec_shiftleft(x, amount) = Concrete(n, con)
    BY <1>1, <1>2, <1>4 DEF vec_shiftleft, Shift
  <2>2. LEFT(a, k, n) = con % Power(n)
    <3>1. CASE k >= n
      <4> DEFINE p == Power(n)
      <4>1. p \in Nat \ {0} /\ 0 \in Nat /\ 0 < p
        BY <1>1, PowerFacts
      <4> HIDE DEF p
      <4>2. 0 % p = 0
        BY <4>1, ModSmall
      <4> QED BY <3>1, <4>2 DEF LEFT, p
    <3>2. CASE ~(k >= n)
      BY <3>2 DEF LEFT, Wrap, Power
    <3> QED BY <3>1, <3>2
  <2>3. con \in Int
    <3>1. Power(k) \in Nat
      BY <1>2, PowerFacts
    <3>2. con = IF k >= n THEN 0 ELSE a * Power(k)
      BY DEF Power
    <3> HIDE DEF con, a, k
    <3> QED BY <1>1, <3>1, <3>2
  <2>4. Value(Concrete(n, con), v) = con % Power(n)
    <3> HIDE DEF con
    <3> QED BY <1>1, <1>4, <2>3, ConcreteValue
  <2> QED BY <2>1, <2>2, <2>4
<1>5. CASE ~amount.isSymbolic /\ x.isSymbolic
  <2> DEFINE s == [j \in Bits(n) |-> ShiftedLeft(n, X, j, k)]
  <2>1. vec_shiftleft(x, amount) = Folded(n, s)
    BY <1>1, <1>2, <1>5 DEF vec_shiftleft, Shift, ShiftedLeft
  <2>2. s \in LitVec(n)
    <3> HIDE DEF X, k
    <3>1. ASSUME NEW j \in Bits(n) PROVE ShiftedLeft(n, X, j, k) \in Literal
      <4>1. n - 1 \in Bits(n)
        BY <1>1 DEF Bits
      <4>2. k <= j => j - k \in Bits(n)
        BY <1>1, <1>2 DEF Bits
      <4> QED BY <1>1, <4>1, <4>2, LiteralType DEF ShiftedLeft, LitVec
    <3> QED BY <3>1 DEF LitVec
  <2>3. \A j \in Bits(n) : Bit(s[j], v) = Bit(ShiftedLeft(n, X, j, k), v)
    OBVIOUS
  <2> HIDE DEF s, X, k, a
  <2>4. Number(s, n, v) = LEFT(a, k, n)
    BY <1>3, <2>3
  <2>5. Value(Folded(n, s), v) = Number(s, n, v)
    BY <1>1, <2>2, FoldedValue
  <2> QED BY <2>1, <2>4, <2>5 DEF a, k
<1>6. CASE amount.isSymbolic
  <2> DEFINE u == LeftShifter(X, n, amount)
  <2>1. vec_shiftleft(x, amount) = Symbolic(n, u)
    BY <1>1, <1>6 DEF vec_shiftleft, Shift, Barrel, LeftShifter, ShiftedLeft
  <2>2. amount.symWord \in LitVec(m) /\ Number(amount.symWord, m, v) = k
    BY <1>2, <1>6
  <2> HIDE DEF X, k, a
  <2>3. u \in LitVec(n)
    BY <1>1, <1>2, <2>2, LeftShifterType
  <2>4. \A j \in Bits(n) : Bit(u[j], v) = Bit(ShiftedLeft(n, X, j, Number(amount.symWord, m, v)), v)
    BY <1>1, <1>2, <2>2, LeftShifterBits
  <2> HIDE DEF u
  <2>5. Number(u, n, v) = LEFT(a, k, n)
    BY <1>3, <2>2, <2>4
  <2>6. Value(Symbolic(n, u), v) = Number(u, n, v)
    BY <1>1, <2>3, SymbolicValue
  <2> QED BY <2>1, <2>5, <2>6 DEF a, k
<1> QED BY <1>4, <1>5, <1>6

\* vec_signedshiftright fills with the sign, as >> of C does on a word that was
\* extended; a word is shifted by one less than its bits where the amount is more,
\* and literals by the size or more only if the sign is constant, as asserted.
THEOREM SignedShiftRightValue ==
  ASSUME NEW n, NEW x, Sized(x, n), SignRight(x), NEW m, NEW amount, Sized(amount, m),
         SignedShiftAsserts(x, amount), NEW v \in Valuation
  PROVE  Value(vec_signedshiftright(x, amount), v) = SRIGHT(Value(x, v), Value(amount, v), n)
<1>0. vec_signedshiftright(x, amount) = SignedShift(x, amount)
  BY SignedShiftMeets DEF Sized
<1> DEFINE X == Lits(x)
           A == Lits(amount)
           a == Value(x, v)
           k == Value(amount, v)
<1>1. /\ n \in Nat \ {0} /\ n \in Nat /\ x.size = n /\ X \in LitVec(n)
      /\ a = Number(X, n, v) /\ a \in Nat /\ a < Power(n)
      /\ ~x.isSymbolic => n <= WORD_BITS /\ Zext(x) = a
      /\ x.isSymbolic => x.symWord = X
  BY OperandValue, SizedFacts
<1>2. /\ m \in Nat /\ amount.size = m /\ A \in LitVec(m)
      /\ k = Number(A, m, v) /\ k \in Nat
      /\ ~amount.isSymbolic => Zext(amount) = k
      /\ amount.isSymbolic => amount.symWord = A
  BY OperandValue, SizedFacts
<1>3. ASSUME NEW u, \A j \in Bits(n) : Bit(u[j], v) = Bit(ShiftedRight(n, X[n - 1], X, j, k), v)
      PROVE  Number(u, n, v) = SRIGHT(a, k, n)
  <2> HIDE DEF X, k
  <2> QED BY <1>1, <1>2, <1>3, SignedRightNumber
<1>4. CASE ~amount.isSymbolic /\ ~x.isSymbolic
  <2> DEFINE con == SignedWord(x) \div 2^(IF k >= n THEN WORD_BITS - 1 ELSE k)
  <2>1. vec_signedshiftright(x, amount) = Concrete(n, con)
    BY <1>0, <1>1, <1>2, <1>4 DEF SignedShift, Shift
  <2> DEFINE c == Signed(a, n)
             K == IF k >= n THEN WORD_BITS - 1 ELSE k
             L == IF k >= n THEN n ELSE k
             p == Power(n)
  <2>2. SignedWord(x) = c
    BY <1>4, SignedWordValue
  <2>3. /\ c \in Int /\ c < Power(n - 1) /\ -Power(n - 1) <= c
    BY SignedValue
  <2>4. con = c \div Power(K)
    BY <2>2 DEF Power
  <2>5. SRIGHT(a, k, n) = (c \div Power(L)) % p
    BY DEF SRIGHT, Wrap, Power
  <2>6. /\ K \in Nat /\ L \in Nat /\ Power(K) \in Nat \ {0} /\ Power(L) \in Nat \ {0}
        /\ n - 1 \in Nat
    <3>1. K \in Nat /\ L \in Nat /\ n - 1 \in Nat
      BY <1>1, <1>2, WordsType
    <3> HIDE DEF K, L
    <3> QED BY <3>1, PowerFacts
  <2>7. c \div Power(K) = c \div Power(L)
    <3>1. CASE k >= n
      <4> DEFINE r == Power(K)
                 q == Power(L)
                 h == Power(n - 1)
      <4>1. n - 1 <= K /\ n - 1 <= L
        BY <1>1, <1>4, <3>1, WordsType
      <4>2. h <= r /\ h <= q
        <5> HIDE DEF K, L
        <5> QED BY <2>6, <4>1, PowerFacts
      <4>3. /\ r \in Nat \ {0} /\ q \in Nat \ {0} /\ h \in Nat
            /\ c \in Int /\ c < h /\ -h <= c
        BY <1>1, <2>3, <2>6, HalfPower
      <4> HIDE DEF r, q, h, c
      <4>4. CASE c >= 0
        <5>1. c = r * 0 + c /\ c = q * 0 + c /\ c \in Nat /\ c < r /\ c < q /\ 0 \in Int
          BY <4>2, <4>3, <4>4
        <5>2. c \div r = 0
          BY <4>3, <5>1, ModUnique
        <5>3. c \div q = 0
          BY <4>3, <5>1, ModUnique
        <5> QED BY <5>2, <5>3 DEF r, q
      <4>5. CASE c < 0
        <5> DEFINE e == c + r
                   f == c + q
                   one == -1
        <5>1. /\ c = r * one + e /\ c = q * one + f
              /\ e \in Nat /\ f \in Nat /\ e < r /\ f < q /\ one \in Int
          BY <4>2, <4>3, <4>5
        <5> HIDE DEF e, f, one
        <5>2. c \div r = one
          BY <4>3, <5>1, ModUnique
        <5>3. c \div q = one
          BY <4>3, <5>1, ModUnique
        <5> QED BY <5>2, <5>3 DEF r, q
      <4> QED BY <4>3, <4>4, <4>5
    <3>2. CASE ~(k >= n)
      BY <3>2
    <3> QED BY <3>1, <3>2
  <2>8. con \in Int
    <3> HIDE DEF K, c, con
    <3> QED BY <2>3, <2>4, <2>6, DivMod
  <2>9. Value(Concrete(n, con), v) = con % Power(n)
    <3> HIDE DEF con
    <3> QED BY <1>1, <1>4, <2>8, ConcreteValue
  <2> QED BY <2>1, <2>4, <2>5, <2>7, <2>9
<1>5. CASE ~amount.isSymbolic /\ x.isSymbolic
  <2> DEFINE s == [j \in Bits(n) |-> ShiftedRight(n, X[n - 1], X, j, k)]
  <2>1. vec_signedshiftright(x, amount) = Folded(n, s)
    BY <1>0, <1>1, <1>2, <1>5 DEF SignedShift, Shift, ShiftedRight
  <2>2. s \in LitVec(n)
    <3> HIDE DEF X, k
    <3>1. ASSUME NEW j \in Bits(n) PROVE ShiftedRight(n, X[n - 1], X, j, k) \in Literal
      <4>1. n - 1 \in Bits(n)
        BY <1>1 DEF Bits
      <4>2. j + k < n => j + k \in Bits(n)
        BY <1>1, <1>2 DEF Bits
      <4> QED BY <1>1, <4>1, <4>2, LiteralType DEF ShiftedRight, LitVec
    <3> QED BY <3>1 DEF LitVec
  <2>3. \A j \in Bits(n) : Bit(s[j], v) = Bit(ShiftedRight(n, X[n - 1], X, j, k), v)
    OBVIOUS
  <2> HIDE DEF s, X, k, a
  <2>4. Number(s, n, v) = SRIGHT(a, k, n)
    BY <1>3, <2>3
  <2>5. Value(Folded(n, s), v) = Number(s, n, v)
    BY <1>1, <2>2, FoldedValue
  <2> QED BY <2>1, <2>4, <2>5 DEF a, k
<1>6. CASE amount.isSymbolic
  <2> DEFINE u == RightShifter(X, n, amount, X[n - 1])
  <2>1. vec_signedshiftright(x, amount) = Symbolic(n, u)
    BY <1>0, <1>1, <1>6 DEF SignedShift, Shift, Barrel, RightShifter, ShiftedRight
  <2>2. amount.symWord \in LitVec(m) /\ Number(amount.symWord, m, v) = k
    BY <1>2, <1>6
  <2> HIDE DEF X, k, a
  <2>0. X[n - 1] \in Literal
    <3>1. n - 1 \in Bits(n)
      BY <1>1 DEF Bits
    <3> QED BY <1>1, <3>1 DEF LitVec
  <2>3. u \in LitVec(n)
    BY <1>1, <1>2, <2>2, <2>0, RightShifterType
  <2>4. \A j \in Bits(n) : Bit(u[j], v) = Bit(ShiftedRight(n, X[n - 1], X, j, Number(amount.symWord, m, v)), v)
    BY <1>1, <1>2, <2>2, <2>0, RightShifterBits
  <2> HIDE DEF u
  <2>5. Number(u, n, v) = SRIGHT(a, k, n)
    BY <1>3, <2>2, <2>4
  <2>6. Value(Symbolic(n, u), v) = Number(u, n, v)
    BY <1>1, <2>3, SymbolicValue
  <2> QED BY <2>1, <2>5, <2>6 DEF a, k
<1> QED BY <1>4, <1>5, <1>6
-----------------------------------------------------------------------------
(***************************************************************************)
(* Comparisons and flags.                                                  *)
(***************************************************************************)
\* The flags of unsigned comparisons are 1 where the numbers compare so.
THEOREM ComparisonValue ==
  ASSUME NEW n, NEW x, NEW y, Sized(x, n), Sized(y, n), NEW v \in Valuation
  PROVE  /\ Value(pINT_EQUAL(x, y), v) = EQ(Value(x, v), Value(y, v), n)
         /\ Value(pINT_NOTEQUAL(x, y), v) = 1 - EQ(Value(x, v), Value(y, v), n)
         /\ Value(pINT_LESS(x, y), v) = GT(Value(y, v), Value(x, v), n)
         /\ Value(pINT_LESSEQUAL(x, y), v) = 1 - GT(Value(x, v), Value(y, v), n)
         /\ Value(pINT_CARRY(x, y), v) = CARRY(Value(x, v), Value(y, v), n)
<1> DEFINE a == Value(x, v)
           b == Value(y, v)
<1>1. /\ vec_equal(x, y) \in Literal /\ vec_carry(x, y) \in Literal
      /\ vec_greaterthan(x, y) \in Literal
  BY ComparisonType
<1>2. vec_greaterthan(y, x) \in Literal
  BY ComparisonType
<1>3. \A l \in Literal : Value(Flag(l), v) = Bit(l, v)
  BY FlagValue
<1>4. LitNot(vec_equal(x, y)) \in Literal /\ LitNot(vec_greaterthan(x, y)) \in Literal
  BY <1>1, LiteralType
<1>5. v \in vec_equal(x, y) <=> a = b
  BY EqualValue
<1>6. v \in vec_greaterthan(x, y) <=> a > b
  BY GreaterValue
<1>7. v \in vec_greaterthan(y, x) <=> b > a
  BY GreaterValue
<1>8. v \in vec_carry(x, y) <=> a + b >= 2^n
  BY CarryValue DEF Power
<1> HIDE DEF a, b
<1>9. \A l : Bit(LitNot(l), v) = 1 - Bit(l, v)
  BY DEF Bit, LitNot
<1>10. Value(pINT_EQUAL(x, y), v) = EQ(a, b, n)
  BY <1>1, <1>3, <1>5 DEF pINT_EQUAL, Bit, EQ, Truth
<1>11. Value(pINT_NOTEQUAL(x, y), v) = 1 - EQ(a, b, n)
  BY <1>4, <1>3, <1>5, <1>9 DEF pINT_NOTEQUAL, Bit, EQ, Truth
<1>12. Value(pINT_LESS(x, y), v) = GT(b, a, n)
  BY <1>2, <1>3, <1>7 DEF pINT_LESS, vec_lessthan, Bit, GT, Truth
<1>13. Value(pINT_LESSEQUAL(x, y), v) = 1 - GT(a, b, n)
  BY <1>4, <1>3, <1>6, <1>9 DEF pINT_LESSEQUAL, Bit, GT, Truth
<1>14. Value(pINT_CARRY(x, y), v) = CARRY(a, b, n)
  BY <1>1, <1>3, <1>8 DEF pINT_CARRY, Bit, CARRY, Truth
<1> QED BY <1>10, <1>11, <1>12, <1>13, <1>14 DEF a, b

\* What vec_abs gives is the magnitude of the signed number.
LEMMA AbsNumber ==
  ASSUME NEW n, NEW x, Sized(x, n), NEW v \in Valuation
  PROVE  Value(vec_abs(x), v) = Abs(Signed(Value(x, v), n))
<1> DEFINE a == Value(x, v)
           i == Signed(a, n)
           p == Power(n)
<1>1. Value(vec_abs(x), v) = Abs(i) % p
  BY AbsValue DEF ABS, Wrap, Power
<1>2. n \in Nat \ {0} /\ p \in Nat \ {0}
  BY OperandValue
<1>3. i \in Int /\ i < Power(n - 1) /\ -Power(n - 1) <= i
  BY SignedValue
<1>4. p = 2 * Power(n - 1) /\ Power(n - 1) \in Nat \ {0}
  BY SignValue
<1> HIDE DEF i, p
<1>5. Abs(i) \in Nat /\ Abs(i) < p
  BY <1>3, <1>4 DEF Abs
<1> DEFINE c == Abs(i)
<1> HIDE DEF c
<1>6. c % p = c
  BY <1>2, <1>5, ModSmall DEF c
<1> QED BY <1>1, <1>6 DEF c, i

\* The literal of vec_signed_greaterthan holds where the first operand is the
\* greater signed number: the least one too, which is its own absolute value.
THEOREM SignedGreaterValue ==
  ASSUME NEW n, NEW x, NEW y, Sized(x, n), Sized(y, n), SignRight(x), SignRight(y),
         NEW v \in Valuation
  PROVE  v \in vec_signed_greaterthan(x, y) <=> Signed(Value(x, v), n) > Signed(Value(y, v), n)
<1> DEFINE a == Value(x, v)
           b == Value(y, v)
           i == Signed(a, n)
           j == Signed(b, n)
           sx == Lits(x)[n - 1]
           sy == Lits(y)[n - 1]
<1>1. CASE ~x.isSymbolic /\ ~y.isSymbolic
  <2>1. SignedWord(x) = i /\ SignedWord(y) = j
    BY <1>1, SignedWordValue
  <2>2. v \in Const1 /\ v \notin Const0
    BY ConstBits DEF Bit
  <2> HIDE DEF i, j
  <2>3. vec_signed_greaterthan(x, y) = IF i > j THEN Const1 ELSE Const0
    BY <1>1, <2>1 DEF vec_signed_greaterthan
  <2> QED BY <2>2, <2>3 DEF i, j
<1>2. CASE ~(~x.isSymbolic /\ ~y.isSymbolic)
  <2>1. x.size = n /\ y.size = n
    BY SizedFacts
  <2>2. v \in vec_signed_greaterthan(x, y) <=>
          IF (v \in sx) # (v \in sy) THEN v \notin sx
          ELSE IF v \in sx THEN v \in vec_greaterthan(vec_abs(y), vec_abs(x))
                           ELSE v \in vec_greaterthan(x, y)
    <3> DEFINE g == vec_greaterthan(vec_abs(y), vec_abs(x))
               h == vec_greaterthan(x, y)
    <3>1. vec_signed_greaterthan(x, y) = HashMux(HashXor(sx, sy), LitNot(sx), HashMux(sx, g, h))
      BY <1>2, <2>1 DEF vec_signed_greaterthan
    <3> HIDE DEF sx, sy, g, h
    <3> QED BY <3>1 DEF HashMux, HashXor, LitNot, g, h
  <2>3. Sized(vec_abs(x), n) /\ Sized(vec_abs(y), n)
    BY NegateType
  <2>4. Value(vec_abs(x), v) = Abs(i) /\ Value(vec_abs(y), v) = Abs(j)
    BY AbsNumber
  <2>5. v \in vec_greaterthan(vec_abs(y), vec_abs(x)) <=> Abs(j) > Abs(i)
    <3> HIDE DEF i, j
    <3> QED BY <2>3, <2>4, GreaterValue
  <2>6. v \in vec_greaterthan(x, y) <=> a > b
    BY GreaterValue
  <2>7. /\ a \in Nat /\ b \in Nat /\ a < Power(n) /\ b < Power(n) /\ Power(n) \in Nat
    BY OperandValues
  <2>8. /\ v \in sx => i = a - Power(n)
        /\ v \notin sx => i = a
        /\ v \in sy => j = b - Power(n)
        /\ v \notin sy => j = b
    BY SignedValue
  <2> HIDE DEF a, b, i, j, sx, sy
  <2>9. /\ v \in sx => i \in Int /\ i < 0 /\ Abs(i) = Power(n) - a
        /\ v \in sy => j \in Int /\ j < 0 /\ Abs(j) = Power(n) - b
    BY <2>7, <2>8 DEF Abs
  <2>10. CASE v \in sx /\ v \in sy
    BY <2>2, <2>5, <2>7, <2>8, <2>9, <2>10 DEF a, b, i, j
  <2>11. CASE v \in sx /\ v \notin sy
    BY <2>2, <2>7, <2>8, <2>9, <2>11 DEF a, b, i, j
  <2>12. CASE v \notin sx /\ v \in sy
    BY <2>2, <2>7, <2>8, <2>9, <2>12 DEF a, b, i, j
  <2>13. CASE v \notin sx /\ v \notin sy
    BY <2>2, <2>6, <2>7, <2>8, <2>13 DEF a, b, i, j
  <2> QED BY <2>10, <2>11, <2>12, <2>13
<1> QED BY <1>1, <1>2

LEMMA FlagFields ==
  ASSUME NEW l \in Literal
  PROVE  /\ IsConst(l) => ~Flag(l).isSymbolic /\ (Flag(l).conWord = 1 <=> l = Const1)
         /\ ~IsConst(l) => Flag(l).isSymbolic /\ Flag(l).symWord[0] = l
<1>1. Words = 2 * Power(WORD_BITS - 1) /\ Power(WORD_BITS - 1) \in Nat \ {0}
  BY WordsType, HalfPower, PowerFacts
<1>2. 1 % Words = 1 /\ 0 % Words = 0
  <2> DEFINE w == Words
  <2>1. w \in Nat \ {0} /\ 1 < w /\ 0 < w /\ 1 \in Nat /\ 0 \in Nat
    BY <1>1
  <2> HIDE DEF w
  <2>2. 1 % w = 1
    BY <2>1, ModSmall
  <2>3. 0 % w = 0
    BY <2>1, ModSmall
  <2> QED BY <2>2, <2>3 DEF w
<1>3. BITS_IN_BYTE \in Nat \ {0} /\ 0 \in Bits(BITS_IN_BYTE)
  BY WordsType DEF Bits
<1>4. ASSUME IsConst(l)
      PROVE  ~Flag(l).isSymbolic /\ (Flag(l).conWord = 1 <=> l = Const1)
  BY <1>2, <1>4 DEF Flag, Concrete
<1>5. ASSUME ~IsConst(l)
      PROVE  Flag(l).isSymbolic /\ Flag(l).symWord[0] = l
  BY <1>3, <1>5 DEF Flag, SymbolicFlag, Symbolic
<1> QED BY <1>4, <1>5

\* The flags of signed comparisons; that of <= joins the two of < and =, which
\* it finds constant or not.
THEOREM SignedComparisonValue ==
  ASSUME NEW n, NEW x, NEW y, Sized(x, n), Sized(y, n), SignRight(x), SignRight(y),
         NEW v \in Valuation
  PROVE  /\ Value(pINT_SLESS(x, y), v) = SGT(Value(y, v), Value(x, v), n)
         /\ Value(pINT_SLESSEQUAL(x, y), v) = 1 - SGT(Value(x, v), Value(y, v), n)
<1> DEFINE a == Value(x, v)
           b == Value(y, v)
           i == Signed(a, n)
           j == Signed(b, n)
           less == vec_signed_greaterthan(y, x)
           same == vec_equal(x, y)
           sless == Flag(less)
           equal == Flag(same)
           ret == pINT_SLESSEQUAL(x, y)
<1>1. less \in Literal
  BY SignedComparisonType
<1>2. same \in Literal
  BY ComparisonType
<1>3. v \in less <=> j > i
  BY SignedGreaterValue
<1>4. v \in same <=> i = j
  <2>1. v \in same <=> a = b
    BY EqualValue
  <2>2. /\ a \in Nat /\ b \in Nat /\ a < Power(n) /\ b < Power(n) /\ Power(n) \in Nat
    BY OperandValues
  <2>3. /\ v \in Lits(x)[n - 1] => i = a - Power(n)
        /\ v \notin Lits(x)[n - 1] => i = a
        /\ v \in Lits(y)[n - 1] => j = b - Power(n)
        /\ v \notin Lits(y)[n - 1] => j = b
    BY SignedValue
  <2> HIDE DEF a, b, i, j, same
  <2> QED BY <2>1, <2>2, <2>3 DEF i, j
<1>5. i \in Int /\ j \in Int
  BY SignedValue
<1>6. pINT_SLESS(x, y) = sless /\ pINT_EQUAL(x, y) = equal
  BY DEF pINT_SLESS, pINT_EQUAL, vec_signed_lessthan
<1>7. Value(sless, v) = Bit(less, v) /\ Value(equal, v) = Bit(same, v)
  BY <1>1, <1>2, FlagValue
<1>8. ret = CASE ~sless.isSymbolic -> IF sless.conWord = 1 THEN sless ELSE equal
              [] sless.isSymbolic /\ ~equal.isSymbolic -> IF equal.conWord = 1 THEN equal ELSE sless
              [] sless.isSymbolic /\ equal.isSymbolic ->
                   SymbolicFlag(HashOr(sless.symWord[0], equal.symWord[0]))
  BY <1>6 DEF pINT_SLESSEQUAL
<1>9. /\ IsConst(less) => ~sless.isSymbolic /\ (sless.conWord = 1 <=> less = Const1)
      /\ ~IsConst(less) => sless.isSymbolic /\ sless.symWord[0] = less
  BY <1>1, FlagFields
<1>10. /\ IsConst(same) => ~equal.isSymbolic /\ (equal.conWord = 1 <=> same = Const1)
       /\ ~IsConst(same) => equal.isSymbolic /\ equal.symWord[0] = same
  BY <1>2, FlagFields
<1>11. HashOr(less, same) \in Literal
  BY <1>1, <1>2, LiteralType
<1>12. Value(SymbolicFlag(HashOr(less, same)), v) = Bit(HashOr(less, same), v)
  BY <1>11, FlagValue
<1>13. v \in Const1 /\ v \notin Const0
  BY ConstBits DEF Bit
<1> HIDE DEF i, j, less, same, sless, equal, ret
<1>14. Value(ret, v) = IF v \in less \/ v \in same THEN 1 ELSE 0
  <2>1. CASE IsConst(less) /\ less = Const1
    <3>1. ret = sless
      BY <1>8, <1>9, <2>1
    <3> QED BY <1>7, <1>13, <2>1, <3>1 DEF Bit
  <2>2. CASE IsConst(less) /\ less # Const1
    <3>1. ret = equal /\ less = Const0
      BY <1>8, <1>9, <2>2 DEF IsConst
    <3> QED BY <1>7, <1>13, <2>2, <3>1 DEF Bit
  <2>3. CASE ~IsConst(less) /\ IsConst(same) /\ same = Const1
    <3>1. ret = equal
      BY <1>8, <1>9, <1>10, <2>3
    <3> QED BY <1>7, <1>13, <2>3, <3>1 DEF Bit
  <2>4. CASE ~IsConst(less) /\ IsConst(same) /\ same # Const1
    <3>1. ret = sless /\ same = Const0
      BY <1>8, <1>9, <1>10, <2>4 DEF IsConst
    <3> QED BY <1>7, <1>13, <2>4, <3>1 DEF Bit
  <2>5. CASE ~IsConst(less) /\ ~IsConst(same)
    <3>1. ret = SymbolicFlag(HashOr(less, same))
      BY <1>8, <1>9, <1>10, <2>5
    <3> QED BY <1>12, <3>1 DEF Bit, HashOr
  <2> QED BY <2>1, <2>2, <2>3, <2>4, <2>5
<1>15. Value(pINT_SLESS(x, y), v) = SGT(b, a, n)
  BY <1>3, <1>6, <1>7 DEF SGT, Truth, Bit, i, j
<1>16. Value(ret, v) = 1 - SGT(a, b, n)
  <2>1. Value(ret, v) = 1 - Truth(i > j)
    BY <1>3, <1>4, <1>5, <1>14 DEF Truth
  <2> QED BY <2>1 DEF SGT, i, j
<1> QED BY <1>15, <1>16 DEF ret

\* The last bit of a vector is whether its number is odd.
LEMMA LowBit ==
  ASSUME NEW n, NEW x, Sized(x, n), NEW v \in Valuation
  PROVE  Value(x, v) % 2 = Bit(Lits(x)[0], v)
<1> DEFINE s == Lits(x)
<1>1. Value(x, v) = Number(s, n, v) /\ n \in Nat /\ 1 <= n
  BY OperandValue
<1>2. 1 \in Nat /\ 0 \in Nat /\ 0 + 1 = 1 /\ Power(0 + 1) = 2 * Power(0) /\ Power(0) = 1
  BY PowerFacts
<1>3. Power(1) = 2
  BY <1>2
<1> HIDE DEF s
<1>4. Number(s, n, v) % Power(1) = Number(s, 1, v)
  BY <1>1, <1>2, NumberLow
<1>5. Number(s, 0, v) = 0 /\ Number(s, 0 + 1, v) = Number(s, 0, v) + Power(0) * Bit(s[0], v)
  BY <1>2, NumberStep
<1>6. Number(s, 1, v) = Bit(s[0], v)
  BY <1>2, <1>5, BitType
<1> QED BY <1>1, <1>3, <1>4, <1>6 DEF s

LEMMA OneBitNumber ==
  ASSUME NEW l, NEW v, NEW p \in {0, 1}, NEW q \in {0, 1}
  PROVE  /\ Bit(l, v) = p * q => AND(p, q, 1) = Bit(l, v)
         /\ Bit(l, v) = p + q - p * q => OR(p, q, 1) = Bit(l, v)
         /\ Bit(l, v) = (p + q) % 2 => XOR(p, q, 1) = Bit(l, v)
<1> DEFINE s == [i \in Bits(1) |-> l]
<1>1. 2^0 = 1 /\ Bits(1) = {0} /\ 1 \in Nat /\ 0 \in Nat /\ 0 + 1 = 1 /\ Power(0) = 1
  BY PowerZero, PowerFacts DEF Bits
<1>2. \A i \in Bits(1) : s[i] = l
  OBVIOUS
<1>3. s[0] = l
  BY <1>1
<1> HIDE DEF s
<1>4. Number(s, 0, v) = 0 /\ Number(s, 0 + 1, v) = Number(s, 0, v) + Power(0) * Bit(s[0], v)
  BY <1>1, NumberStep
<1>5. Number(s, 1, v) = Bit(l, v)
  BY <1>1, <1>3, <1>4, BitType
<1>6. (p \div 1) % 2 = p /\ (q \div 1) % 2 = q
  OBVIOUS
<1>7. ASSUME Bit(l, v) = p * q PROVE AND(p, q, 1) = Bit(l, v)
  <2>1. \A i \in Bits(1) : Bit(s[i], v) = ((p \div 2^i) % 2) * ((q \div 2^i) % 2)
    BY <1>1, <1>2, <1>6, <1>7
  <2>2. AND(p, q, 1) = Number(s, 1, v)
    BY <1>1, <2>1, AndNumber
  <2> QED BY <1>5, <2>2
<1>8. ASSUME Bit(l, v) = p + q - p * q PROVE OR(p, q, 1) = Bit(l, v)
  <2>1. \A i \in Bits(1) :
          Bit(s[i], v) = ((p \div 2^i) % 2) + ((q \div 2^i) % 2) - ((p \div 2^i) % 2) * ((q \div 2^i) % 2)
    BY <1>1, <1>2, <1>6, <1>8
  <2>2. OR(p, q, 1) = Number(s, 1, v)
    BY <1>1, <2>1, OrNumber
  <2> QED BY <1>5, <2>2
<1>9. ASSUME Bit(l, v) = (p + q) % 2 PROVE XOR(p, q, 1) = Bit(l, v)
  <2>1. \A i \in Bits(1) : Bit(s[i], v) = (((p \div 2^i) % 2) + ((q \div 2^i) % 2)) % 2
    BY <1>1, <1>2, <1>6, <1>9
  <2>2. XOR(p, q, 1) = Number(s, 1, v)
    BY <1>1, <2>1, XorNumber
  <2> QED BY <1>5, <2>2
<1> QED BY <1>7, <1>8, <1>9

\* The boolean operations are those on the last bits of their operands.
THEOREM BooleanValue ==
  ASSUME NEW n, NEW x, Sized(x, n), NEW m, NEW y, Sized(y, m), NEW v \in Valuation
  PROVE  /\ Value(pBOOL_AND(x, y), v) = AND(Value(x, v) % 2, Value(y, v) % 2, 1)
         /\ Value(pBOOL_OR(x, y), v) = OR(Value(x, v) % 2, Value(y, v) % 2, 1)
         /\ Value(pBOOL_XOR(x, y), v) = XOR(Value(x, v) % 2, Value(y, v) % 2, 1)
         /\ Value(pBOOL_NEGATE(x), v) = 1 - (Value(x, v) % 2)
<1> DEFINE k == Lits(x)[0]
           l == Lits(y)[0]
           p == Bit(k, v)
           q == Bit(l, v)
<1>1. k \in Literal
  BY BooleanType
<1>2. l \in Literal
  BY BooleanType
<1>3. Value(x, v) % 2 = p /\ Value(y, v) % 2 = q
  BY LowBit
<1> HIDE DEF k, l
<1>4. /\ HashAnd(k, l) \in Literal /\ HashOr(k, l) \in Literal /\ HashXor(k, l) \in Literal
      /\ LitNot(k) \in Literal
  BY <1>1, <1>2, LiteralType
<1>5. \A h \in Literal : Value(SymbolicFlag(h), v) = Bit(h, v) /\ Value(Flag(h), v) = Bit(h, v)
  BY FlagValue
<1>6. p \in {0, 1} /\ q \in {0, 1}
  BY BitType
<1>7. /\ Bit(HashAnd(k, l), v) = p * q
      /\ Bit(HashOr(k, l), v) = p + q - p * q
      /\ Bit(HashXor(k, l), v) = (p + q) % 2
      /\ Bit(LitNot(k), v) = 1 - p
  BY DEF Bit, HashAnd, HashOr, HashXor, LitNot
<1> HIDE DEF p, q
<1>8. Value(pBOOL_AND(x, y), v) = AND(p, q, 1)
  <2>1. AND(p, q, 1) = Bit(HashAnd(k, l), v)
    BY <1>6, <1>7, OneBitNumber
  <2> QED BY <1>4, <1>5, <2>1 DEF pBOOL_AND, BoolOp, k, l
<1>9. Value(pBOOL_OR(x, y), v) = OR(p, q, 1)
  <2>1. OR(p, q, 1) = Bit(HashOr(k, l), v)
    BY <1>6, <1>7, OneBitNumber
  <2> QED BY <1>4, <1>5, <2>1 DEF pBOOL_OR, BoolOp, k, l
<1>10. Value(pBOOL_XOR(x, y), v) = XOR(p, q, 1)
  <2>1. XOR(p, q, 1) = Bit(HashXor(k, l), v)
    BY <1>6, <1>7, OneBitNumber
  <2> QED BY <1>4, <1>5, <2>1 DEF pBOOL_XOR, BoolOp, k, l
<1>11. Value(pBOOL_NEGATE(x), v) = 1 - p
  <2>1. pBOOL_NEGATE(x) \in {SymbolicFlag(LitNot(k)), Flag(LitNot(k))}
    BY DEF pBOOL_NEGATE, k
  <2> QED BY <1>4, <1>5, <1>7, <2>1
<1> QED BY <1>3, <1>8, <1>9, <1>10, <1>11

\* A literal the solver made constant is what it was where the path is taken.
LEMMA SolvedBit ==
  ASSUME NEW p, NEW l, NEW v \in p, NEW k \in SolvedLit(p, l), v \in Valuation
  PROVE  v \in k <=> v \in l
<1>1. v \in Const1 /\ v \notin Const0
  BY ConstBits DEF Bit
<1>2. \/ k = l
      \/ k = Const0 /\ p \cap l = {}
      \/ k = Const1 /\ p \subseteq l
  BY DEF SolvedLit
<1> QED BY <1>1, <1>2

\* vec_concretize_with_SAT changes no bit on the path.
THEOREM ConcretizeValue ==
  ASSUME NEW n, NEW x, Sized(x, n), NEW p, NEW z \in vec_concretize_with_SAT(p, x),
         NEW v \in p, v \in Valuation
  PROVE  Value(z, v) = Value(x, v)
<1> DEFINE X == Lits(x)
<1>1. CASE ~x.isSymbolic
  BY <1>1 DEF vec_concretize_with_SAT
<1>2. CASE x.isSymbolic
  <2>1. n \in Nat \ {0} /\ x.size = n /\ X \in LitVec(n) /\ x.symWord = X
    BY <1>2, SizedFacts
  <2>2. PICK s \in [Bits(n) -> UNION {SolvedLit(p, X[i]) : i \in Bits(n)}] :
          z = Folded(n, s) /\ \A i \in Bits(n) : s[i] \in SolvedLit(p, X[i])
    <3> HIDE DEF X
    <3> QED BY <1>2, <2>1 DEF vec_concretize_with_SAT
  <2> HIDE DEF X
  <2>3. s \in LitVec(n)
    <3>1. \A i \in Bits(n) : s[i] \in Literal
      <4> TAKE i \in Bits(n)
      <4>1. X[i] \in Literal
        BY <2>1 DEF LitVec
      <4>2. SolvedLit(p, X[i]) \subseteq Literal
        BY <4>1, SolvedType
      <4> QED BY <2>2, <4>2
    <3> QED BY <2>2, <3>1 DEF LitVec
  <2>4. \A i \in Bits(n) : Bit(s[i], v) = Bit(X[i], v)
    <3> TAKE i \in Bits(n)
    <3>1. s[i] \in SolvedLit(p, X[i])
      BY <2>2
    <3>2. v \in s[i] <=> v \in X[i]
      BY <3>1, SolvedBit
    <3> QED BY <3>2 DEF Bit
  <2>5. Number(s, n, v) = Number(X, n, v)
    BY <2>1, <2>4, NumberSame
  <2>6. Value(Folded(n, s), v) = Number(s, n, v)
    BY <2>1, <2>3, FoldedValue
  <2>7. Value(x, v) = Number(X, n, v)
    BY OperandValue DEF X
  <2> QED BY <2>2, <2>5, <2>6, <2>7
<1>3. x.isSymbolic \in BOOLEAN
  BY SizedFacts
<1> QED BY <1>1, <1>2, <1>3

(***************************************************************************)
(* Signed quotients.                                                       *)
(***************************************************************************)
AbsOf(x, n, v) == Abs(Signed(Value(x, v), n))

NegatedWhere(b, w, n) == IF b THEN (-w) % Power(n) ELSE w

\* A division of magnitudes, negated where sign holds.
LEMMA UnsignedValue ==
  ASSUME NEW n, NEW x, NEW y, Sized(x, n), Sized(y, n), NEW sign \in Literal, NEW v \in Valuation
  PROVE  /\ Value(Unsigned(x, y, TRUE, sign), v) =
              NegatedWhere(v \in sign, DIV(AbsOf(x, n, v), AbsOf(y, n, v), n), n)
         /\ Value(Unsigned(x, y, FALSE, sign), v) =
              NegatedWhere(v \in sign, REM(AbsOf(x, n, v), AbsOf(y, n, v), n), n)
<1> DEFINE i == Abs(Signed(Value(x, v), n))
           j == Abs(Signed(Value(y, v), n))
<1>1. Sized(vec_abs(x), n)
  BY NegateType
<1>2. Sized(vec_abs(y), n)
  BY NegateType
<1>3. Value(vec_abs(x), v) = i
  BY AbsNumber
<1>4. Value(vec_abs(y), v) = j
  BY AbsNumber
<1> HIDE DEF i, j
<1>5. ASSUME NEW quot_rem \in BOOLEAN
      PROVE  LET w == Value(vec_quot_rem(vec_abs(x), vec_abs(y), quot_rem), v)
             IN  Value(Unsigned(x, y, quot_rem, sign), v) = IF v \in sign THEN (-w) % Power(n) ELSE w
  <2> DEFINE ret == vec_quot_rem(vec_abs(x), vec_abs(y), quot_rem)
  <2>1. Sized(ret, n)
    BY <1>1, <1>2, AddSubType
  <2>2. Unsigned(x, y, quot_rem, sign) = vec_ite(sign, vec_negate(ret), ret)
    BY DEF Unsigned
  <2> HIDE DEF ret
  <2>3. Sized(vec_negate(ret), n)
    BY <2>1, NegateType
  <2>4. Value(vec_negate(ret), v) = (-Value(ret, v)) % Power(n)
    BY <2>1, NegateValue DEF NEG, Wrap, Power
  <2>5. Value(vec_ite(sign, vec_negate(ret), ret), v)
          = IF v \in sign THEN Value(vec_negate(ret), v) ELSE Value(ret, v)
    BY <2>1, <2>3, IteValue
  <2> QED BY <2>2, <2>4, <2>5 DEF ret
<1>6. /\ Value(vec_quot_rem(vec_abs(x), vec_abs(y), TRUE), v) = DIV(i, j, n)
      /\ Value(vec_quot_rem(vec_abs(x), vec_abs(y), FALSE), v) = REM(i, j, n)
  BY <1>1, <1>2, <1>3, <1>4, QuotRemValue
<1> QED BY <1>5, <1>6 DEF i, j, AbsOf, NegatedWhere

\* The number and what it is with a sign.
LEMMA SignedFacts ==
  ASSUME NEW n, NEW x, Sized(x, n), NEW v \in Valuation
  PROVE  LET a == Value(x, v)
             i == Signed(a, n)
         IN  /\ i \in Int /\ a \in Nat /\ a < Power(n) /\ Power(n) \in Nat \ {0} /\ n \in Nat \ {0}
             /\ Abs(i) \in Nat /\ Abs(i) < Power(n) /\ Abs(i) = IF i < 0 THEN -i ELSE i
             /\ v \in Lits(x)[n - 1] <=> i < 0
             /\ i < 0 => i = a - Power(n)
             /\ ~(i < 0) => i = a
             /\ i = 0 <=> a = 0
             /\ i % Power(n) = a
<1> DEFINE a == Value(x, v)
           i == Signed(a, n)
           p == Power(n)
<1>1. a \in Nat /\ a < p /\ p \in Nat \ {0} /\ n \in Nat \ {0}
  BY OperandValue
<1>2. /\ i \in Int
      /\ i < Power(n - 1) /\ -Power(n - 1) <= i
      /\ v \in Lits(x)[n - 1] => i = a - p
      /\ v \notin Lits(x)[n - 1] => i = a
  BY SignedValue
<1>3. p = 2 * Power(n - 1) /\ Power(n - 1) \in Nat \ {0}
  BY SignValue
<1> HIDE DEF a, i, p
<1>4. /\ v \in Lits(x)[n - 1] <=> i < 0
      /\ i < 0 => i = a - p
      /\ ~(i < 0) => i = a
      /\ i = 0 <=> a = 0
  <2>1. CASE v \in Lits(x)[n - 1]
    <3>1. i = a - p
      BY <1>2, <2>1
    <3>2. i < 0
      BY <1>1, <1>2, <3>1
    <3>3. a # 0
      BY <1>1, <1>2, <1>3, <3>1
    <3> QED BY <1>1, <2>1, <3>1, <3>2, <3>3
  <2>2. CASE v \notin Lits(x)[n - 1]
    <3>1. i = a
      BY <1>2, <2>2
    <3>2. ~(i < 0)
      BY <1>1, <1>2, <3>1
    <3> QED BY <1>1, <2>2, <3>1, <3>2
  <2> QED BY <2>1, <2>2
<1>5. Abs(i) \in Nat /\ Abs(i) < p /\ Abs(i) = IF i < 0 THEN -i ELSE i
  BY <1>2, <1>3 DEF Abs
<1>6. i % p = a
  <2>1. i = p * (IF i < 0 THEN -1 ELSE 0) + a /\ (IF i < 0 THEN -1 ELSE 0) \in Int
    BY <1>1, <1>4
  <2> DEFINE c == IF i < 0 THEN -1 ELSE 0
  <2> HIDE DEF c
  <2>2. i = p * c + a /\ c \in Int
    BY <2>1 DEF c
  <2> QED BY <1>1, <1>2, <2>2, ModUnique
<1> QED BY <1>1, <1>2, <1>4, <1>5, <1>6 DEF a, i, p

\* The remainder of a truncated division has the sign of the dividend.
LEMMA TruncatedRemainder ==
  ASSUME NEW i \in Int, NEW j \in Int, j # 0
  PROVE  LET r == Abs(i) % Abs(j)
         IN  i - j * Quotient(i, j) = IF i < 0 THEN -r ELSE r
<1> DEFINE a == Abs(i)
           b == Abs(j)
           q == a \div b
           r == a % b
<1>1. a \in Nat /\ b \in Nat \ {0} /\ a \in Int
  BY DEF Abs
<1>2. /\ i < 0 => i = -a
      /\ ~(i < 0) => i = a
      /\ j < 0 => j = -b
      /\ ~(j < 0) => j = b
  BY DEF Abs
<1>3. Quotient(i, j) = IF (i < 0) = (j < 0) THEN q ELSE -q
  BY DEF Quotient
<1> HIDE DEF a, b
<1>4. a = b * q + r /\ q \in Int /\ r \in Nat
  BY <1>1, DivMod
<1> HIDE DEF q, r
<1>5. (-b) * (-q) = b * q /\ b * (-q) = -(b * q) /\ (-b) * q = -(b * q) /\ b * q \in Int
  BY <1>1, <1>4
<1> DEFINE m == b * q
<1>6. j * Quotient(i, j) = IF i < 0 THEN -m ELSE m
  <2>1. CASE i < 0 /\ j < 0
    BY <1>2, <1>3, <1>5, <2>1
  <2>2. CASE i < 0 /\ ~(j < 0)
    BY <1>2, <1>3, <1>5, <2>2
  <2>3. CASE ~(i < 0) /\ j < 0
    BY <1>2, <1>3, <1>5, <2>3
  <2>4. CASE ~(i < 0) /\ ~(j < 0)
    BY <1>2, <1>3, <1>5, <2>4
  <2> QED BY <2>1, <2>2, <2>3, <2>4
<1>7. a = m + r /\ m \in Int
  BY <1>4, <1>5
<1> HIDE DEF m
<1>8. i - j * Quotient(i, j) = IF i < 0 THEN -r ELSE r
  BY <1>2, <1>4, <1>6, <1>7
<1> QED BY <1>8 DEF r, a, b

\* pINT_SDIV is the quotient of signed numbers that truncates, and 0 where the
\* divisor is: on words in C, where the quotient fits one, and on literals from
\* the magnitudes.
THEOREM SignedQuotientValue ==
  ASSUME NEW n, NEW x, NEW y, Sized(x, n), Sized(y, n), n <= WORD_BITS,
         SignRight(x), SignRight(y), NEW v \in Valuation, QuotientFits(x, y)
  PROVE  Value(pINT_SDIV(x, y), v) = SDIV(Value(x, v), Value(y, v), n)
<1> DEFINE a == Value(x, v)
           b == Value(y, v)
           i == Signed(a, n)
           j == Signed(b, n)
           p == Power(n)
           zero == Concrete(n, 0)
           zerotest == vec_equal(y, zero)
           sign == HashXor(Lits(x)[n - 1], Lits(y)[n - 1])
           q == Abs(i) \div Abs(j)
<1>1. /\ i \in Int /\ p \in Nat \ {0} /\ n \in Nat \ {0}
      /\ Abs(i) \in Nat /\ Abs(i) < p
      /\ v \in Lits(x)[n - 1] <=> i < 0
  BY SignedFacts
<1>2. /\ j \in Int /\ b \in Nat
      /\ Abs(j) \in Nat /\ Abs(j) < p /\ Abs(j) = IF j < 0 THEN -j ELSE j
      /\ v \in Lits(y)[n - 1] <=> j < 0
      /\ j = 0 <=> b = 0
  BY SignedFacts
<1>3. SDIV(a, b, n) = IF b = 0 THEN 0 ELSE Quotient(i, j) % p
  BY DEF SDIV, Wrap, Power
<1>4. Sized(zero, n)
  BY <1>1, ConcreteType
<1>5. Value(zero, v) = 0
  <2>1. Value(zero, v) = 0 % p /\ 0 \in Nat /\ 0 < p
    <3>1. 0 \in Int
      OBVIOUS
    <3> QED BY <1>1, <3>1, ConcreteValue
  <2> HIDE DEF p
  <2>2. 0 % p = 0
    BY <1>1, <2>1, ModSmall
  <2> QED BY <2>1, <2>2
<1>6. x.size = n /\ y.size = n
  BY SizedFacts
<1>7. CASE ~x.isSymbolic /\ ~y.isSymbolic
  <2> DEFINE w == IF j = 0 THEN 0 ELSE CQuotient(i, j)
  <2>1. SignedWord(x) = i /\ SignedWord(y) = j
    BY <1>7, SignedWordValue
  <2>2. pINT_SDIV(x, y) = Concrete(n, w)
    <3> HIDE DEF i, j
    <3> QED BY <1>6, <1>7, <2>1 DEF pINT_SDIV
  <2>3. w \in Int
    <3> HIDE DEF i, j
    <3>1. j # 0 => CQuotient(i, j) \in Int
      BY <1>1, <1>2, CQuotientType
    <3> QED BY <3>1
  <2>4. w = IF j = 0 THEN 0 ELSE Quotient(i, j)
    BY DEF CQuotient, Magnitude, Quotient, Abs
  <2> HIDE DEF w
  <2>5. Value(Concrete(n, w), v) = w % p
    BY <1>1, <2>3, ConcreteValue
  <2>6. 0 % p = 0
    <3> HIDE DEF p
    <3>1. 0 \in Nat /\ 0 < p
      BY <1>1
    <3> QED BY <1>1, <3>1, ModSmall
  <2> QED BY <1>2, <1>3, <2>2, <2>4, <2>5, <2>6
<1>8. CASE x.isSymbolic /\ ~y.isSymbolic /\ y.conWord = 0
  <2>1. pINT_SDIV(x, y) = zero
    BY <1>6, <1>8 DEF pINT_SDIV
  <2>2. b = 0
    <3>1. b = 0 % p
      BY <1>8, OperandValue
    <3>2. 0 \in Nat /\ 0 < p
      BY <1>1
    <3> HIDE DEF p
    <3> QED BY <1>1, <3>1, <3>2, ModSmall
  <2> QED BY <1>3, <1>5, <2>1, <2>2
<1>9. CASE ~(~x.isSymbolic /\ ~y.isSymbolic) /\ ~(x.isSymbolic /\ ~y.isSymbolic /\ y.conWord = 0)
  <2> DEFINE u == Unsigned(x, y, TRUE, sign)
  <2>1. pINT_SDIV(x, y) = IF zerotest = Const1 THEN zero ELSE vec_ite(zerotest, zero, u)
    BY <1>6, <1>9 DEF pINT_SDIV
  <2>2. zerotest \in Literal
    <3> HIDE DEF zero
    <3> QED BY <1>4, ComparisonType
  <2>3. v \in zerotest <=> b = 0
    <3> HIDE DEF zero
    <3> QED BY <1>4, <1>5, EqualValue
  <2>4. sign \in Literal
    <3>1. Lits(x)[n - 1] \in Literal /\ Lits(y)[n - 1] \in Literal
      BY SignValue
    <3> QED BY <3>1, LiteralType
  <2>5. v \in sign <=> (i < 0) # (j < 0)
    <3> HIDE DEF i, j
    <3> QED BY <1>1, <1>2 DEF HashXor
  <2>6. Sized(u, n)
    <3> HIDE DEF sign
    <3>1. TRUE \in BOOLEAN
      OBVIOUS
    <3> QED BY <2>4, <3>1, UnsignedType
  <2>7. b # 0 => Value(u, v) = IF v \in sign THEN (-q) % p ELSE q
    <3> HIDE DEF sign
    <3> DEFINE d == DIV(Abs(i), Abs(j), n)
    <3>1. Value(u, v) = NegatedWhere(v \in sign, DIV(AbsOf(x, n, v), AbsOf(y, n, v), n), n)
      BY <2>4, UnsignedValue
    <3>3. Value(u, v) = IF v \in sign THEN (-d) % p ELSE d
      BY <3>1 DEF NegatedWhere, AbsOf
    <3>2. b # 0 => DIV(Abs(i), Abs(j), n) = q
      <4> HIDE DEF i, j, b
      <4>1. b # 0 => Abs(j) # 0
        BY <1>2
      <4> QED BY <4>1 DEF DIV
    <3> HIDE DEF q, i, j, b, u
    <3> QED BY <3>2, <3>3
  <2> HIDE DEF u, zero, zerotest, sign
  <2>8. Value(vec_ite(zerotest, zero, u), v) = IF v \in zerotest THEN Value(zero, v) ELSE Value(u, v)
    BY <1>4, <2>2, <2>6, IteValue
  <2>9. v \in Const1
    BY ConstBits DEF Bit
  <2>10. Value(pINT_SDIV(x, y), v) = IF b = 0 THEN 0 ELSE Value(u, v)
    BY <1>5, <2>1, <2>3, <2>8, <2>9
  <2>11. b # 0 => Quotient(i, j) = IF (i < 0) = (j < 0) THEN q ELSE -q
    BY DEF Quotient
  <2>12. b # 0 => q \in Nat /\ q % p = q
    <3> HIDE DEF i, j, b, p
    <3> SUFFICES ASSUME b # 0 PROVE q \in Nat /\ q % p = q
      OBVIOUS
    <3>1. Abs(j) \in Nat \ {0}
      BY <1>2
    <3>2. q \in Nat /\ q <= Abs(i)
      BY <1>1, <3>1, QuotientBound
    <3> HIDE DEF q
    <3>3. q < p
      BY <1>1, <3>2
    <3> QED BY <1>1, <3>2, <3>3, ModSmall
  <2> HIDE DEF q, i, j, b, p, a
  <2>13. b # 0 => Value(u, v) = Quotient(i, j) % p
    BY <2>5, <2>7, <2>11, <2>12
  <2> QED BY <1>3, <2>10, <2>13 DEF q, i, j, b, a
<1> QED BY <1>7, <1>8, <1>9

\* pINT_SREM is the remainder of signed numbers, which has the sign of the
\* dividend, and for a zero divisor the dividend: except where a symbolic one
\* is divided by a word that is 0, and where the quotient of two words does not
\* fit one.
THEOREM SignedRemainderValue ==
  ASSUME NEW n, NEW x, NEW y, Sized(x, n), Sized(y, n), SignRight(x), SignRight(y),
         QuotientFits(x, y), ~(x.isSymbolic /\ ~y.isSymbolic /\ y.conWord = 0), NEW v \in Valuation
  PROVE  Value(pINT_SREM(x, y), v) = SREM(Value(x, v), Value(y, v), n)
<1> DEFINE a == Value(x, v)
           b == Value(y, v)
           i == Signed(a, n)
           j == Signed(b, n)
           p == Power(n)
           sign == Lits(x)[n - 1]
           r == Abs(i) % Abs(j)
<1>1. /\ i \in Int /\ a \in Nat /\ p \in Nat \ {0} /\ n \in Nat \ {0}
      /\ Abs(i) \in Nat /\ Abs(i) < p /\ Abs(i) = IF i < 0 THEN -i ELSE i
      /\ v \in sign <=> i < 0
      /\ i < 0 => i = a - p
      /\ ~(i < 0) => i = a
      /\ i % p = a
  BY SignedFacts
<1>2. /\ j \in Int /\ b \in Nat
      /\ Abs(j) \in Nat /\ Abs(j) < p /\ Abs(j) = IF j < 0 THEN -j ELSE j
      /\ j = 0 <=> b = 0
  BY SignedFacts
<1>3. SREM(a, b, n) = IF b = 0 THEN a ELSE (i - j * Quotient(i, j)) % p
  BY DEF SREM, Wrap, Power
<1>4. x.size = n /\ y.size = n
  BY SizedFacts
<1>5. CASE ~x.isSymbolic /\ ~y.isSymbolic
  <2> DEFINE w == IF j = 0 THEN x.conWord ELSE CRemainder(i, j)
  <2>1. SignedWord(x) = i /\ SignedWord(y) = j
    BY <1>5, SignedWordValue
  <2>2. pINT_SREM(x, y) = Concrete(n, w)
    <3> HIDE DEF i, j
    <3> QED BY <1>4, <1>5, <2>1 DEF pINT_SREM
  <2>3. n <= WORD_BITS /\ x.conWord \in Int /\ a = x.conWord % p
    BY <1>5, OperandValue
  <2>4. w \in Int
    <3> HIDE DEF i, j
    <3>1. j # 0 => CRemainder(i, j) \in Int
      BY <1>1, <1>2, CQuotientType
    <3> QED BY <2>3, <3>1
  <2>5. w = IF j = 0 THEN x.conWord ELSE i - j * Quotient(i, j)
    BY DEF CRemainder, CQuotient, Magnitude, Quotient, Abs
  <2> HIDE DEF w
  <2>6. Value(Concrete(n, w), v) = w % p
    BY <1>1, <2>3, <2>4, ConcreteValue
  <2> HIDE DEF i, j, a, b, p
  <2> QED BY <1>2, <1>3, <2>2, <2>3, <2>5, <2>6 DEF a, b
<1>6. CASE ~(~x.isSymbolic /\ ~y.isSymbolic)
  <2> DEFINE d == REM(Abs(i), Abs(j), n)
  <2>1. pINT_SREM(x, y) = Unsigned(x, y, FALSE, sign)
    BY <1>4, <1>6 DEF pINT_SREM
  <2>2. sign \in Literal
    BY SignValue
  <2>3. Value(pINT_SREM(x, y), v) = IF v \in sign THEN (-d) % p ELSE d
    <3> HIDE DEF sign
    <3>1. Value(Unsigned(x, y, FALSE, sign), v)
            = NegatedWhere(v \in sign, REM(AbsOf(x, n, v), AbsOf(y, n, v), n), n)
      BY <2>2, UnsignedValue
    <3> QED BY <2>1, <3>1 DEF NegatedWhere, AbsOf
  <2>4. CASE b = 0
    <3>1. d = Abs(i)
      <4>1. Abs(j) = 0
        BY <1>2, <2>4
      <4> QED BY <4>1 DEF REM
    <3> HIDE DEF i, j, d, p, a, b, sign
    <3>2. i < 0 => -d = i
      BY <1>1, <3>1
    <3> QED BY <1>1, <1>3, <2>3, <2>4, <3>1, <3>2 DEF a, b
  <2>5. CASE b # 0
    <3>1. d = r
      <4> HIDE DEF i, j
      <4>1. Abs(j) # 0
        BY <1>2, <2>5
      <4> QED BY <4>1 DEF REM
    <3>2. i - j * Quotient(i, j) = IF i < 0 THEN -r ELSE r
      <4> HIDE DEF i, j
      <4>1. j # 0
        BY <1>2, <2>5
      <4> QED BY <1>1, <1>2, <4>1, TruncatedRemainder
    <3>3. r \in Nat /\ r < p
      <4> HIDE DEF i, j, p
      <4>1. Abs(j) \in Nat \ {0} /\ Abs(i) \in Int
        BY <1>1, <1>2, <2>5
      <4>2. r \in Nat /\ r < Abs(j)
        BY <4>1, DivMod
      <4> HIDE DEF r
      <4> QED BY <1>2, <1>1, <4>2
    <3> HIDE DEF i, j, d, p, a, b, sign, r
    <3>4. r % p = r
      BY <1>1, <3>3, ModSmall
    <3> QED BY <1>1, <1>3, <2>3, <2>5, <3>1, <3>2, <3>4 DEF a, b
  <2> QED BY <2>4, <2>5
<1> QED BY <1>5, <1>6

(***************************************************************************)
(* Signed carries.                                                         *)
(***************************************************************************)
\* The carries of an addition depend on the bits below them only.
LEMMA CarryPrefix ==
  ASSUME NEW n \in Nat, NEW m \in Nat, m <= n, NEW X, NEW Y, HasBits(X, n), HasBits(Y, n)
  PROVE  HasBits(X, m) /\ HasBits(Y, m) /\ Carry(X, Y, m)[m] = Carry(X, Y, n)[m]
<1> DEFINE C == Carry(X, Y, n)
           D == Carry(X, Y, m)
           G == {k \in 0 .. m : D[k] = C[k]}
<1>1. HasBits(X, m) /\ HasBits(Y, m)
  BY DEF HasBits, Bits
<1>2. C[0] = Const0 /\ \A i \in 1 .. n : C[i] = CarryStep(X, Y, i, C[i - 1])
  BY CarryIs
<1>3. D[0] = Const0 /\ \A i \in 1 .. m : D[i] = CarryStep(X, Y, i, D[i - 1])
  BY <1>1, CarryIs
<1> HIDE DEF C, D
<1>4. 0 \in G
  BY <1>2, <1>3
<1>5. \A k \in 1 .. m : k - 1 \in G => k \in G
  BY <1>2, <1>3
<1> HIDE DEF G
<1>6. 0 .. m \subseteq G
  BY <1>4, <1>5, UpTo
<1>7. m \in 0 .. m
  OBVIOUS
<1>8. D[m] = C[m]
  BY <1>6, <1>7 DEF G
<1> QED BY <1>1, <1>8 DEF C, D

Overflows(i, n) == i \notin -(2^(n - 1)) .. 2^(n - 1) - 1

\* The carries into and out of the sign differ where the sum of the signed
\* numbers needs one more bit.
LEMMA CarriesDiffer ==
  ASSUME NEW n, NEW x, NEW y, Sized(x, n), Sized(y, n), NEW v \in Valuation
  PROVE  LET carry == Carry(Lits(x), Lits(y), n)
         IN  v \in HashXor(carry[n - 1], carry[n])
               <=> Overflows(Signed(Value(x, v), n) + Signed(Value(y, v), n), n)
<1> DEFINE X == Lits(x)
           Y == Lits(y)
           a == Value(x, v)
           b == Value(y, v)
           C == Carry(X, Y, n)
           m == n - 1
           h == Power(m)
           xs == Bit(X[m], v)
           ys == Bit(Y[m], v)
           cs == Bit(C[m], v)
           ct == Bit(C[n], v)
           i == Signed(a, n)
           j == Signed(b, n)
           al == Number(X, m, v)
           bl == Number(Y, m, v)
           s == Number(SumBits(X, Y, n), n, v)
           t == Number(SumBits(X, Y, m), m, v)
<1>1. /\ n \in Nat \ {0} /\ n \in Nat /\ m \in Nat /\ m <= n /\ m + 1 = n
      /\ HasBits(X, n) /\ HasBits(Y, n)
      /\ a = Number(X, n, v) /\ b = Number(Y, n, v)
  BY OperandValues
<1>2. Power(n) = 2 * h /\ h \in Nat \ {0}
  BY <1>1, HalfPower
<1>3. i = a - Power(n) * xs
  BY SignedValue
<1>4. j = b - Power(n) * ys
  BY SignedValue
<1> HIDE DEF X, Y, C, i, j, a, b
<1>5. a = al + h * xs /\ al \in Nat
  <2> HIDE DEF m
  <2>1. Number(X, m + 1, v) = Number(X, m, v) + Power(m) * Bit(X[m], v) /\ Number(X, m, v) \in Nat
    BY <1>1, NumberStep
  <2> QED BY <1>1, <2>1
<1>6. b = bl + h * ys /\ bl \in Nat
  <2> HIDE DEF m
  <2>1. Number(Y, m + 1, v) = Number(Y, m, v) + Power(m) * Bit(Y[m], v) /\ Number(Y, m, v) \in Nat
    BY <1>1, NumberStep
  <2> QED BY <1>1, <2>1
<1>7. s + Power(n) * ct = a + b /\ s \in Nat /\ s < Power(n)
  <2>1. s + Power(n) * ct = Number(X, n, v) + Number(Y, n, v)
    BY <1>1, SumNumber DEF C
  <2>2. s \in Nat /\ s < Power(n)
    BY <1>1, NumberBound
  <2> QED BY <1>1, <2>1, <2>2
<1>8. t + h * cs = al + bl /\ t \in Nat /\ t < h
  <2>1. HasBits(X, m) /\ HasBits(Y, m) /\ Carry(X, Y, m)[m] = C[m]
    <3> HIDE DEF m
    <3> QED BY <1>1, CarryPrefix DEF C
  <2> HIDE DEF m
  <2>2. t + Power(m) * Bit(Carry(X, Y, m)[m], v) = Number(X, m, v) + Number(Y, m, v)
    BY <1>1, <2>1, SumNumber
  <2>3. t \in Nat /\ t < Power(m)
    BY <1>1, NumberBound
  <2> QED BY <2>1, <2>2, <2>3
<1>9. xs \in {0, 1} /\ ys \in {0, 1} /\ cs \in {0, 1} /\ ct \in {0, 1}
  BY BitType
<1>10. v \in HashXor(C[m], C[n]) <=> cs # ct
  BY DEF HashXor, Bit
<1>11. Overflows(i + j, n) <=> i + j \notin -h .. h - 1
  BY DEF Overflows, Power
<1> HIDE DEF m, h, xs, ys, cs, ct, al, bl, s, t
<1>13. al \in Nat /\ bl \in Nat /\ a \in Int /\ b \in Int
  BY <1>2, <1>5, <1>6, <1>9
<1>14. (cs = 0 => h * cs = 0) /\ (cs = 1 => h * cs = h)
  BY <1>2
<1> DEFINE e == i + j
<1>12. cs # ct <=> e \notin -h .. h - 1
  <2>1. CASE xs = 0 /\ ys = 0
    <3>1. h * xs = 0 /\ h * ys = 0 /\ Power(n) * xs = 0 /\ Power(n) * ys = 0
      BY <1>2, <2>1
    <3>2. e = al + bl /\ a + b = al + bl
      BY <1>2, <1>13, <1>3, <1>4, <1>5, <1>6, <3>1
    <3> HIDE DEF e
    <3>3. CASE cs = 0
      <4>1. e = t /\ h * cs = 0
        BY <1>2, <1>13, <1>14, <1>8, <3>2, <3>3
      <4>2. ct = 0
        BY <1>2, <1>7, <1>8, <1>9, <3>2, <4>1
      <4> QED BY <1>2, <1>8, <3>3, <4>1, <4>2
    <3>4. CASE cs = 1
      <4>1. e = t + h /\ h * cs = h
        BY <1>2, <1>13, <1>14, <1>8, <3>2, <3>4
      <4>2. ct = 0
        BY <1>2, <1>7, <1>8, <1>9, <3>2, <4>1
      <4> QED BY <1>2, <1>8, <3>4, <4>1, <4>2
    <3> QED BY <1>9, <3>3, <3>4
  <2>2. CASE xs + ys = 1
    <3>1. e = al + bl - h /\ a + b = al + bl + h
      <4>1. CASE xs = 0 /\ ys = 1
        <5>1. h * xs = 0 /\ h * ys = h /\ Power(n) * xs = 0 /\ Power(n) * ys = 2 * h
          BY <1>2, <4>1
        <5> QED BY <1>2, <1>3, <1>4, <1>5, <1>6, <5>1
      <4>2. CASE xs = 1 /\ ys = 0
        <5>1. h * ys = 0 /\ h * xs = h /\ Power(n) * ys = 0 /\ Power(n) * xs = 2 * h
          BY <1>2, <4>2
        <5> QED BY <1>2, <1>3, <1>4, <1>5, <1>6, <5>1
      <4> QED BY <1>9, <2>2, <4>1, <4>2
    <3> HIDE DEF e
    <3>2. CASE cs = 0
      <4>1. e = t - h /\ a + b = t + h
        BY <1>2, <1>13, <1>14, <1>8, <3>1, <3>2
      <4>2. ct = 0
        BY <1>2, <1>7, <1>8, <1>9, <4>1
      <4> QED BY <1>2, <1>8, <3>2, <4>1, <4>2
    <3>3. CASE cs = 1
      <4>1. e = t /\ a + b = t + 2 * h
        BY <1>2, <1>13, <1>14, <1>8, <3>1, <3>3
      <4>2. ct = 1
        BY <1>2, <1>7, <1>8, <1>9, <4>1
      <4> QED BY <1>2, <1>8, <3>3, <4>1, <4>2
    <3> QED BY <1>9, <3>2, <3>3
  <2>3. CASE xs = 1 /\ ys = 1
    <3>1. h * xs = h /\ h * ys = h /\ Power(n) * xs = 2 * h /\ Power(n) * ys = 2 * h
      BY <1>2, <2>3
    <3>2. e = al + bl - 2 * h /\ a + b = al + bl + 2 * h
      BY <1>2, <1>3, <1>4, <1>5, <1>6, <3>1
    <3> HIDE DEF e
    <3>3. CASE cs = 0
      <4>1. e = t - 2 * h /\ a + b = t + 2 * h
        BY <1>2, <1>13, <1>14, <1>8, <3>2, <3>3
      <4>2. ct = 1
        BY <1>2, <1>7, <1>8, <1>9, <4>1
      <4> QED BY <1>2, <1>8, <3>3, <4>1, <4>2
    <3>4. CASE cs = 1
      <4>1. e = t - h /\ a + b = t + 3 * h
        BY <1>2, <1>13, <1>14, <1>8, <3>2, <3>4
      <4>2. ct = 1
        BY <1>2, <1>7, <1>8, <1>9, <4>1
      <4> QED BY <1>2, <1>8, <3>4, <4>1, <4>2
    <3> QED BY <1>9, <3>3, <3>4
  <2> QED BY <1>9, <2>1, <2>2, <2>3
<1> QED BY <1>10, <1>11, <1>12 DEF C, X, Y, m, a, b, i, j

\* What a word is as a signed number, if its sign is set, and if it is not and
\* the word is small.
LEMMA SumWord ==
  ASSUME NEW n \in Nat \ {0}, n <= WORD_BITS, NEW w \in Nat, NEW v \in Valuation
  PROVE  LET z == Concrete(n, w)
             c == w % Power(n)
         IN  /\ c >= Power(n - 1) => SignedWord(z) = c - Power(n)
             /\ ~(c >= Power(n - 1)) /\ 2 * (w % Words) < Words => SignedWord(z) = w % Words
<1> DEFINE z == Concrete(n, w)
           c == w % Power(n)
           u == w % Words
           h == Power(n - 1)
           X == Lits(z)
<1>1. w \in Int /\ Sized(z, n)
  BY ConcreteType
<1>2. Value(z, v) = c
  BY <1>1, ConcreteValue
<1>3. z.conWord = u /\ z.size = n /\ ~z.isSymbolic
  BY DEF Concrete
<1> HIDE DEF z
<1>4. /\ v \in X[n - 1] <=> c >= h
      /\ n - 1 \in Bits(n)
  BY <1>1, <1>2, SignValue DEF SignBit, Power
<1>5. X[n - 1] = BitLit(u, n - 1)
  BY <1>3, <1>4 DEF Lits
<1>6. BitLit(u, n - 1) = Const1 <=> c >= h
  BY <1>4, <1>5 DEF BitLit, Const0, Const1
<1>7. ASSUME c >= h PROVE SignedWord(z) = c - Power(n)
  <2>1. SignRight(z)
    BY <1>3, <1>6, <1>7 DEF SignRight
  <2>2. SignedWord(z) = Signed(Value(z, v), n)
    BY <1>1, <1>3, <2>1, SignedWordValue
  <2> QED BY <1>2, <1>7, <2>2 DEF Signed, SignBit, Power
<1>8. ASSUME ~(c >= h), 2 * u < Words PROVE SignedWord(z) = u
  <2>1. Words \in Nat \ {0} /\ WORD_BITS \in Nat
    BY WordsType
  <2>2. u \in Nat /\ u < Words
    <3> HIDE DEF u
    <3> QED BY <1>1, <2>1, DivMod DEF u
  <2>3. u % Words = u
    <3> HIDE DEF u
    <3> QED BY <2>1, <2>2, ModSmall
  <2>4. int_sextend(u, n, WORD_BITS) = u
    BY <1>6, <1>8, <2>3 DEF int_sextend, int_zextend, Words
  <2>5. SignedWord(z) = AsSigned(u)
    BY <1>3, <2>4 DEF SignedWord
  <2> HIDE DEF u
  <2> QED BY <1>8, <2>1, <2>2, <2>5 DEF AsSigned
<1> QED BY <1>7, <1>8 DEF z

\* The words pINT_SCARRY may add to one without other bits: such a word, or a
\* negative number that vec_negate left in all of its word.
SummandWord(y, b, n) ==
  y.conWord = b \/ (b >= Power(n - 1) /\ y.conWord = b + Words - Power(n))

\* pINT_SCARRY is whether the sum of the signed numbers needs one more bit:
\* from the carries, and of words from the sign of their sum, unless the carry
\* of a sum that is one bit shorter than a word is taken for that.
THEOREM SignedCarryValue ==
  ASSUME NEW n, NEW x, NEW y, Sized(x, n), Sized(y, n), NEW v \in Valuation,
         ~x.isSymbolic /\ ~y.isSymbolic =>
           /\ n # WORD_BITS - 1
           /\ x.conWord = Zext(x) /\ SummandWord(y, Zext(y), n)
  PROVE  Value(pINT_SCARRY(x, y), v) = SCARRY(Value(x, v), Value(y, v), n)
<1> DEFINE a == Value(x, v)
           b == Value(y, v)
           i == Signed(a, n)
           j == Signed(b, n)
           p == Power(n)
           h == Power(n - 1)
<1>1. /\ n \in Nat \ {0} /\ x.size = n /\ y.size = n /\ p \in Nat \ {0}
      /\ a \in Nat /\ a < p /\ b \in Nat /\ b < p
      /\ ~x.isSymbolic => n <= WORD_BITS /\ Zext(x) = a
      /\ ~y.isSymbolic => n <= WORD_BITS /\ Zext(y) = b
  BY OperandValues
<1>2. p = 2 * h /\ h \in Nat \ {0}
  BY <1>1, HalfPower
<1>3. SCARRY(a, b, n) = Truth(Overflows(i + j, n))
  BY DEF SCARRY, Overflows
<1>4. CASE ~(~x.isSymbolic /\ ~y.isSymbolic)
  <2> DEFINE carry == Carry(Lits(x), Lits(y), n)
             l == HashXor(carry[n - 1], carry[n])
  <2>1. pINT_SCARRY(x, y) = Flag(l)
    BY <1>1, <1>4 DEF pINT_SCARRY
  <2>2. l \in Literal
    <3>1. HasBits(Lits(x), n) /\ HasBits(Lits(y), n) /\ n \in Nat
      BY OperandValues
    <3>2. carry \in [0 .. n -> Literal]
      BY <3>1, CarryIs
    <3> HIDE DEF carry
    <3>3. carry[n - 1] \in Literal /\ carry[n] \in Literal
      BY <1>1, <3>2
    <3> QED BY <3>3, LiteralType
  <2>3. v \in l <=> Overflows(i + j, n)
    BY CarriesDiffer
  <2> HIDE DEF l, i, j
  <2>4. Value(Flag(l), v) = Bit(l, v)
    BY <2>2, FlagValue
  <2> QED BY <1>3, <2>1, <2>3, <2>4 DEF Bit, Truth, i, j
<1>5. CASE ~x.isSymbolic /\ ~y.isSymbolic
  <2> DEFINE w == x.conWord + y.conWord
             z == Concrete(n, w)
             c == w % p
             u == w % Words
             sum == SignedWord(z)
             flag == \/ i > 0 /\ j > 0 /\ sum <= 0
                     \/ i < 0 /\ j < 0 /\ sum >= 0
             one == IF flag THEN 1 ELSE 0
  <2>1. /\ Words \in Nat \ {0} /\ WORD_BITS \in Nat \ {0} /\ p <= Words
        /\ n <= WORD_BITS /\ Power(WORD_BITS) = Words
    BY <1>1, <1>5, WordsType, PowerOrder, PowerFacts
  <2>2. x.conWord = a /\ SummandWord(y, b, n) /\ n # WORD_BITS - 1
    BY <1>1, <1>5
  <2>3. y.conWord = b \/ (b >= h /\ y.conWord = b + Words - p)
    BY <2>2 DEF SummandWord
  <2>4. w \in Nat
    BY <1>1, <2>1, <2>2, <2>3
  <2>5. SignedWord(x) = i
    <3>1. SignRight(x)
      BY <1>1, <1>5, <2>2 DEF SignRight
    <3> QED BY <1>5, <3>1, SignedWordValue
  <2>6. SignedWord(y) = j
    <3>1. SignRight(y)
      <4>1. CASE y.conWord = b
        BY <1>1, <1>5, <4>1 DEF SignRight
      <4>2. CASE b >= h
        <5>1. v \in Lits(y)[n - 1] /\ n - 1 \in Bits(n)
          BY <4>2, SignValue DEF SignBit, Power
        <5>2. Lits(y)[n - 1] = BitLit(y.conWord, n - 1)
          BY <1>1, <1>5, <5>1 DEF Lits
        <5>3. BitLit(y.conWord, n - 1) = Const1
          BY <5>1, <5>2 DEF BitLit, Const0, Const1
        <5> QED BY <1>1, <5>3 DEF SignRight
      <4> QED BY <2>3, <4>1, <4>2
    <3> QED BY <1>5, <3>1, SignedWordValue
  <2>7. AsSigned(int_sextend((x.conWord + y.conWord) % Words, n, WORD_BITS)) = sum
    BY DEF SignedWord, Concrete
  <2>8. pINT_SCARRY(x, y) = vec_setValue(BITS_IN_BYTE, one)
    <3> HIDE DEF i, j, sum
    <3> QED BY <1>1, <1>5, <2>5, <2>6, <2>7 DEF pINT_SCARRY
  <2>9. Value(vec_setValue(BITS_IN_BYTE, one), v) = one
    <3> HIDE DEF flag
    <3> DEFINE q == Power(BITS_IN_BYTE)
    <3>1. BITS_IN_BYTE \in Nat \ {0}
      BY WordsType
    <3>2. q = 2 * Power(BITS_IN_BYTE - 1) /\ Power(BITS_IN_BYTE - 1) \in Nat \ {0}
      BY <3>1, HalfPower
    <3>3. one \in Nat /\ one \in Int /\ one < q /\ q \in Nat \ {0}
      BY <3>2
    <3> HIDE DEF one
    <3>4. Value(vec_setValue(BITS_IN_BYTE, one), v) = one % q
      BY <3>1, <3>3, SetValueValue
    <3> HIDE DEF q
    <3>5. one % q = one
      BY <3>3, ModSmall
    <3> QED BY <3>4, <3>5
  <2>10. /\ c >= h => sum = c - p
         /\ ~(c >= h) /\ 2 * u < Words => sum = u
    <3> HIDE DEF w
    <3> QED BY <1>1, <2>1, <2>4, SumWord
  <2>11. /\ i = IF a >= h THEN a - p ELSE a
         /\ j = IF b >= h THEN b - p ELSE b
    BY DEF Signed, SignBit, Power
  <2>12. Overflows(i + j, n) <=> i + j \notin -h .. h - 1
    BY DEF Overflows, Power
  <2> HIDE DEF a, b, i, j, p, h, z, c, u, sum
  <2>13. flag <=> i + j \notin -h .. h - 1
    <3>1. CASE i > 0 /\ j > 0
      <4>1. 0 < a /\ a < h /\ 0 < b /\ b < h /\ i = a /\ j = b
        BY <1>1, <1>2, <2>11, <3>1
      <4>2. w = a + b /\ w < p /\ w < Words
        BY <1>1, <1>2, <2>1, <2>2, <2>3, <4>1
      <4> HIDE DEF w
      <4>3. c = w
        BY <1>1, <2>4, <4>2, ModSmall DEF c
      <4>4. u = w
        BY <2>1, <2>4, <4>2, ModSmall DEF u
      <4>5. CASE c >= h
        <5>1. sum \in Int /\ sum < 0
          BY <1>1, <1>2, <2>4, <2>10, <4>2, <4>3, <4>5
        <5> QED BY <1>1, <1>2, <2>4, <3>1, <4>1, <4>2, <4>3, <4>5, <5>1
      <4>6. CASE ~(c >= h)
        <5>1. 2 * u < Words
          BY <1>1, <1>2, <2>1, <2>4, <4>3, <4>4, <4>6
        <5>2. sum = a + b
          BY <2>10, <4>2, <4>4, <4>6, <5>1
        <5> QED BY <1>1, <1>2, <3>1, <4>1, <4>2, <4>3, <4>6, <5>2
      <4> QED BY <4>5, <4>6
    <3>2. CASE i < 0 /\ j < 0
      <4>1. a >= h /\ b >= h /\ i = a - p /\ j = b - p
        BY <1>1, <1>2, <2>11, <3>2
      <4> DEFINE e == a + b - p
      <4>2. e \in Nat /\ e < p /\ i + j = e - p
        BY <1>1, <1>2, <4>1
      <4>3. w = p + e \/ w = e + Words
        BY <1>1, <1>2, <2>1, <2>2, <2>3
      <4> HIDE DEF e, w
      <4>4. PICK k \in Nat : Words = p * k
        <5>1. n \in Nat
          BY <1>1
        <5>2. \E k \in Nat \ {0} : Words = Power(n) * k
          BY <2>1, <5>1, WordsMultiple
        <5> QED BY <5>2 DEF p
      <4>5. c = e
        <5> DEFINE q == IF w = p + e THEN 1 ELSE k
        <5>1. w = p * q + e
          <6>1. p * k \in Nat /\ p * 1 = p
            BY <1>1, <4>4
          <6> QED BY <1>1, <4>2, <4>3, <4>4, <6>1
        <5>2. q \in Int /\ w \in Int
          BY <2>4
        <5> HIDE DEF q
        <5> QED BY <1>1, <4>2, <5>1, <5>2, ModUnique DEF c
      <4>6. CASE c >= h
        <5>1. sum \in Int /\ sum < 0
          BY <1>1, <1>2, <2>10, <4>2, <4>5, <4>6
        <5> QED BY <1>1, <1>2, <3>2, <4>1, <4>2, <4>5, <4>6, <5>1
      <4>7. CASE ~(c >= h)
        <5>1. u \in Nat /\ 2 * u < Words
          <6>1. CASE w = e + Words
            <7>1. w = Words * 1 + e /\ e < Words /\ 1 \in Int /\ w \in Int
              BY <1>1, <2>1, <2>4, <4>2, <6>1
            <7>2. u = e
              BY <2>1, <4>2, <7>1, ModUnique DEF u
            <7> QED BY <1>1, <1>2, <2>1, <4>2, <4>5, <4>7, <7>2
          <6>2. CASE w = p + e /\ n = WORD_BITS
            <7>1. w = e + Words
              BY <2>1, <4>2, <6>2 DEF p
            <7> QED BY <6>1, <7>1
          <6>3. CASE w = p + e /\ n # WORD_BITS
            <7>1. n + 1 + 1 <= WORD_BITS /\ n + 1 + 1 \in Nat /\ n + 1 \in Nat /\ n \in Nat
              BY <1>1, <2>1, <2>2, <6>3
            <7>2. Power(n + 1 + 1) <= Power(WORD_BITS)
              BY <2>1, <7>1, PowerOrder
            <7>3. Power(n + 1 + 1) = 2 * Power(n + 1) /\ Power(n + 1) = 2 * p
              BY <7>1, PowerFacts DEF p
            <7>4. 4 * p <= Words
              BY <1>1, <2>1, <7>2, <7>3
            <7>5. w < Words
              BY <1>1, <2>1, <4>2, <6>3, <7>4
            <7>6. u = w
              BY <2>1, <2>4, <7>5, ModSmall DEF u
            <7> QED BY <1>1, <1>2, <2>1, <2>4, <4>2, <4>5, <4>7, <6>3, <7>4, <7>6
          <6> QED BY <4>3, <6>1, <6>2, <6>3
        <5>2. sum >= 0
          BY <2>10, <4>7, <5>1
        <5> QED BY <1>1, <1>2, <3>2, <4>2, <4>5, <4>7, <5>2
      <4> QED BY <4>6, <4>7
    <3>3. CASE ~(i > 0 /\ j > 0) /\ ~(i < 0 /\ j < 0)
      <4>1. i \in Int /\ j \in Int /\ -h <= i /\ i < h /\ -h <= j /\ j < h
        BY <1>1, <1>2, <2>11
      <4> QED BY <1>2, <3>3, <4>1
    <3> QED BY <3>1, <3>2, <3>3
  <2>14. one = Truth(Overflows(i + j, n))
    <3> HIDE DEF flag
    <3> QED BY <2>12, <2>13 DEF Truth
  <2> QED BY <1>3, <2>8, <2>9, <2>14 DEF a, b, i, j
<1> QED BY <1>4, <1>5

\* A signed number that is not the least one is the negation of its negation.
LEMMA NegatedSigned ==
  ASSUME NEW n \in Nat \ {0}, NEW b \in Nat, b < Power(n), b # Power(n - 1)
  PROVE  Signed(NEG(b, n), n) = -Signed(b, n)
<1> DEFINE p == Power(n)
           h == Power(n - 1)
           c == NEG(b, n)
           i == -b
           r == IF b = 0 THEN 0 ELSE p - b
           k == IF b = 0 THEN 0 ELSE -1
<1>1. p = 2 * h /\ h \in Nat \ {0} /\ p \in Nat \ {0}
  BY HalfPower
<1>2. c = i % p
  BY DEF NEG, Wrap, Power
<1>3. Signed(c, n) = IF c >= h THEN c - p ELSE c
  BY DEF Signed, SignBit, Power
<1>4. Signed(b, n) = IF b >= h THEN b - p ELSE b
  BY DEF Signed, SignBit, Power
<1>0. b < p /\ b # h
  OBVIOUS
<1> HIDE DEF p, h
<1>5. i = p * k + r /\ i \in Int /\ k \in Int /\ r \in Nat /\ r < p
  BY <1>0, <1>1
<1> HIDE DEF i, k, c
<1>6. c = r
  <2> HIDE DEF r
  <2> QED BY <1>1, <1>2, <1>5, ModUnique
<1> QED BY <1>0, <1>1, <1>3, <1>4, <1>6 DEF c

\* pINT_SBORROW adds the negation of its second operand, which is right unless
\* that is the least number: pINT_SCARRY reads what vec_negate leaves above the
\* size of a word as the number it is.
THEOREM SignedBorrowValue ==
  ASSUME NEW n, NEW x, NEW y, Sized(x, n), Sized(y, n), NEW v \in Valuation,
         Value(y, v) # Least(n),
         ~x.isSymbolic /\ ~y.isSymbolic =>
           /\ n # WORD_BITS - 1
           /\ x.conWord = Zext(x) /\ y.conWord = Zext(y)
  PROVE  Value(pINT_SBORROW(x, y), v) = SBORROW(Value(x, v), Value(y, v), n)
<1> DEFINE a == Value(x, v)
           b == Value(y, v)
           i == Signed(a, n)
           j == Signed(b, n)
           p == Power(n)
           h == Power(n - 1)
           z == vec_negate(y)
           c == Value(z, v)
<1>1. /\ n \in Nat \ {0} /\ y.size = n /\ p \in Nat \ {0}
      /\ b \in Nat /\ b < p
      /\ ~y.isSymbolic => n <= WORD_BITS /\ Zext(y) = b
      /\ y.isSymbolic \in BOOLEAN
  BY OperandValue
<1>2. p = 2 * h /\ h \in Nat \ {0}
  BY <1>1, HalfPower
<1>3. Sized(z, n)
  BY NegateType
<1>4. c = NEG(b, n)
  BY NegateValue
<1>5. b # h
  BY DEF Least, Power
<1>6. Signed(c, n) = -j
  <2> HIDE DEF b, z, c
  <2> QED BY <1>1, <1>4, <1>5, NegatedSigned DEF b
<1>7. z.isSymbolic = y.isSymbolic
  BY <1>1 DEF vec_negate, Concrete, Symbolic
<1>8. i \in Int
  BY SignedValue
<1>9. j \in Int
  BY SignedValue
<1>10. ASSUME ~x.isSymbolic, ~y.isSymbolic
       PROVE  SummandWord(z, Zext(z), n)
  <2> DEFINE m == -j
             e == int_sextend(y.conWord, n, WORD_BITS)
             u == (-e) % Words
  <2>1. y.conWord = b
    BY <1>1, <1>10
  <2>2. /\ Words \in Nat \ {0} /\ WORD_BITS \in Nat /\ p <= Words /\ n <= WORD_BITS
        /\ Power(WORD_BITS) = Words
    BY <1>1, <1>10, WordsType, PowerOrder, PowerFacts
  <2>3. SignedWord(y) = j
    <3>1. SignRight(y)
      BY <1>1, <1>10 DEF SignRight
    <3> QED BY <1>10, <3>1, SignedWordValue
  <2>4. AsSigned(e) = j
    BY <1>1, <2>3 DEF SignedWord
  <2>5. z.conWord = u
    BY <1>1, <1>10 DEF vec_negate, Concrete
  <2>6. e \in Int
    <3>1. y.conWord \in Int
      BY <1>1, <2>1
    <3> QED BY <1>1, <2>2, <3>1, ExtendType
  <2>7. Zext(z) = c
    BY <1>3, <1>7, <1>10, OperandValue
  <2>8. j = IF b >= h THEN b - p ELSE b
    BY DEF Signed, SignBit, Power
  <2> HIDE DEF e, j, b, z, c, p, h
  <2>9. PICK k \in {0, 1} : e = j + Words * k
    <3>1. e = j \/ e = j + Words
      BY <1>9, <2>2, <2>4, <2>6 DEF AsSigned
    <3>2. CASE e = j
      <4>1. e = j + Words * 0
        BY <1>9, <2>2, <3>2
      <4> QED BY <4>1
    <3>3. CASE e = j + Words
      <4>1. e = j + Words * 1
        BY <1>9, <2>2, <3>3
      <4> QED BY <4>1
    <3> QED BY <3>1, <3>2, <3>3
  <2> DEFINE r == IF j > 0 THEN Words - b ELSE -j
             q == IF j > 0 THEN -1 - k ELSE 0 - k
  <2>10. -e = Words * q + r /\ -e \in Int /\ q \in Int
    <3>1. CASE k = 0 /\ j > 0
      <4>1. q = -1 /\ r = Words - b /\ j = b /\ e = j
        BY <1>1, <1>2, <1>9, <2>2, <2>8, <2>9, <3>1
      <4> HIDE DEF q, r
      <4> QED BY <1>1, <1>9, <2>2, <4>1
    <3>2. CASE k = 1 /\ j > 0
      <4>1. q = -2 /\ r = Words - b /\ j = b /\ e = j + Words
        BY <1>1, <1>2, <1>9, <2>2, <2>8, <2>9, <3>2
      <4> HIDE DEF q, r
      <4> QED BY <1>1, <1>9, <2>2, <4>1
    <3>3. CASE k = 0 /\ ~(j > 0)
      <4>1. q = 0 /\ r = -j /\ e = j
        BY <1>1, <1>2, <1>9, <2>2, <2>8, <2>9, <3>3
      <4> HIDE DEF q, r
      <4> QED BY <1>1, <1>9, <2>2, <4>1
    <3>4. CASE k = 1 /\ ~(j > 0)
      <4>1. q = -1 /\ r = -j /\ e = j + Words
        BY <1>1, <1>2, <1>9, <2>2, <2>8, <2>9, <3>4
      <4> HIDE DEF q, r
      <4> QED BY <1>1, <1>9, <2>2, <4>1
    <3> QED BY <3>1, <3>2, <3>3, <3>4
  <2>11. r \in Nat /\ r < Words
    BY <1>1, <1>2, <1>9, <2>2, <2>8
  <2>12. c = IF j > 0 THEN p - b ELSE -j
    <3>1. c = IF b = 0 THEN 0 ELSE p - b
      <4> DEFINE f == -b
                 g == IF b = 0 THEN 0 ELSE -1
                 o == IF b = 0 THEN 0 ELSE p - b
      <4>1. c = f % p
        BY <1>4 DEF NEG, Wrap, p, Power
      <4>2. f = p * g + o /\ f \in Int /\ g \in Int /\ o \in Nat /\ o < p
        BY <1>1
      <4> HIDE DEF f, g, o
      <4>3. c = o
        BY <1>1, <4>1, <4>2, ModUnique
      <4> QED BY <4>3 DEF o
    <3> QED BY <1>1, <1>2, <1>9, <2>8, <3>1
  <2> DEFINE d == -e
  <2>13. u = d % Words
    OBVIOUS
  <2> HIDE DEF q, r, d, u
  <2>14. u = r
    <3>1. d = Words * q + r /\ d \in Int
      BY <2>10 DEF d
    <3> QED BY <2>2, <2>10, <2>11, <2>13, <3>1, ModUnique
  <2>15. CASE j > 0
    <3>1. c >= h /\ u = c + Words - p
      BY <1>1, <1>2, <1>9, <2>2, <2>8, <2>12, <2>14, <2>15 DEF r
    <3> QED BY <2>5, <2>7, <3>1 DEF SummandWord, p, h
  <2>16. CASE ~(j > 0)
    <3>1. u = c
      BY <2>12, <2>14, <2>16 DEF r
    <3> QED BY <2>5, <2>7, <3>1 DEF SummandWord
  <2> QED BY <2>15, <2>16
<1>11. Value(pINT_SCARRY(x, z), v) = SCARRY(a, c, n)
  <2>1. ~x.isSymbolic /\ ~z.isSymbolic =>
           /\ n # WORD_BITS - 1
           /\ x.conWord = Zext(x) /\ SummandWord(z, Zext(z), n)
    BY <1>7, <1>10
  <2> HIDE DEF z
  <2> QED BY <1>3, <2>1, SignedCarryValue
<1>12. SCARRY(a, c, n) = SBORROW(a, b, n)
  <2> HIDE DEF i, j, c, z
  <2>1. i + Signed(c, n) = i - j
    BY <1>6, <1>8, <1>9
  <2> QED BY <2>1 DEF SCARRY, SBORROW, i, j
<1> QED BY <1>11, <1>12 DEF pINT_SBORROW, pINT_2COMP

(***************************************************************************)
(* Rotations.                                                              *)
(***************************************************************************)
\* A number cut at bit m, with the parts exchanged.
LEMMA Exchanged ==
  ASSUME NEW n \in Nat, NEW m \in Nat, m <= n, NEW a \in Nat, a < Power(n)
  PROVE  LET h == Power(n - m)
             q == a \div Power(m)
             r == a % Power(m)
         IN  /\ h \in Nat \ {0} /\ q \in Nat /\ r \in Nat
             /\ q < h /\ r * h \in Nat /\ r * h + q < Power(n)
             /\ a * h = Power(n) * q + r * h
             /\ (a * h) % Power(n) = r * h
<1> DEFINE h == Power(n - m)
           b == Power(m)
           p == Power(n)
           q == a \div b
           r == a % b
           rh == r * h
           ah == a * h
           pq == p * q
<1>1. n - m \in Nat /\ m + (n - m) = n
  OBVIOUS
<1>2. h \in Nat \ {0} /\ b \in Nat \ {0} /\ p \in Nat \ {0} /\ p = b * h
  BY <1>1, PowerFacts
<1>3. a \in Int /\ a \in Nat /\ a < p
  OBVIOUS
<1> HIDE DEF h, b, p
<1>4. a = b * q + r /\ q \in Int /\ r \in Nat /\ r < b
  BY <1>2, <1>3, DivMod
<1>5. q \in Nat
  BY <1>2, <1>3, ModType
<1> HIDE DEF q, r
<1>6. q < h
  <2> SUFFICES ASSUME h <= q PROVE FALSE
    BY <1>2, <1>5
  <2>1. b * h <= b * q
    BY <1>2, <1>5
  <2>2. b * h \in Nat /\ b * q \in Nat
    BY <1>2, <1>5
  <2> HIDE DEF pq
  <2> QED BY <1>2, <1>3, <1>4, <2>1, <2>2
<1>7. rh \in Nat /\ rh + h <= p
  <2>1. r + 1 <= b
    BY <1>2, <1>4
  <2>2. (r + 1) * h <= b * h
    BY <1>2, <1>4, <2>1
  <2>3. (r + 1) * h = r * h + h /\ r * h \in Nat
    BY <1>2, <1>4
  <2> QED BY <1>2, <2>2, <2>3
<1>8. ah = pq + rh
  <2>1. (b * q + r) * h = (b * q) * h + r * h
    BY <1>2, <1>4, <1>5
  <2>2. (b * q) * h = (b * h) * q
    BY <1>2, <1>5
  <2> QED BY <1>2, <1>4, <2>1, <2>2
<1>9. ah \in Int
  BY <1>2, <1>3
<1> HIDE DEF rh, ah
<1>10. rh < p /\ rh + q < p
  BY <1>2, <1>5, <1>6, <1>7
<1>11. ah % p = rh
  <2>1. ah = p * q + rh
    BY <1>8
  <2> HIDE DEF pq
  <2> QED BY <1>2, <1>4, <1>7, <1>9, <1>10, <2>1, ModUnique
<1> QED BY <1>2, <1>4, <1>5, <1>6, <1>7, <1>8, <1>10, <1>11 DEF h, b, p, q, r, rh, ah

\* The place a literal comes from in a rotation by k.
LEMMA RotatedPlace ==
  ASSUME NEW n \in Nat \ {0}, NEW k \in Nat, NEW j \in Bits(n)
  PROVE  /\ k % n \in Nat /\ k % n < n
         /\ (j + k) % n = IF j + (k % n) < n THEN j + (k % n) ELSE (j + (k % n)) - n
<1> DEFINE m == k % n
           q == k \div n
           t == j + k
           c == IF j + m < n THEN q ELSE q + 1
           e == IF j + m < n THEN j + m ELSE (j + m) - n
<1>1. k \in Int /\ n \in Nat \ {0}
  OBVIOUS
<1>2. k = n * q + m /\ q \in Int /\ m \in Nat /\ m < n
  BY <1>1, DivMod
<1>3. j \in Nat /\ j < n
  BY DEF Bits
<1> HIDE DEF m, q
<1>4. n * (q + 1) = n * q + n /\ n * q \in Int
  BY <1>2
<1>5. t = n * c + e /\ t \in Int /\ c \in Int /\ e \in Nat /\ e < n
  BY <1>2, <1>3, <1>4
<1> HIDE DEF t, c, e
<1>6. t % n = e
  BY <1>1, <1>5, ModUnique
<1> QED BY <1>2, <1>6 DEF t, e, m

LEMMA RotatedLittle ==
  ASSUME NEW n \in Nat \ {0}, NEW m \in Nat, m < n, NEW j \in Bits(n)
  PROVE  (j + m) % n = IF j + m < n THEN j + m ELSE (j + m) - n
<1>1. m % n = m
  BY ModSmall
<1>2. (j + m) % n = IF j + (m % n) < n THEN j + (m % n) ELSE (j + (m % n)) - n
  BY RotatedPlace
<1> QED BY <1>1, <1>2

LEMMA RotatedNumber ==
  ASSUME NEW n \in Nat \ {0}, NEW k \in Nat, NEW s, NEW u, NEW v \in Valuation,
         \A j \in Bits(n) : Bit(u[j], v) = Bit(RotatedRight(n, s, j, k), v)
  PROVE  Number(u, n, v) = ROTR(Number(s, n, v), k, n)
<1> DEFINE m == k % n
           a == Number(s, n, v)
           h == Power(n - m)
           q == a \div Power(m)
           r == a % Power(m)
           t == [i \in Bits(m) |-> u[(n - m) + i]]
<1>1. m \in Nat /\ m < n
  <2>1. 0 \in Bits(n)
    BY DEF Bits
  <2> QED BY <2>1, RotatedPlace
<1>2. \A j \in Bits(n) : Bit(u[j], v) = Bit(s[IF j + m < n THEN j + m ELSE (j + m) - n], v)
  <2> TAKE j \in Bits(n)
  <2>1. (j + k) % n = IF j + m < n THEN j + m ELSE (j + m) - n
    BY RotatedPlace
  <2> HIDE DEF m
  <2> QED BY <2>1 DEF RotatedRight
<1>3. ROTR(a, k, n) = ((a * h) % Power(n)) + q
  BY DEF ROTR, Wrap, Power
<1> HIDE DEF m
<1>4. n - m \in Nat /\ m + (n - m) = n /\ (n - m) + m = n /\ n \in Nat /\ m <= n
  BY <1>1
<1>5. a \in Nat /\ a < Power(n)
  BY <1>4, NumberBound
<1>6. /\ h \in Nat \ {0} /\ q \in Nat /\ r \in Nat
      /\ q < h /\ r * h \in Nat
      /\ (a * h) % Power(n) = r * h
  <2> HIDE DEF a
  <2> QED BY <1>1, <1>4, <1>5, Exchanged
<1>7. Number(u, n - m, v) = q
  <2>1. \A i \in Bits(n - m) : Bit(u[i], v) = IF m + i < n THEN Bit(s[m + i], v) ELSE 0
    <3> TAKE i \in Bits(n - m)
    <3>1. i \in Bits(n) /\ i + m < n /\ m + i < n /\ i + m = m + i
      BY <1>1, <1>4 DEF Bits
    <3> QED BY <1>2, <3>1
  <2> DEFINE d == n - m
  <2>2. d \in Nat /\ \A i \in Bits(d) : Bit(u[i], v) = IF m + i < n THEN Bit(s[m + i], v) ELSE 0
    BY <1>4, <2>1
  <2> HIDE DEF d
  <2>3. Number(u, d, v) = (Number(s, n, v) \div Power(m)) % Power(d)
    BY <1>1, <1>4, <2>2, PieceNumber
  <2>4. Number(u, n - m, v) = q % h
    BY <2>3 DEF d
  <2> HIDE DEF q, h
  <2>5. q % h = q
    BY <1>6, ModSmall
  <2> QED BY <2>4, <2>5
<1>8. Number(t, m, v) = r
  <2>1. \A i \in Bits(m) : Bit(t[i], v) = Bit(s[i], v)
    <3> TAKE i \in Bits(m)
    <3>1. (n - m) + i \in Bits(n) /\ ~(((n - m) + i) + m < n) /\ (((n - m) + i) + m) - n = i
      BY <1>1, <1>4 DEF Bits
    <3>2. t[i] = u[(n - m) + i]
      OBVIOUS
    <3> QED BY <1>2, <3>1, <3>2
  <2> HIDE DEF t
  <2>2. Number(t, m, v) = Number(s, m, v)
    BY <1>1, <2>1, NumberSame
  <2>3. Number(s, n, v) % Power(m) = Number(s, m, v)
    BY <1>1, <1>4, NumberLow
  <2> QED BY <2>2, <2>3
<1>9. Number(u, n, v) = Number(u, n - m, v) + h * Number(t, m, v)
  <2> DEFINE d == n - m
  <2>1. Above(t, u, d, m, v)
    BY DEF Above
  <2>2. d \in Nat /\ d + m = n
    BY <1>4
  <2> HIDE DEF d, t
  <2>3. Number(u, d + m, v) = Number(u, d, v) + Power(d) * Number(t, m, v)
    BY <1>1, <2>1, <2>2, NumberSplit
  <2> QED BY <2>2, <2>3 DEF d
<1> HIDE DEF a, h, q, r, t
<1>10. h * r = r * h
  BY <1>6
<1>11. Number(u, n, v) = q + r * h
  BY <1>7, <1>8, <1>9, <1>10
<1> QED BY <1>3, <1>6, <1>11 DEF a

\* The word of a rotation, whatever the word rotated has above its size.
LEMMA RotatedWord ==
  ASSUME NEW n \in Nat \ {0}, NEW m \in Nat, m <= n, NEW w \in Nat, NEW a, a = w % Power(n)
  PROVE  LET c == w * 2^(n - m) + (a \div 2^m)
         IN  c \in Nat /\ c % Power(n) = ((a * 2^(n - m)) % Power(n)) + (a \div 2^m)
<1>1. n \in Nat /\ m \in Nat /\ m <= n /\ a \in Nat /\ a < Power(n)
  <2>1. Power(n) \in Nat \ {0} /\ n \in Nat /\ w \in Int
    BY PowerFacts
  <2>2. w % Power(n) \in Nat /\ w % Power(n) < Power(n)
    BY ONLY <2>1, DivMod
  <2> QED BY <2>1, <2>2
<1>2. /\ Power(n - m) \in Nat \ {0} /\ a \div Power(m) \in Nat /\ a % Power(m) \in Nat
       /\ a \div Power(m) < Power(n - m)
       /\ (a % Power(m)) * Power(n - m) \in Nat
       /\ (a % Power(m)) * Power(n - m) + a \div Power(m) < Power(n)
       /\ a * Power(n - m) = Power(n) * (a \div Power(m)) + (a % Power(m)) * Power(n - m)
       /\ (a * Power(n - m)) % Power(n) = (a % Power(m)) * Power(n - m)
  BY ONLY <1>1, Exchanged
<1> DEFINE h == Power(n - m)
           p == Power(n)
           q == a \div Power(m)
           r == a % Power(m)
           t == w \div p
           rh == r * h
           ah == a * h
           wh == w * h
           th == t * h
           e == rh + q
           c == wh + q
           f == th + q
<1>3. p \in Nat \ {0} /\ w \in Int
  BY PowerFacts
<1>4. w = p * t + a /\ t \in Int /\ a \in Nat /\ a < p
  <2> HIDE DEF p
  <2> QED BY <1>3, DivMod DEF p
<1>5. /\ h \in Nat \ {0} /\ q \in Nat /\ r \in Nat
      /\ rh \in Nat /\ e < p
      /\ ah = p * q + rh
      /\ ah % p = rh
  BY <1>2
<1> HIDE DEF h, p, q, r, t
<1>6. wh = p * th + ah
  <2>1. (p * t + a) * h = (p * t) * h + a * h
    BY <1>3, <1>4, <1>5
  <2>2. (p * t) * h = p * (t * h)
    BY <1>3, <1>4, <1>5
  <2> QED BY <1>4, <2>1, <2>2
<1>7. th \in Int /\ wh \in Nat
  BY <1>4, <1>5
<1> HIDE DEF rh, ah, wh, th
<1>8. p * f = p * th + p * q /\ p * th \in Int /\ p * q \in Int /\ f \in Int
  BY <1>3, <1>5, <1>7
<1>9. c = p * f + e /\ c \in Int /\ c \in Nat /\ e \in Nat
  BY <1>5, <1>6, <1>7, <1>8
<1> HIDE DEF c, f, e
<1>10. c % p = e
  BY <1>3, <1>5, <1>8, <1>9, ModUnique
<1> QED BY <1>5, <1>9, <1>10 DEF c, e, wh, ah, h, q, p, Power

LEMMA RotatedNot ==
  ASSUME NEW n \in Nat \ {0}, NEW a \in Nat, a < Power(n), NEW k \in Nat, k % n = 0
  PROVE  ROTR(a, k, n) = a
<1> DEFINE p == Power(n)
           ap == a * p
<1>1. n - 0 = n /\ Power(0) = 1 /\ p \in Nat \ {0} /\ n \in Nat
  BY PowerFacts
<1>2. ROTR(a, k, n) = (ap % p) + (a \div Power(0))
  BY <1>1 DEF ROTR, Wrap, Power
<1>3. a \div Power(0) = a
  BY <1>1
<1>4. ap = p * a + 0 /\ ap \in Int /\ 0 \in Nat /\ 0 < p /\ a \in Int
  BY <1>1
<1> HIDE DEF p, ap
<1>5. ap % p = 0
  BY <1>1, <1>4, ModUnique
<1> QED BY <1>2, <1>3, <1>5

\* A concrete vector whose word is rotated with all that it has above the size.
LEMMA RotatedConcrete ==
  ASSUME NEW n, NEW x, Sized(x, n), ~x.isSymbolic, NEW m \in Nat, m <= n, NEW v \in Valuation
  PROVE  Value(Concrete(n, int_zextend(x.conWord * 2^(n - m) + (Zext(x) \div 2^m), n)), v)
           = Wrap(Value(x, v) * 2^(n - m), n) + (Value(x, v) \div 2^m)
<1> DEFINE a == Value(x, v)
           p == Power(n)
           c == x.conWord * 2^(n - m) + (a \div 2^m)
           e == c % p
<1>1. /\ n \in Nat \ {0} /\ x.size = n /\ p \in Nat \ {0}
      /\ a \in Nat /\ a < p
      /\ n <= WORD_BITS /\ Zext(x) = a
      /\ x.conWord \in Nat /\ a = x.conWord % p
  BY OperandValue
<1>2. c \in Nat /\ e = ((a * 2^(n - m)) % p) + (a \div 2^m)
  <2> HIDE DEF a
  <2> QED BY <1>1, RotatedWord
<1>3. int_zextend(x.conWord * 2^(n - m) + (Zext(x) \div 2^m), n) = e
  BY <1>1 DEF int_zextend, Power
<1> HIDE DEF c
<1>4. e % p = e /\ e \in Int
  <2>1. c \in Int
    BY <1>2
  <2>2. c % p \in Nat
    <3> HIDE DEF p
    <3> QED BY <1>1, <2>1, DivMod
  <2>3. (c % p) % p = c % p
    <3> HIDE DEF p
    <3> QED BY <1>1, <2>1, ModTwice
  <2> HIDE DEF p
  <2> QED BY <2>2, <2>3
<1> HIDE DEF e
<1>5. Value(Concrete(n, e), v) = e % p
  BY <1>1, <1>4, ConcreteValue
<1> QED BY <1>2, <1>3, <1>4, <1>5 DEF Wrap, Power

\* vec_rotateright, by an amount that may be more than there are bits.  A
\* concrete amount is taken with all bits of its word; a symbolic one has fewer
\* bits than an int, which is shifted by their indices.
THEOREM RotateRightValue ==
  ASSUME NEW n, NEW x, Sized(x, n), n <= WORD_BITS,
         NEW m, NEW amount, Sized(amount, m), NEW v \in Valuation,
         RotationFitsInt(amount),
         ~amount.isSymbolic => amount.conWord = Zext(amount)
  PROVE  Value(vec_rotateright(x, amount), v) = ROTR(Value(x, v), Value(amount, v), n)
<1> DEFINE X == Lits(x)
           A == Lits(amount)
           a == Value(x, v)
           k == Value(amount, v)
           r == k % n
<1>1. /\ n \in Nat \ {0} /\ n \in Nat /\ x.size = n /\ X \in LitVec(n)
      /\ a = Number(X, n, v) /\ a \in Nat /\ a < Power(n)
      /\ ~x.isSymbolic => n <= WORD_BITS /\ Zext(x) = a
      /\ x.isSymbolic => x.symWord = X
  BY OperandValue, SizedFacts
<1>2. /\ m \in Nat /\ amount.size = m /\ A \in LitVec(m)
      /\ k = Number(A, m, v) /\ k \in Nat
      /\ ~amount.isSymbolic => Zext(amount) = k /\ amount.conWord = k
      /\ amount.isSymbolic => amount.symWord = A
  BY OperandValue, SizedFacts
<1>3. ASSUME NEW u, \A j \in Bits(n) : Bit(u[j], v) = Bit(RotatedRight(n, X, j, k), v)
      PROVE  Number(u, n, v) = ROTR(a, k, n)
  <2> HIDE DEF X, k
  <2> QED BY <1>1, <1>2, <1>3, RotatedNumber
<1>4. r \in Nat /\ r < n
  <2> HIDE DEF k
  <2>1. k \in Int
    BY <1>2
  <2> QED BY <1>1, <2>1, DivMod
<1>5. CASE ~amount.isSymbolic /\ ~x.isSymbolic
  <2>1. CASE r = 0
    <3>1. vec_rotateright(x, amount) = x
      BY <1>1, <1>2, <1>5, <2>1 DEF vec_rotateright, Rotate
    <3> HIDE DEF k, a
    <3>2. ROTR(a, k, n) = a
      BY <1>1, <1>2, <2>1, RotatedNot
    <3> QED BY <3>1, <3>2 DEF a, k
  <2>2. CASE r # 0
    <3> DEFINE con == int_zextend(x.conWord * 2^(n - r) + (Zext(x) \div 2^r), n)
    <3>1. vec_rotateright(x, amount) = Concrete(n, con)
      BY <1>1, <1>2, <1>5, <2>2 DEF vec_rotateright, Rotate
    <3>2. ROTR(a, k, n) = Wrap(a * 2^(n - r), n) + (a \div 2^r)
      BY DEF ROTR
    <3> HIDE DEF k, r
    <3>3. Value(Concrete(n, con), v) = Wrap(a * 2^(n - r), n) + (a \div 2^r)
      BY <1>1, <1>4, <1>5, RotatedConcrete
    <3> QED BY <3>1, <3>2, <3>3 DEF k
  <2> QED BY <2>1, <2>2
<1>6. CASE ~amount.isSymbolic /\ x.isSymbolic
  <2> DEFINE s == [j \in Bits(n) |-> X[(j + r) % n]]
  <2>1. vec_rotateright(x, amount) = Symbolic(n, s)
    BY <1>1, <1>2, <1>6 DEF vec_rotateright, Rotate
  <2> HIDE DEF X, k, r
  <2>2. ASSUME NEW j \in Bits(n) PROVE (j + r) % n = (j + k) % n /\ (j + r) % n \in Bits(n)
    <3>1. j \in Nat /\ j < n
      BY <1>1 DEF Bits
    <3>2. (j + k) % n = IF j + r < n THEN j + r ELSE (j + r) - n
      BY <1>1, <1>2, RotatedPlace DEF r
    <3>3. (j + r) % n = IF j + r < n THEN j + r ELSE (j + r) - n
      BY <1>1, <1>4, RotatedLittle
    <3>4. (j + r) % n \in Bits(n)
      <4> DEFINE e == (j + r) % n
      <4>1. e = IF j + r < n THEN j + r ELSE (j + r) - n
        BY <3>3
      <4> HIDE DEF e
      <4>2. e \in Nat /\ e < n
        BY <1>1, <1>4, <3>1, <4>1
      <4>3. e \in Bits(n)
        BY <1>1, <4>2 DEF Bits
      <4> QED BY <4>3 DEF e
    <3> QED BY <3>2, <3>3, <3>4
  <2>3. s \in LitVec(n)
    BY <1>1, <2>2 DEF LitVec
  <2>4. \A j \in Bits(n) : Bit(s[j], v) = Bit(RotatedRight(n, X, j, k), v)
    BY <2>2 DEF RotatedRight
  <2> HIDE DEF s, a
  <2>5. Number(s, n, v) = ROTR(a, k, n)
    BY <1>3, <2>4
  <2>6. Value(Symbolic(n, s), v) = Number(s, n, v)
    BY <1>1, <2>3, SymbolicValue
  <2> QED BY <2>1, <2>5, <2>6 DEF a, k
<1>7. CASE amount.isSymbolic
  <2> DEFINE u == RightRotator(X, n, amount)
  <2>1. vec_rotateright(x, amount) = Symbolic(n, u)
    BY <1>1, <1>7 DEF vec_rotateright, Rotate, Barrel, RightRotator, RotatedRight
  <2>2. amount.symWord \in LitVec(m) /\ Number(amount.symWord, m, v) = k
    BY <1>2, <1>7
  <2> HIDE DEF X, k, a
  <2>3. u \in LitVec(n)
    BY <1>1, <1>2, <2>2, RightRotatorType
  <2>4. \A j \in Bits(n) : Bit(u[j], v) = Bit(RotatedRight(n, X, j, Number(amount.symWord, m, v)), v)
    BY <1>1, <1>2, <2>2, RightRotatorBits
  <2> HIDE DEF u
  <2>5. Number(u, n, v) = ROTR(a, k, n)
    BY <1>3, <2>2, <2>4
  <2>6. Value(Symbolic(n, u), v) = Number(u, n, v)
    BY <1>1, <2>3, SymbolicValue
  <2> QED BY <2>1, <2>5, <2>6 DEF a, k
<1> QED BY <1>5, <1>6, <1>7

\* Twice a number is at most its power of two.
LEMMA PowerLinear ==
  ASSUME NEW n \in Nat \ {0}
  PROVE  2 * n <= Power(n)
<1> DEFINE m == n - 1
           G == {i \in 0 .. m : 2 * (i + 1) <= Power(i + 1)}
<1>1. m \in Nat /\ Power(0 + 1) = 2 * Power(0) /\ Power(0) = 1
  BY PowerFacts
<1>2. 0 \in G
  BY <1>1
<1>3. ASSUME NEW i \in 1 .. m, i - 1 \in G PROVE i \in G
  <2>1. i \in Nat /\ i + 1 \in Nat /\ i - 1 + 1 = i
    BY <1>1
  <2>2. Power(i + 1) = 2 * Power(i) /\ Power(i) \in Nat
    BY <2>1, PowerFacts
  <2>3. 2 * i <= Power(i)
    BY <1>3, <2>1
  <2> QED BY <2>1, <2>2, <2>3
<1> HIDE DEF G
<1>4. 0 .. m \subseteq G
  BY <1>1, <1>2, <1>3, UpTo
<1>5. m \in G
  BY <1>1, <1>4
<1> QED BY <1>5 DEF G

\* A place to the left of j, as one to the right.
LEMMA TurnedPlace ==
  ASSUME NEW n \in Nat \ {0}, NEW k \in Nat, NEW j \in Bits(n)
  PROVE  LET r == k % n
         IN  r \in Nat /\ r < n /\ (j - k) % n = (j + (n - r)) % n
<1> DEFINE r == k % n
           q == k \div n
           a == j + (n - r)
           z == 0 - q - 1
<1>1. k \in Int /\ n \in Nat \ {0}
  OBVIOUS
<1>2. k = n * q + r /\ q \in Int /\ r \in Nat /\ r < n
  BY <1>1, DivMod
<1>3. j \in Nat /\ j < n
  BY DEF Bits
<1> HIDE DEF r, q
<1>4. n * z = 0 - n * q - n /\ n * q \in Int /\ z \in Int
  BY <1>2
<1>5. a \in Int /\ j - k = a + n * z
  BY <1>2, <1>3, <1>4
<1> HIDE DEF a, z
<1>6. (a + n * z) % n = a % n
  BY <1>4, <1>5, ModShift
<1> QED BY <1>2, <1>5, <1>6 DEF a, r

\* vec_rotateleft, where its two loops and its unsigned arithmetic do what
\* they are for: a concrete amount moves no literal, and a symbolic one wraps
\* nowhere.
THEOREM RotateLeftValue ==
  ASSUME NEW n, NEW x, Sized(x, n), n <= WORD_BITS,
         NEW m, NEW amount, Sized(amount, m), NEW v \in Valuation,
         RotationFitsInt(amount),
         ~amount.isSymbolic => amount.conWord = Zext(amount),
         IF amount.isSymbolic THEN 2^(m - 1) <= n ELSE x.isSymbolic => amount.conWord % n = 0
  PROVE  Value(vec_rotateleft(x, amount), v) = ROTL(Value(x, v), Value(amount, v), n)
<1> DEFINE X == Lits(x)
           A == Lits(amount)
           a == Value(x, v)
           k == Value(amount, v)
           r == k % n
           d == n - r
<1>1. /\ n \in Nat \ {0} /\ n \in Nat /\ x.size = n /\ X \in LitVec(n)
      /\ a = Number(X, n, v) /\ a \in Nat /\ a < Power(n)
      /\ ~x.isSymbolic => n <= WORD_BITS /\ Zext(x) = a
      /\ x.isSymbolic => x.symWord = X
  BY OperandValue, SizedFacts
<1>2. /\ m \in Nat \ {0} /\ m \in Nat /\ amount.size = m /\ A \in LitVec(m)
      /\ k = Number(A, m, v) /\ k \in Nat
      /\ ~amount.isSymbolic => Zext(amount) = k /\ amount.conWord = k
      /\ amount.isSymbolic => amount.symWord = A
  BY OperandValue, SizedFacts
<1>3. r \in Nat /\ r < n
  <2> HIDE DEF k
  <2>1. k \in Int
    BY <1>2
  <2> QED BY <1>1, <2>1, DivMod
<1>4. ROTL(a, k, n) = ROTR(a, d, n) /\ d \in Nat /\ n - d = r /\ d <= n
  <2>1. ROTL(a, k, n) = ROTR(a, n - r, n)
    BY DEF ROTL
  <2> HIDE DEF r, a, k
  <2> QED BY <1>1, <1>3, <2>1
<1>5. r = 0 => ROTR(a, d, n) = a
  <2> SUFFICES ASSUME r = 0 PROVE ROTR(a, d, n) = a
    OBVIOUS
  <2> HIDE DEF r, a
  <2>1. d = n /\ d % n = 0
    BY <1>1
  <2> HIDE DEF d
  <2> QED BY <1>1, <1>4, <2>1, RotatedNot
<1>6. r # 0 => d % n = d
  <2> SUFFICES ASSUME r # 0 PROVE d % n = d
    OBVIOUS
  <2> HIDE DEF r
  <2>1. d < n
    BY <1>1, <1>3
  <2> HIDE DEF d
  <2> QED BY <1>1, <1>4, <2>1, ModSmall
<1>7. CASE ~amount.isSymbolic /\ ~x.isSymbolic
  <2>1. CASE r = 0
    <3>1. vec_rotateleft(x, amount) = x
      BY <1>1, <1>2, <1>7, <2>1 DEF vec_rotateleft, Rotate
    <3> HIDE DEF k, a, r, d
    <3> QED BY <1>4, <1>5, <2>1, <3>1 DEF a, k
  <2>2. CASE r # 0
    <3> DEFINE con == int_zextend(x.conWord * 2^r + (Zext(x) \div 2^(n - r)), n)
               con2 == int_zextend(x.conWord * 2^(n - d) + (Zext(x) \div 2^d), n)
    <3>1. vec_rotateleft(x, amount) = Concrete(n, con)
      BY <1>1, <1>2, <1>7, <2>2 DEF vec_rotateleft, Rotate
    <3>2. con = con2
      <4> HIDE DEF r
      <4> QED BY <1>4
    <3> HIDE DEF con, r, k
    <3>3. ROTR(a, d, n) = Wrap(a * 2^(n - d), n) + (a \div 2^d)
      <4> HIDE DEF a, d
      <4> QED BY <1>6, <2>2 DEF ROTR
    <3> HIDE DEF d
    <3>4. Value(Concrete(n, con2), v) = Wrap(a * 2^(n - d), n) + (a \div 2^d)
      BY <1>1, <1>4, <1>7, RotatedConcrete
    <3> HIDE DEF con2, a
    <3> QED BY <1>4, <3>1, <3>2, <3>3, <3>4 DEF a, k
  <2> QED BY <2>1, <2>2
<1>8. CASE ~amount.isSymbolic /\ x.isSymbolic
  <2> DEFINE s == [j \in Bits(n) |-> X[IF j < r THEN n - r + j ELSE j]]
  <2>1. vec_rotateleft(x, amount) = Symbolic(n, s)
    BY <1>1, <1>2, <1>8 DEF vec_rotateleft, Rotate
  <2>2. r = 0
    BY <1>1, <1>2, <1>8
  <2> HIDE DEF X, r
  <2>3. s = X
    <3>1. \A j \in Bits(n) : s[j] = X[j]
      <4> TAKE j \in Bits(n)
      <4>1. ~(j < r)
        BY <2>2 DEF Bits
      <4> QED BY <4>1
    <3> QED BY <1>1, <3>1 DEF LitVec
  <2> HIDE DEF s, a, k, d
  <2>4. Value(Symbolic(n, X), v) = Number(X, n, v)
    BY <1>1, SymbolicValue
  <2> QED BY <1>1, <1>4, <1>5, <2>1, <2>2, <2>3, <2>4 DEF a, k
<1>9. CASE amount.isSymbolic
  <2> DEFINE u == LeftRotator(X, n, amount)
  <2>1. vec_rotateleft(x, amount) = Symbolic(n, u)
    BY <1>1, <1>9 DEF vec_rotateleft, Rotate, Barrel, LeftRotator, RotatedLeft
  <2>2. amount.symWord \in LitVec(m) /\ Number(amount.symWord, m, v) = k
    BY <1>2, <1>9
  <2>3. \A i \in 1 .. m : 2^(i - 1) <= n
    <3> TAKE i \in 1 .. m
    <3>1. i - 1 \in Nat /\ m - 1 \in Nat /\ i - 1 <= m - 1
      BY <1>2
    <3>2. 2^(i - 1) <= 2^(m - 1)
      BY <3>1, PowerMonotone
    <3>3. 2^(m - 1) <= n /\ 2^(m - 1) \in Nat /\ 2^(i - 1) \in Nat
      BY <1>9, <3>1, PowerType
    <3> QED BY <1>1, <3>2, <3>3
  <2>4. 2 * n <= Words
    <3>1. WORD_BITS \in Nat /\ n \in Nat /\ n <= WORD_BITS
      BY <1>1, WordsType
    <3>2. 2 * n <= Power(n)
      BY <1>1, PowerLinear
    <3>3. Power(n) <= Power(WORD_BITS) /\ Power(n) \in Nat /\ Power(WORD_BITS) \in Nat
      BY <3>1, PowerOrder
    <3>4. Power(WORD_BITS) = Words
      BY PowerFacts
    <3> QED BY <3>1, <3>2, <3>3, <3>4
  <2> HIDE DEF X, k, a, r, d
  <2>5. u \in LitVec(n)
    BY <1>1, <1>2, <2>2, LeftRotatorType
  <2>6. \A j \in Bits(n) : Bit(u[j], v) = Bit(TurnedLeft(n, X, j, Number(amount.symWord, m, v)), v)
    BY <1>1, <1>2, <2>2, <2>3, <2>4, LeftRotatorBits
  <2> HIDE DEF u
  <2>7. \A j \in Bits(n) : Bit(u[j], v) = Bit(RotatedRight(n, X, j, d), v)
    <3> TAKE j \in Bits(n)
    <3>1. (j - k) % n = (j + (n - (k % n))) % n
      BY <1>1, <1>2, TurnedPlace
    <3>2. (j - k) % n = (j + d) % n
      BY <3>1 DEF d, r
    <3>3. Bit(u[j], v) = Bit(TurnedLeft(n, X, j, k), v)
      BY <2>2, <2>6
    <3> QED BY <3>2, <3>3 DEF RotatedRight, TurnedLeft
  <2>8. Number(u, n, v) = ROTR(Number(X, n, v), d, n)
    BY <1>1, <1>4, <2>7, RotatedNumber
  <2>9. Value(Symbolic(n, u), v) = Number(u, n, v)
    BY <1>1, <2>5, SymbolicValue
  <2> QED BY <1>1, <1>4, <2>1, <2>8, <2>9 DEF a, k
<1> QED BY <1>7, <1>8, <1>9

-----------------------------------------------------------------------------
(***************************************************************************)
(* Programs: what the registers denote.                                    *)
(***************************************************************************)
\* Denotes is inductive for vectors that pass vec_verify, on a path that is a
\* set of valuations.
Computes ==
  /\ Verifies
  /\ path \subseteq Valuation
  /\ values = [r \in Reg |-> values[r]]
  /\ Denotes

Computed(d, vec, value) ==
  /\ Replaced(d, vec)
  /\ values' = [values EXCEPT ![d] = value]
  /\ path' = path

\* A step computes if what it puts in a register denotes its value.
LEMMA ComputedDenotes ==
  ASSUME Computes, NEW d \in Reg, NEW vec, NEW value, Computed(d, vec, value),
         \A v \in path : Value(vec, v) = value[v]
  PROVE  /\ path' \subseteq Valuation
         /\ values' = [r \in Reg |-> values'[r]]
         /\ Denotes'
<1>1. regs' = [r \in Reg |-> IF r = d THEN vec ELSE regs[r]]
  BY DEF Computes, Verifies, Computed, Replaced
<1>2. values' = [r \in Reg |-> IF r = d THEN value ELSE values[r]]
  BY DEF Computes, Computed
<1>3. path' = path
  BY DEF Computed
<1>4. ASSUME NEW r \in Reg, NEW v \in path PROVE Value(regs'[r], v) = values'[r][v]
  BY <1>1, <1>2, <1>4 DEF Computes, Denotes
<1>5. \A r \in Reg, v \in path' : Value(regs'[r], v) = values'[r][v]
  BY <1>3, <1>4
<1> QED BY <1>2, <1>3, <1>5 DEF Computes, Denotes

\* What a step has to preserve besides Verifies.
After ==
  /\ path' \subseteq Valuation
  /\ values' = [r \in Reg |-> values'[r]]
  /\ Denotes'

LEMMA ConditionLiteral ==
  ASSUME NEW n, NEW x, Sized(x, n)
  PROVE  Lits(x)[0] \in Literal
<1>1. n \in Nat \ {0} /\ Lits(x) \in LitVec(n)
  BY SizedFacts
<1>2. 0 \in Bits(n)
  BY <1>1 DEF Bits
<1> QED BY <1>1, <1>2 DEF LitVec

LEMMA EqualLiteral ==
  ASSUME NEW n, NEW x, NEW y, Sized(x, n), Sized(y, n), NEW p, NEW l \in vec_equal_SAT(p, x, y)
  PROVE  l \in Literal
<1>1. vec_equal(x, y) \in Literal
  BY DEF vec_equal, Literal, Const0, Const1
<1> QED BY <1>1, SolvedType DEF vec_equal_SAT

\* Each operation puts into its register what denotes its value.
LEMMA StepDenotes ==
  ASSUME Computes, Next
  PROVE  After
<1>0. \A r \in Reg : /\ Sized(regs[r], Size(r)) /\ Size(r) \in Nat \ {0}
                     /\ \A v \in path : v \in Valuation /\ Value(regs[r], v) = values[r][v]
  BY SizedFacts DEF Computes, Verifies, Verified, Denotes, Sized, Size
<1>1. ASSUME NEW d \in Reg, NEW s \in Reg, INT_ADD(d, s)
      PROVE  After
  <2> DEFINE z == vec_add(regs[d], regs[s])
             f == [v \in Valuation |-> ADD(values[d][v], values[s][v], Size(d))]
  <2>1. Size(d) = Size(s) /\ Computed(d, z, f)
    BY <1>1 DEF INT_ADD, SameSize, Binary, pINT_ADD, Set, Computed, Replaced
  <2>2. ASSUME NEW v \in path PROVE Value(z, v) = f[v]
    BY <1>0, <2>1, AddValue
  <2> HIDE DEF z, f
  <2> QED BY <2>1, <2>2, ComputedDenotes DEF After
<1>2. ASSUME NEW d \in Reg, NEW s \in Reg, INT_SUB(d, s)
      PROVE  After
  <2> DEFINE z == vec_sub(regs[d], regs[s])
             f == [v \in Valuation |-> SUB(values[d][v], values[s][v], Size(d))]
  <2>1. Size(d) = Size(s) /\ Computed(d, z, f)
    BY <1>2 DEF INT_SUB, SameSize, Binary, pINT_SUB, Set, Computed, Replaced
  <2>2. ASSUME NEW v \in path PROVE Value(z, v) = f[v]
    BY <1>0, <2>1, SubValue
  <2> HIDE DEF z, f
  <2> QED BY <2>1, <2>2, ComputedDenotes DEF After
<1>3. ASSUME NEW d \in Reg, NEW s \in Reg, INT_AND(d, s)
      PROVE  After
  <2> DEFINE z == vec_and(regs[d], regs[s])
             f == [v \in Valuation |-> AND(values[d][v], values[s][v], Size(d))]
  <2>1. Size(d) = Size(s) /\ Computed(d, z, f)
    BY <1>3 DEF INT_AND, SameSize, Binary, pINT_AND, Set, Computed, Replaced
  <2>2. ASSUME NEW v \in path PROVE Value(z, v) = f[v]
    BY <1>0, <2>1, AndValue
  <2> HIDE DEF z, f
  <2> QED BY <2>1, <2>2, ComputedDenotes DEF After
<1>4. ASSUME NEW d \in Reg, NEW s \in Reg, INT_OR(d, s)
      PROVE  After
  <2> DEFINE z == vec_or(regs[d], regs[s])
             f == [v \in Valuation |-> OR(values[d][v], values[s][v], Size(d))]
  <2>1. Size(d) = Size(s) /\ Computed(d, z, f)
    BY <1>4 DEF INT_OR, SameSize, Binary, pINT_OR, Set, Computed, Replaced
  <2>2. ASSUME NEW v \in path PROVE Value(z, v) = f[v]
    BY <1>0, <2>1, OrValue
  <2> HIDE DEF z, f
  <2> QED BY <2>1, <2>2, ComputedDenotes DEF After
<1>5. ASSUME NEW d \in Reg, NEW s \in Reg, INT_XOR(d, s)
      PROVE  After
  <2> DEFINE z == vec_xor(regs[d], regs[s])
             f == [v \in Valuation |-> XOR(values[d][v], values[s][v], Size(d))]
  <2>1. Size(d) = Size(s) /\ Computed(d, z, f)
    BY <1>5 DEF INT_XOR, SameSize, Binary, pINT_XOR, Set, Computed, Replaced
  <2>2. ASSUME NEW v \in path PROVE Value(z, v) = f[v]
    BY <1>0, <2>1, XorValue
  <2> HIDE DEF z, f
  <2> QED BY <2>1, <2>2, ComputedDenotes DEF After
<1>6. ASSUME NEW d \in Reg, NEW s \in Reg, INT_DIV(d, s)
      PROVE  After
  <2> DEFINE z == vec_quot_rem(regs[d], regs[s], TRUE)
             f == [v \in Valuation |-> DIV(values[d][v], values[s][v], Size(d))]
  <2>1. Size(d) = Size(s) /\ Computed(d, z, f)
    BY <1>6 DEF INT_DIV, SameSize, Binary, pINT_DIV, Set, Computed, Replaced
  <2>2. Sized(regs[d], Size(d)) /\ Sized(regs[s], Size(d))
    BY <1>0, <2>1
  <2>3. ASSUME NEW v \in path PROVE Value(z, v) = f[v]
    <3>1. v \in Valuation /\ Value(regs[d], v) = values[d][v] /\ Value(regs[s], v) = values[s][v]
      BY <1>0
    <3>2. Value(vec_quot_rem(regs[d], regs[s], TRUE), v) = DIV(Value(regs[d], v), Value(regs[s], v), Size(d))
      BY <2>2, <3>1, QuotRemValue
    <3> QED BY <3>1, <3>2
  <2> HIDE DEF z, f
  <2> QED BY <2>1, <2>3, ComputedDenotes DEF After
<1>7. ASSUME NEW d \in Reg, NEW s \in Reg, INT_REM(d, s)
      PROVE  After
  <2> DEFINE z == vec_quot_rem(regs[d], regs[s], FALSE)
             f == [v \in Valuation |-> REM(values[d][v], values[s][v], Size(d))]
  <2>1. Size(d) = Size(s) /\ Computed(d, z, f)
    BY <1>7 DEF INT_REM, SameSize, Binary, pINT_REM, Set, Computed, Replaced
  <2>2. Sized(regs[d], Size(d)) /\ Sized(regs[s], Size(d))
    BY <1>0, <2>1
  <2>3. ASSUME NEW v \in path PROVE Value(z, v) = f[v]
    <3>1. v \in Valuation /\ Value(regs[d], v) = values[d][v] /\ Value(regs[s], v) = values[s][v]
      BY <1>0
    <3>2. Value(vec_quot_rem(regs[d], regs[s], FALSE), v) = REM(Value(regs[d], v), Value(regs[s], v), Size(d))
      BY <2>2, <3>1, QuotRemValue
    <3> QED BY <3>1, <3>2
  <2> HIDE DEF z, f
  <2> QED BY <2>1, <2>3, ComputedDenotes DEF After
<1>8. ASSUME NEW d \in Reg, NEW s \in Reg, COPY(d, s)
      PROVE  After
  <2> DEFINE z == regs[s]
             f == [v \in Valuation |-> values[s][v]]
  <2>1. Computed(d, z, f)
    BY <1>8 DEF COPY, Binary, pCOPY, Set, Computed, Replaced
  <2>2. ASSUME NEW v \in path PROVE Value(z, v) = f[v]
    BY <1>0
  <2> HIDE DEF z, f
  <2> QED BY <2>1, <2>2, ComputedDenotes DEF After
<1>9. ASSUME NEW d \in Reg, NEW s \in Reg, INT_MULT(d, s)
      PROVE  After
  <2> DEFINE z == vec_mult(regs[d], regs[s])
             f == [v \in Valuation |-> MULT(values[d][v], values[s][v], Size(d))]
  <2>1. Size(d) = Size(s) /\ MultIsRight(d, s) /\ Computed(d, z, f)
    BY <1>9 DEF INT_MULT, SameSize, Binary, pINT_MULT, Set, Computed, Replaced
  <2>2. \/ ~regs[d].isSymbolic /\ ~regs[s].isSymbolic
        \/ \A i, k \in Bits(Size(d)) : i < k /\ Lits(regs[s])[k] = Const1 => IsConst(Lits(regs[s])[i])
    BY <2>1 DEF MultIsRight
  <2>3. ASSUME NEW v \in path PROVE Value(z, v) = f[v]
    BY <1>0, <2>1, <2>2, MultValue
  <2> HIDE DEF z, f
  <2> QED BY <2>1, <2>3, ComputedDenotes DEF After
<1>10. ASSUME NEW d \in Reg, NEW s \in Reg, INT_SDIV(d, s)
      PROVE  After
  <2> DEFINE z == pINT_SDIV(regs[d], regs[s])
             f == [v \in Valuation |-> SDIV(values[d][v], values[s][v], Size(d))]
  <2>1. /\ Size(d) = Size(s)
        /\ SignIsRight(d)
        /\ SignIsRight(s)
        /\ Size(d) <= WORD_BITS
        /\ QuotientFits(regs[d], regs[s])
        /\ Computed(d, z, f)
    BY <1>10 DEF INT_SDIV, SDivIsRight, Signed2, SameSize, Binary, Set, Computed, Replaced
  <2>2. SignRight(regs[d]) /\ SignRight(regs[s])
    BY <1>0, <2>1 DEF SignIsRight, SignRight, Size
  <2>3. ASSUME NEW v \in path PROVE Value(z, v) = f[v]
    BY <1>0, <2>1, <2>2, SignedQuotientValue
  <2> HIDE DEF z, f
  <2> QED BY <2>1, <2>3, ComputedDenotes DEF After
<1>11. ASSUME NEW d \in Reg, NEW s \in Reg, INT_SREM(d, s)
      PROVE  After
  <2> DEFINE z == pINT_SREM(regs[d], regs[s])
             f == [v \in Valuation |-> SREM(values[d][v], values[s][v], Size(d))]
  <2>1. /\ Size(d) = Size(s)
        /\ SignIsRight(d)
        /\ SignIsRight(s)
        /\ SRemIsRight(d, s)
        /\ Computed(d, z, f)
    BY <1>11 DEF INT_SREM, Signed2, SameSize, Binary, Set, Computed, Replaced
  <2>2. /\ QuotientFits(regs[d], regs[s])
        /\ ~(regs[d].isSymbolic /\ ~regs[s].isSymbolic /\ regs[s].conWord = 0)
    BY <2>1 DEF SRemIsRight, SDivIsRight
  <2>3. SignRight(regs[d]) /\ SignRight(regs[s])
    BY <1>0, <2>1 DEF SignIsRight, SignRight, Size
  <2>4. ASSUME NEW v \in path PROVE Value(z, v) = f[v]
    BY <1>0, <2>1, <2>2, <2>3, SignedRemainderValue
  <2> HIDE DEF z, f
  <2> QED BY <2>1, <2>4, ComputedDenotes DEF After
<1>12. ASSUME NEW d \in Reg, NEW s \in Reg, INT_LEFT(d, s)
      PROVE  After
  <2> DEFINE z == vec_shiftleft(regs[d], regs[s])
             f == [v \in Valuation |-> LEFT(values[d][v], values[s][v], Size(d))]
  <2>1. Computed(d, z, f)
    BY <1>12 DEF INT_LEFT, Binary, pINT_LEFT, Set, Computed, Replaced
  <2>2. ASSUME NEW v \in path PROVE Value(z, v) = f[v]
    BY <1>0, ShiftLeftValue
  <2> HIDE DEF z, f
  <2> QED BY <2>1, <2>2, ComputedDenotes DEF After
<1>13. ASSUME NEW d \in Reg, NEW s \in Reg, INT_RIGHT(d, s)
      PROVE  After
  <2> DEFINE z == vec_shiftright(regs[d], regs[s])
             f == [v \in Valuation |-> RIGHT(values[d][v], values[s][v], Size(d))]
  <2>1. Computed(d, z, f)
    BY <1>13 DEF INT_RIGHT, Binary, pINT_RIGHT, Set, Computed, Replaced
  <2>2. ASSUME NEW v \in path PROVE Value(z, v) = f[v]
    BY <1>0, ShiftRightValue
  <2> HIDE DEF z, f
  <2> QED BY <2>1, <2>2, ComputedDenotes DEF After
<1>14. ASSUME NEW d \in Reg, NEW s \in Reg, INT_SRIGHT(d, s)
      PROVE  After
  <2> DEFINE z == vec_signedshiftright(regs[d], regs[s])
             f == [v \in Valuation |-> SRIGHT(values[d][v], values[s][v], Size(d))]
  <2>1. SignIsRight(d) /\ SRightIsRight(d, s) /\ Computed(d, z, f)
    BY <1>14 DEF INT_SRIGHT, Binary, pINT_SRIGHT, Set, Computed, Replaced
  <2>2. SignRight(regs[d])
    BY <1>0, <2>1 DEF SignIsRight, SignRight, Size
  <2>3. SignedShiftAsserts(regs[d], regs[s])
    BY <2>1 DEF SRightIsRight
  <2>4. ASSUME NEW v \in path PROVE Value(z, v) = f[v]
    BY <1>0, <2>1, <2>2, <2>3, SignedShiftRightValue
  <2> HIDE DEF z, f
  <2> QED BY <2>1, <2>4, ComputedDenotes DEF After
<1>15. ASSUME NEW d \in Reg, NEW s \in Reg, INT_EQUAL(d, s)
      PROVE  After
  <2> DEFINE z == pINT_EQUAL(regs[d], regs[s])
             f == [v \in Valuation |-> EQ(values[d][v], values[s][v], Size(d))]
  <2>1. Size(d) = Size(s) /\ Computed(d, z, f)
    BY <1>15 DEF INT_EQUAL, SameSize, Binary, Set, Computed, Replaced
  <2>2. ASSUME NEW v \in path PROVE Value(z, v) = f[v]
    BY <1>0, <2>1, ComparisonValue
  <2> HIDE DEF z, f
  <2> QED BY <2>1, <2>2, ComputedDenotes DEF After
<1>16. ASSUME NEW d \in Reg, NEW s \in Reg, INT_NOTEQUAL(d, s)
      PROVE  After
  <2> DEFINE z == pINT_NOTEQUAL(regs[d], regs[s])
             f == [v \in Valuation |-> 1 - EQ(values[d][v], values[s][v], Size(d))]
  <2>1. Size(d) = Size(s) /\ Computed(d, z, f)
    BY <1>16 DEF INT_NOTEQUAL, SameSize, Binary, Set, Computed, Replaced
  <2>2. ASSUME NEW v \in path PROVE Value(z, v) = f[v]
    BY <1>0, <2>1, ComparisonValue
  <2> HIDE DEF z, f
  <2> QED BY <2>1, <2>2, ComputedDenotes DEF After
<1>17. ASSUME NEW d \in Reg, NEW s \in Reg, INT_LESS(d, s)
      PROVE  After
  <2> DEFINE z == pINT_LESS(regs[d], regs[s])
             f == [v \in Valuation |-> GT(values[s][v], values[d][v], Size(d))]
  <2>1. Size(d) = Size(s) /\ Computed(d, z, f)
    BY <1>17 DEF INT_LESS, SameSize, Binary, Set, Computed, Replaced
  <2>2. ASSUME NEW v \in path PROVE Value(z, v) = f[v]
    BY <1>0, <2>1, ComparisonValue
  <2> HIDE DEF z, f
  <2> QED BY <2>1, <2>2, ComputedDenotes DEF After
<1>18. ASSUME NEW d \in Reg, NEW s \in Reg, INT_LESSEQUAL(d, s)
      PROVE  After
  <2> DEFINE z == pINT_LESSEQUAL(regs[d], regs[s])
             f == [v \in Valuation |-> 1 - GT(values[d][v], values[s][v], Size(d))]
  <2>1. Size(d) = Size(s) /\ Computed(d, z, f)
    BY <1>18 DEF INT_LESSEQUAL, SameSize, Binary, Set, Computed, Replaced
  <2>2. ASSUME NEW v \in path PROVE Value(z, v) = f[v]
    BY <1>0, <2>1, ComparisonValue
  <2> HIDE DEF z, f
  <2> QED BY <2>1, <2>2, ComputedDenotes DEF After
<1>19. ASSUME NEW d \in Reg, NEW s \in Reg, INT_CARRY(d, s)
      PROVE  After
  <2> DEFINE z == pINT_CARRY(regs[d], regs[s])
             f == [v \in Valuation |-> CARRY(values[d][v], values[s][v], Size(d))]
  <2>1. Size(d) = Size(s) /\ Computed(d, z, f)
    BY <1>19 DEF INT_CARRY, SameSize, Binary, Set, Computed, Replaced
  <2>2. ASSUME NEW v \in path PROVE Value(z, v) = f[v]
    BY <1>0, <2>1, ComparisonValue
  <2> HIDE DEF z, f
  <2> QED BY <2>1, <2>2, ComputedDenotes DEF After
<1>20. ASSUME NEW d \in Reg, NEW s \in Reg, INT_SLESS(d, s)
      PROVE  After
  <2> DEFINE z == pINT_SLESS(regs[d], regs[s])
             f == [v \in Valuation |-> SGT(values[s][v], values[d][v], Size(d))]
  <2>1. Size(d) = Size(s) /\ SignIsRight(d) /\ SignIsRight(s) /\ Computed(d, z, f)
    BY <1>20 DEF INT_SLESS, Signed2, SameSize, Binary, Set, Computed, Replaced
  <2>2. SignRight(regs[d]) /\ SignRight(regs[s])
    BY <1>0, <2>1 DEF SignIsRight, SignRight, Size
  <2>3. ASSUME NEW v \in path PROVE Value(z, v) = f[v]
    BY <1>0, <2>1, <2>2, SignedComparisonValue
  <2> HIDE DEF z, f
  <2> QED BY <2>1, <2>3, ComputedDenotes DEF After
<1>21. ASSUME NEW d \in Reg, NEW s \in Reg, INT_SLESSEQUAL(d, s)
      PROVE  After
  <2> DEFINE z == pINT_SLESSEQUAL(regs[d], regs[s])
             f == [v \in Valuation |-> 1 - SGT(values[d][v], values[s][v], Size(d))]
  <2>1. Size(d) = Size(s) /\ SignIsRight(d) /\ SignIsRight(s) /\ Computed(d, z, f)
    BY <1>21 DEF INT_SLESSEQUAL, Signed2, SameSize, Binary, Set, Computed, Replaced
  <2>2. SignRight(regs[d]) /\ SignRight(regs[s])
    BY <1>0, <2>1 DEF SignIsRight, SignRight, Size
  <2>3. ASSUME NEW v \in path PROVE Value(z, v) = f[v]
    BY <1>0, <2>1, <2>2, SignedComparisonValue
  <2> HIDE DEF z, f
  <2> QED BY <2>1, <2>3, ComputedDenotes DEF After
<1>22. ASSUME NEW d \in Reg, NEW s \in Reg, INT_SCARRY(d, s)
      PROVE  After
  <2> DEFINE z == pINT_SCARRY(regs[d], regs[s])
             f == [v \in Valuation |-> SCARRY(values[d][v], values[s][v], Size(d))]
  <2>1. /\ Size(d) = Size(s)
        /\ SignIsRight(d)
        /\ SignIsRight(s)
        /\ SCarryIsRight(d, s)
        /\ Computed(d, z, f)
    BY <1>22 DEF INT_SCARRY, Signed2, SameSize, Binary, Set, Computed, Replaced
  <2>2. ~regs[d].isSymbolic /\ ~regs[s].isSymbolic =>
          /\ Size(d) # WORD_BITS - 1
          /\ regs[d].conWord = Zext(regs[d]) /\ regs[s].conWord = Zext(regs[s])
    BY <2>1 DEF SCarryIsRight
  <2>3. ~regs[d].isSymbolic /\ ~regs[s].isSymbolic =>
          SummandWord(regs[s], Zext(regs[s]), Size(d))
    BY <2>2 DEF SummandWord
  <2>4. SignRight(regs[d]) /\ SignRight(regs[s])
    BY <1>0, <2>1 DEF SignIsRight, SignRight, Size
  <2>5. ASSUME NEW v \in path PROVE Value(z, v) = f[v]
    BY <1>0, <2>1, <2>2, <2>3, <2>4, SignedCarryValue
  <2> HIDE DEF z, f
  <2> QED BY <2>1, <2>5, ComputedDenotes DEF After
<1>23. ASSUME NEW d \in Reg, NEW s \in Reg, INT_SBORROW(d, s)
      PROVE  After
  <2> DEFINE z == pINT_SBORROW(regs[d], regs[s])
             f == [v \in Valuation |-> SBORROW(values[d][v], values[s][v], Size(d))]
  <2>1. /\ Size(d) = Size(s)
        /\ SignIsRight(d)
        /\ SignIsRight(s)
        /\ SBorrowIsRight(d, s)
        /\ Computed(d, z, f)
    BY <1>23 DEF INT_SBORROW, Signed2, SameSize, Binary, Set, Computed, Replaced
  <2>2. ~regs[d].isSymbolic /\ ~regs[s].isSymbolic =>
          /\ Size(d) # WORD_BITS - 1
          /\ regs[d].conWord = Zext(regs[d]) /\ regs[s].conWord = Zext(regs[s])
    BY <2>1 DEF SBorrowIsRight, SCarryIsRight
  <2>3. \A v \in Valuation : Value(regs[s], v) # Least(Size(d))
    BY <2>1 DEF SBorrowIsRight
  <2>4. SignRight(regs[d]) /\ SignRight(regs[s])
    BY <1>0, <2>1 DEF SignIsRight, SignRight, Size
  <2>5. ASSUME NEW v \in path PROVE Value(z, v) = f[v]
    BY <1>0, <2>1, <2>2, <2>3, <2>4, SignedBorrowValue
  <2> HIDE DEF z, f
  <2> QED BY <2>1, <2>5, ComputedDenotes DEF After
<1>24. ASSUME NEW d \in Reg, NEW s \in Reg, BOOL_AND(d, s)
      PROVE  After
  <2> DEFINE z == pBOOL_AND(regs[d], regs[s])
             f == [v \in Valuation |-> AND(values[d][v] % 2, values[s][v] % 2, 1)]
  <2>1. Size(d) = BITS_IN_BYTE /\ Size(s) = BITS_IN_BYTE /\ Computed(d, z, f)
    BY <1>24 DEF BOOL_AND, BoolBinary, Binary, Set, Computed, Replaced
  <2>2. ASSUME NEW v \in path PROVE Value(z, v) = f[v]
    BY <1>0, BooleanValue
  <2> HIDE DEF z, f
  <2> QED BY <2>1, <2>2, ComputedDenotes DEF After
<1>25. ASSUME NEW d \in Reg, NEW s \in Reg, BOOL_OR(d, s)
      PROVE  After
  <2> DEFINE z == pBOOL_OR(regs[d], regs[s])
             f == [v \in Valuation |-> OR(values[d][v] % 2, values[s][v] % 2, 1)]
  <2>1. Size(d) = BITS_IN_BYTE /\ Size(s) = BITS_IN_BYTE /\ Computed(d, z, f)
    BY <1>25 DEF BOOL_OR, BoolBinary, Binary, Set, Computed, Replaced
  <2>2. ASSUME NEW v \in path PROVE Value(z, v) = f[v]
    BY <1>0, BooleanValue
  <2> HIDE DEF z, f
  <2> QED BY <2>1, <2>2, ComputedDenotes DEF After
<1>26. ASSUME NEW d \in Reg, NEW s \in Reg, BOOL_XOR(d, s)
      PROVE  After
  <2> DEFINE z == pBOOL_XOR(regs[d], regs[s])
             f == [v \in Valuation |-> XOR(values[d][v] % 2, values[s][v] % 2, 1)]
  <2>1. Size(d) = BITS_IN_BYTE /\ Size(s) = BITS_IN_BYTE /\ Computed(d, z, f)
    BY <1>26 DEF BOOL_XOR, BoolBinary, Binary, Set, Computed, Replaced
  <2>2. ASSUME NEW v \in path PROVE Value(z, v) = f[v]
    BY <1>0, BooleanValue
  <2> HIDE DEF z, f
  <2> QED BY <2>1, <2>2, ComputedDenotes DEF After
<1>27. ASSUME NEW d \in Reg, NEW s \in Reg, PIECES(d, s)
      PROVE  After
  <2> DEFINE z == vec_cat(regs[d], regs[s])
             f == [v \in Valuation |-> CAT(values[d][v], values[s][v], Size(s))]
  <2>1. Computed(d, z, f)
    BY <1>27 DEF PIECES, pPIECE, Set, Computed, Replaced
  <2>2. ASSUME NEW v \in path PROVE Value(z, v) = f[v]
    BY <1>0, CatValue
  <2> HIDE DEF z, f
  <2> QED BY <2>1, <2>2, ComputedDenotes DEF After
<1>28. ASSUME NEW d \in Reg, NEW s \in Reg, RotateRight(d, s)
      PROVE  After
  <2> DEFINE z == vec_rotateright(regs[d], regs[s])
             f == [v \in Valuation |-> ROTR(values[d][v], values[s][v], Size(d))]
  <2>1. RotateIsRight(d, s) /\ Computed(d, z, f)
    BY <1>28 DEF RotateRight, Binary, Set, Computed, Replaced
  <2>2. /\ Size(d) <= WORD_BITS
        /\ RotationFitsInt(regs[s])
        /\ ~regs[s].isSymbolic => regs[s].conWord = Zext(regs[s])
    BY <2>1 DEF RotateIsRight
  <2>3. ASSUME NEW v \in path PROVE Value(z, v) = f[v]
    BY <1>0, <2>1, <2>2, RotateRightValue
  <2> HIDE DEF z, f
  <2> QED BY <2>1, <2>3, ComputedDenotes DEF After
<1>29. ASSUME NEW d \in Reg, NEW s \in Reg, RotateLeft(d, s)
      PROVE  After
  <2> DEFINE z == vec_rotateleft(regs[d], regs[s])
             f == [v \in Valuation |-> ROTL(values[d][v], values[s][v], Size(d))]
  <2>1. RotateLeftIsRight(d, s) /\ Computed(d, z, f)
    BY <1>29 DEF RotateLeft, Binary, Set, Computed, Replaced
  <2>2. /\ RotationFitsInt(regs[s])
        /\ ~regs[s].isSymbolic => regs[s].conWord = Zext(regs[s])
    BY <2>1 DEF RotateLeftIsRight, RotateIsRight
  <2>3. /\ Size(d) <= WORD_BITS
        /\ IF regs[s].isSymbolic THEN 2^(Size(s) - 1) <= Size(d)
           ELSE regs[d].isSymbolic => regs[s].conWord % Size(d) = 0
    BY <2>1 DEF RotateLeftIsRight, RotateIsRight
  <2>4. ASSUME NEW v \in path PROVE Value(z, v) = f[v]
    BY <1>0, <2>1, <2>2, <2>3, RotateLeftValue
  <2> HIDE DEF z, f
  <2> QED BY <2>1, <2>4, ComputedDenotes DEF After
<1>30. ASSUME NEW d \in Reg, NEW s \in Reg, NEW c \in Reg, IfThenElse(c, d, s)
      PROVE  After
  <2> DEFINE z == vec_ite(Condition(c), regs[d], regs[s])
             f == [v \in Valuation |-> IF values[c][v] % 2 = 1 THEN values[d][v] ELSE values[s][v]]
  <2>1. Size(d) = Size(s) /\ Computed(d, z, f)
    BY <1>30 DEF IfThenElse, Set, Computed, Replaced
  <2>2. Condition(c) \in Literal
    BY <1>0, ConditionLiteral DEF Condition
  <2>3. ASSUME NEW v \in path PROVE Value(z, v) = f[v]
    <3>1. v \in Condition(c) <=> Value(regs[c], v) % 2 = 1
      <4>1. Value(regs[c], v) % 2 = Bit(Lits(regs[c])[0], v)
        BY <1>0, LowBit
      <4> QED BY <4>1 DEF Bit, Condition
    <3>2. Value(z, v) = IF v \in Condition(c) THEN Value(regs[d], v) ELSE Value(regs[s], v)
      BY <1>0, <2>1, <2>2, IteValue
    <3> QED BY <1>0, <3>1, <3>2
  <2> HIDE DEF z, f
  <2> QED BY <2>1, <2>3, ComputedDenotes DEF After
<1>31. ASSUME NEW d \in Reg, NEW s \in Reg, NEW c \in Reg, IfEqual(c, d, s)
      PROVE  After
  <2> DEFINE f == [v \in Valuation |-> IF values[d][v] = values[s][v] THEN values[c][v]
                                     ELSE values[d][v]]
  <2>1. PICK l \in vec_equal_SAT(path, regs[d], regs[s]) :
          /\ Size(d) = Size(s) /\ Size(c) = Size(d)
          /\ Computed(d, vec_ite(l, regs[c], regs[d]), f)
    BY <1>31 DEF IfEqual, Set, Computed, Replaced
  <2> DEFINE z == vec_ite(l, regs[c], regs[d])
             e == vec_equal(regs[d], regs[s])
  <2>2. l \in SolvedLit(path, e)
    BY <2>1 DEF vec_equal_SAT
  <2>3. l \in Literal
    BY <1>0, <2>1, EqualLiteral
  <2>4. ASSUME NEW v \in path PROVE Value(z, v) = f[v]
    <3>1. v \in l <=> v \in e
      <4>1. v \in Valuation
        BY <1>0
      <4> HIDE DEF e
      <4> QED BY <2>2, <4>1, SolvedBit
    <3>2. v \in e <=> Value(regs[d], v) = Value(regs[s], v)
      BY <1>0, <2>1, EqualValue
    <3>3. Value(z, v) = IF v \in l THEN Value(regs[c], v) ELSE Value(regs[d], v)
      BY <1>0, <2>1, <2>3, IteValue
    <3> QED BY <1>0, <3>1, <3>2, <3>3
  <2> HIDE DEF f, z
  <2>5. Computed(d, z, f)
    BY <2>1 DEF z
  <2> QED BY <2>4, <2>5, ComputedDenotes DEF After
<1>32. ASSUME NEW d \in Reg, INT_2COMP(d)
      PROVE  After
  <2> DEFINE z == vec_negate(regs[d])
             f == [v \in Valuation |-> NEG(values[d][v], Size(d))]
  <2>1. Computed(d, z, f)
    BY <1>32 DEF INT_2COMP, Unary, pINT_2COMP, Set, Computed, Replaced
  <2>2. ASSUME NEW v \in path PROVE Value(z, v) = f[v]
    BY <1>0, NegateValue
  <2> HIDE DEF z, f
  <2> QED BY <2>1, <2>2, ComputedDenotes DEF After
<1>33. ASSUME NEW d \in Reg, INT_NEGATE(d)
      PROVE  After
  <2> DEFINE z == vec_invert(regs[d])
             f == [v \in Valuation |-> NOT(values[d][v], Size(d))]
  <2>1. Computed(d, z, f)
    BY <1>33 DEF INT_NEGATE, Unary, pINT_NEGATE, Set, Computed, Replaced
  <2>2. ASSUME NEW v \in path PROVE Value(z, v) = f[v]
    BY <1>0, InvertValue
  <2> HIDE DEF z, f
  <2> QED BY <2>1, <2>2, ComputedDenotes DEF After
<1>34. ASSUME NEW d \in Reg, Absolute(d)
      PROVE  After
  <2> DEFINE z == vec_abs(regs[d])
             f == [v \in Valuation |-> ABS(values[d][v], Size(d))]
  <2>1. Computed(d, z, f)
    BY <1>34 DEF Absolute, Unary, Set, Computed, Replaced
  <2>2. ASSUME NEW v \in path PROVE Value(z, v) = f[v]
    BY <1>0, AbsValue
  <2> HIDE DEF z, f
  <2> QED BY <2>1, <2>2, ComputedDenotes DEF After
<1>35. ASSUME NEW d \in Reg, Reverse(d)
      PROVE  After
  <2> DEFINE z == vec_reverse(regs[d])
             f == [v \in Valuation |-> REVERSE(values[d][v], Size(d))]
  <2>1. Computed(d, z, f)
    BY <1>35 DEF Reverse, Unary, Set, Computed, Replaced
  <2>2. ASSUME NEW v \in path PROVE Value(z, v) = f[v]
    BY <1>0, ReverseValue
  <2> HIDE DEF z, f
  <2> QED BY <2>1, <2>2, ComputedDenotes DEF After
<1>36. ASSUME NEW d \in Reg, BOOL_NEGATE(d)
      PROVE  After
  <2> DEFINE z == pBOOL_NEGATE(regs[d])
             f == [v \in Valuation |-> 1 - (values[d][v] % 2)]
  <2>1. Computed(d, z, f)
    BY <1>36 DEF BOOL_NEGATE, Unary, Set, Computed, Replaced
  <2>2. ASSUME NEW v \in path PROVE Value(z, v) = f[v]
    BY <1>0, BooleanValue
  <2> HIDE DEF z, f
  <2> QED BY <2>1, <2>2, ComputedDenotes DEF After
<1>37. ASSUME NEW d \in Reg, SwapBytes(d)
      PROVE  After
  <2> DEFINE z == Swapped(regs[d])
             f == [v \in Valuation |-> SWAP(values[d][v], Size(d) \div BITS_IN_BYTE, BITS_IN_BYTE)]
  <2>1. Size(d) % BITS_IN_BYTE = 0 /\ Computed(d, z, f)
    BY <1>37 DEF SwapBytes, Swapped, Size, Set, Computed, Replaced
  <2>2. ASSUME NEW v \in path PROVE Value(z, v) = f[v]
    BY <1>0, <2>1, SwapValue
  <2> HIDE DEF z, f
  <2> QED BY <2>1, <2>2, ComputedDenotes DEF After
<1>38. ASSUME NEW d \in Reg, NEW m \in 1 .. MaxSize \div BITS_IN_BYTE, INT_ZEXT(d, m)
      PROVE  After
  <2> DEFINE z == vec_zextend(regs[d], m * BITS_IN_BYTE)
             f == [v \in Valuation |-> values[d][v]]
  <2>1. m * BITS_IN_BYTE >= Size(d) /\ Computed(d, z, f)
    BY <1>38 DEF INT_ZEXT, Unary, pINT_ZEXT, Set, Computed, Replaced
  <2>2. m * BITS_IN_BYTE \in Nat \ {0} /\ Size(d) <= m * BITS_IN_BYTE
    BY <1>0, <2>1, BytesType
  <2>3. ASSUME NEW v \in path PROVE Value(z, v) = f[v]
    BY <1>0, <2>1, <2>2, ZextendValue
  <2> HIDE DEF z, f
  <2> QED BY <2>1, <2>3, ComputedDenotes DEF After
<1>39. ASSUME NEW d \in Reg, NEW m \in 1 .. MaxSize \div BITS_IN_BYTE, INT_SEXT(d, m)
      PROVE  After
  <2> DEFINE z == vec_sextend(regs[d], m * BITS_IN_BYTE)
             f == [v \in Valuation |-> SEXT(values[d][v], Size(d), m * BITS_IN_BYTE)]
  <2>1. m * BITS_IN_BYTE >= Size(d) /\ SignIsRight(d) /\ Computed(d, z, f)
    BY <1>39 DEF INT_SEXT, Unary, pINT_SEXT, Set, Computed, Replaced
  <2>2. m * BITS_IN_BYTE \in Nat \ {0} /\ Size(d) <= m * BITS_IN_BYTE
    BY <1>0, <2>1, BytesType
  <2>3. SignRight(regs[d])
    BY <1>0, <2>1 DEF SignIsRight, SignRight, Size
  <2>4. ASSUME NEW v \in path PROVE Value(z, v) = f[v]
    BY <1>0, <2>1, <2>2, <2>3, SextendValue
  <2> HIDE DEF z, f
  <2> QED BY <2>1, <2>4, ComputedDenotes DEF After
<1>40. ASSUME NEW d \in Reg, NEW m \in 1 .. MaxSize \div BITS_IN_BYTE, NEW k \in 0 .. MaxSize \div BITS_IN_BYTE,
             SUBPIECE(d, k, m)
      PROVE  After
  <2> DEFINE z == pSUBPIECE(regs[d], k, m)
             f == [v \in Valuation |-> PIECE(values[d][v], k * BITS_IN_BYTE, m * BITS_IN_BYTE)]
  <2>1. Computed(d, z, f)
    BY <1>40 DEF SUBPIECE, Unary, Set, Computed, Replaced
  <2>2. k \in Nat /\ m \in Nat \ {0}
    OBVIOUS
  <2>3. ASSUME NEW v \in path PROVE Value(z, v) = f[v]
    BY <1>0, <2>2, SubpieceValue
  <2> HIDE DEF z, f
  <2> QED BY <2>1, <2>3, ComputedDenotes DEF After
<1>41. ASSUME NEW d \in Reg, NEW amount \in 1 .. MaxSize, Truncate(d, amount)
      PROVE  After
  <2> DEFINE z == vec_extract(regs[d], 0, amount)
             f == [v \in Valuation |-> PIECE(values[d][v], 0, amount)]
  <2>1. amount <= Size(d) /\ ExtractAsserts(regs[d], 0, amount) /\ Computed(d, z, f)
    BY <1>41 DEF Truncate, Unary, vec_trunc, Set, Computed, Replaced
  <2>2. 0 \in Nat /\ amount \in Nat \ {0} /\ 0 + amount <= Size(d)
    BY <2>1
  <2>3. ASSUME NEW v \in path PROVE Value(z, v) = f[v]
    BY <1>0, <2>1, <2>2, ExtractValue
  <2> HIDE DEF z, f
  <2> QED BY <2>1, <2>3, ComputedDenotes DEF After
<1>42. ASSUME NEW d \in Reg, NEW amount \in 1 .. MaxSize, NEW start \in Bits(MaxSize),
             Extract(d, start, amount)
      PROVE  After
  <2> DEFINE z == vec_extract(regs[d], start, amount)
             f == [v \in Valuation |-> PIECE(values[d][v], start, amount)]
  <2>1. start + amount < Size(d) /\ ExtractAsserts(regs[d], start, amount) /\ Computed(d, z, f)
    BY <1>42 DEF Extract, Unary, Set, Computed, Replaced
  <2>2. start \in Nat /\ amount \in Nat \ {0} /\ start + amount <= Size(d)
    BY <1>0, <2>1 DEF Bits
  <2>3. ASSUME NEW v \in path PROVE Value(z, v) = f[v]
    BY <1>0, <2>1, <2>2, ExtractValue
  <2> HIDE DEF z, f
  <2> QED BY <2>1, <2>3, ComputedDenotes DEF After
<1>43. ASSUME NEW d \in Reg, NEW amount \in 1 .. MaxSize, NEW start \in Bits(MaxSize),
             SelectBits(d, amount, start)
      PROVE  After
  <2> DEFINE z == vec_selectBits(regs[d], amount, start)
             f == [v \in Valuation |-> PIECE(values[d][v], start, amount)]
  <2>1. amount + start <= Size(d) /\ Computed(d, z, f)
    BY <1>43 DEF SelectBits, Unary, Set, Computed, Replaced
  <2>2. start \in Nat /\ amount \in Nat \ {0} /\ start + amount <= Size(d)
    BY <1>0, <2>1 DEF Bits
  <2>3. ASSUME NEW v \in path PROVE Value(z, v) = f[v]
    BY <1>0, <2>1, <2>2, ExtractValue
  <2> HIDE DEF z, f
  <2> QED BY <2>1, <2>3, ComputedDenotes DEF After
<1>44. ASSUME NEW d \in Reg, Concretize(d)
      PROVE  After
  <2>1. PICK z \in vec_concretize_with_SAT(path, regs[d]) : Computed(d, z, values[d])
    <3>1. values = [values EXCEPT ![d] = values[d]]
      BY DEF Computes
    <3> QED BY <1>44, <3>1 DEF Concretize, Computed, Replaced
  <2>2. ASSUME NEW v \in path PROVE Value(z, v) = values[d][v]
    BY <1>0, ConcretizeValue
  <2> QED BY <2>1, <2>2, ComputedDenotes DEF After
<1>45. ASSUME NEW d \in Reg, NEW value \in BOOLEAN, Assume(d, value)
      PROVE  After
  <2>1. path' \subseteq path /\ regs' = regs /\ values' = values
    BY <1>45 DEF Assume
  <2> QED BY <2>1 DEF After, Computes, Denotes
<1> QED
    BY <1>1, <1>2, <1>3, <1>4, <1>5, <1>6, <1>7, <1>8, <1>9, <1>10, <1>11, <1>12, <1>13,
       <1>14, <1>15, <1>16, <1>17, <1>18, <1>19, <1>20, <1>21, <1>22, <1>23, <1>24, <1>25,
       <1>26, <1>27, <1>28, <1>29, <1>30, <1>31, <1>32, <1>33, <1>34, <1>35, <1>36, <1>37,
       <1>38, <1>39, <1>40, <1>41, <1>42, <1>43, <1>44, <1>45 DEF Next

\* Every register denotes, for each input that takes the path, what the
\* program computes on words, for every size of a word and of a vector and
\* any number of valuations: in whatever sequence operations give concrete,
\* symbolic and folded results, leave bits in a word that do not count, and
\* let the solver make literals constant.
THEOREM VectorsDenote == Spec => []Denotes
<1>1. Init => Computes
  <2> SUFFICES ASSUME Init PROVE Computes
    OBVIOUS
  <2>1. Verifies
    BY VectorProgramAssumption DEF Init, Verifies, Verified
  <2>2. path \subseteq Valuation
    BY DEF Init, Const1
  <2>3. values = [r \in Reg |-> values[r]]
    BY DEF Init
  <2>4. ASSUME NEW r \in Reg, NEW v \in path PROVE Value(regs[r], v) = values[r][v]
    BY <2>2 DEF Init
  <2> QED BY <2>1, <2>2, <2>3, <2>4 DEF Computes, Denotes
<1>2. Computes /\ [Next]_vars => Computes'
  <2>1. CASE UNCHANGED vars
    BY <2>1 DEF Computes, Verifies, Verified, Denotes, vars
  <2>2. ASSUME Computes, Next PROVE Computes'
    <3>1. Verifies'
      BY <2>2, StepVerifies DEF Computes
    <3>2. After
      BY <2>2, StepDenotes
    <3> QED BY <3>1, <3>2 DEF After, Computes
  <2> QED BY <2>1, <2>2
<1>3. Computes => Denotes
  BY DEF Computes
<1> QED BY <1>1, <1>2, <1>3, PTL DEF Spec
=============================================================================
