-------------------------- MODULE VectorPool_proofs -------------------------
(***************************************************************************)
(* Proofs about VectorPool, for any sizes of vector, any growth of the     *)
(* table and of its stacks, and any number of vectors.                     *)
(***************************************************************************)
EXTENDS VectorPool, SequenceTheorems, FiniteSetTheorems, TLAPS

Vec == [size : Sizes, inuse : {0, 1}]

(***************************************************************************)
(* A pool: the vectors vs, a table of m stacks and the vectors h that are  *)
(* held.  Vectors on a stack are free and of its size, none is there       *)
(* twice, and every vector that is not held is on the stack of its size.   *)
(***************************************************************************)
Table(vs, m, stacks) ==
  /\ m \in Nat
  /\ vs \in Seq(Vec)
  /\ stacks \in [0 .. m - 1 -> Seq(1 .. Len(vs))]
  /\ \A v \in 1 .. Len(vs) : vs[v].size \in 0 .. m - 1

Holding(vs, h) ==
  /\ h \subseteq 1 .. Len(vs)
  /\ \A v \in h : vs[v].inuse = 1

OnlyFree(vs, m, stacks, h) ==
  \A n \in 0 .. m - 1 : \A i \in 1 .. Len(stacks[n]) :
    /\ stacks[n][i] \notin h
    /\ vs[stacks[n][i]].inuse = 0
    /\ vs[stacks[n][i]].size = n

NoneTwice(m, stacks) ==
  \A n \in 0 .. m - 1 : \A i, j \in 1 .. Len(stacks[n]) :
    stacks[n][i] = stacks[n][j] => i = j

AllThere(vs, stacks, h) ==
  \A v \in (1 .. Len(vs)) \ h :
    \E i \in 1 .. Len(stacks[vs[v].size]) : stacks[vs[v].size][i] = v

Pool(vs, m, stacks, h) ==
  /\ Table(vs, m, stacks)
  /\ Holding(vs, h)
  /\ OnlyFree(vs, m, stacks, h)
  /\ NoneTwice(m, stacks)
  /\ AllThere(vs, stacks, h)

LEMMA VectorType ==
  ASSUME NEW vs \in Seq(Vec), NEW v \in 1 .. Len(vs)
  PROVE  /\ vs[v] \in Vec
         /\ vs[v].size \in Sizes /\ vs[v].size \in Nat \ {0}
         /\ vs[v].inuse \in {0, 1}
<1>1. vs[v] \in Vec
  BY ElementOfSeq
<1> QED BY <1>1, VectorPoolAssumption DEF Vec

(***************************************************************************)
(* Growing the table (aig_vectors.c:58-68).                                *)
(***************************************************************************)
Longer(m, M, stacks) == [i \in 0 .. M - 1 |-> IF i < m THEN stacks[i] ELSE <<>>]

LEMMA ResizePool ==
  ASSUME NEW vs, NEW m, NEW stacks, NEW h, Pool(vs, m, stacks, h),
         NEW M \in Nat, M >= m
  PROVE  Pool(vs, M, Longer(m, M, stacks), h)
<1> DEFINE L == Longer(m, M, stacks)
<1>1. /\ m \in Nat /\ vs \in Seq(Vec) /\ stacks \in [0 .. m - 1 -> Seq(1 .. Len(vs))]
      /\ \A v \in 1 .. Len(vs) : vs[v].size \in 0 .. m - 1
  BY DEF Pool, Table
<1>2. /\ \A n \in 0 .. m - 1 : L[n] = stacks[n]
      /\ \A n \in 0 .. M - 1 : n \notin 0 .. m - 1 => L[n] = <<>> /\ Len(L[n]) = 0
  BY <1>1, EmptySeq DEF Longer
<1>3. L \in [0 .. M - 1 -> Seq(1 .. Len(vs))]
  <2>1. \A i \in 0 .. M - 1 :
          (IF i < m THEN stacks[i] ELSE <<>>) \in Seq(1 .. Len(vs))
    <3> SUFFICES ASSUME NEW i \in 0 .. M - 1
                 PROVE  (IF i < m THEN stacks[i] ELSE <<>>) \in Seq(1 .. Len(vs))
      OBVIOUS
    <3>1. CASE i < m
      <4>1. i \in 0 .. m - 1
        BY <1>1, <3>1
      <4> QED BY <1>1, <3>1, <4>1
    <3>2. CASE ~(i < m)
      BY <3>2, EmptySeq
    <3> QED BY <3>1, <3>2
  <2> QED BY <2>1 DEF Longer
<1>4. 0 .. m - 1 \subseteq 0 .. M - 1
  BY <1>1
<1>5. Table(vs, M, L)
  BY <1>1, <1>3, <1>4 DEF Table
<1>6. \A n \in 0 .. M - 1 : \A i \in 1 .. Len(L[n]) :
        n \in 0 .. m - 1 /\ L[n] = stacks[n] /\ i \in 1 .. Len(stacks[n])
  BY <1>2
<1> HIDE DEF L
<1>7. OnlyFree(vs, M, L, h) /\ NoneTwice(M, L)
  BY <1>6 DEF Pool, OnlyFree, NoneTwice
<1>8. AllThere(vs, L, h)
  BY <1>1, <1>2 DEF Pool, AllThere
<1> QED BY <1>5, <1>7, <1>8 DEF Pool, L

(***************************************************************************)
(* Filling an empty stack (aig_vectors.c:19-33).                           *)
(***************************************************************************)
New(vs, k)     == [i \in 1 .. k |-> Len(vs) + i]
More(vs, n, k) == vs \o [i \in 1 .. k |-> alloc_vector(n)]

LEMMA MoreType ==
  ASSUME NEW vs \in Seq(Vec), NEW n \in Sizes, NEW k \in Nat
  PROVE  /\ More(vs, n, k) \in Seq(Vec)
         /\ Len(More(vs, n, k)) = Len(vs) + k
         /\ \A v \in 1 .. Len(vs) : More(vs, n, k)[v] = vs[v]
         /\ \A v \in 1 .. Len(vs) + k :
              v \notin 1 .. Len(vs) => More(vs, n, k)[v] = [size |-> n, inuse |-> 0]
<1> DEFINE a == [i \in 1 .. k |-> alloc_vector(n)]
<1>1. Len(vs) \in Nat
  BY LenProperties
<1>2. alloc_vector(n) = [size |-> n, inuse |-> 0] /\ alloc_vector(n) \in Vec
  BY DEF alloc_vector, Vec
<1>3. a \in Seq(Vec) /\ Len(a) = k /\ \A i \in 1 .. k : a[i] = alloc_vector(n)
  BY <1>2
<1> HIDE DEF a
<1>4. /\ vs \o a \in Seq(Vec)
      /\ Len(vs \o a) = Len(vs) + k
      /\ \A i \in 1 .. Len(vs) + k :
           (vs \o a)[i] = IF i <= Len(vs) THEN vs[i] ELSE a[i - Len(vs)]
  BY <1>3, ConcatProperties
<1>5. \A v \in 1 .. Len(vs) : (vs \o a)[v] = vs[v]
  BY <1>1, <1>4
<1>6. \A v \in 1 .. Len(vs) + k :
        v \notin 1 .. Len(vs) => (vs \o a)[v] = [size |-> n, inuse |-> 0]
  BY <1>1, <1>2, <1>3, <1>4
<1> QED BY <1>4, <1>5, <1>6 DEF More, a

LEMMA NewType ==
  ASSUME NEW vs \in Seq(Vec), NEW k \in Nat
  PROVE  /\ New(vs, k) \in Seq(1 .. Len(vs) + k)
         /\ Len(New(vs, k)) = k
         /\ \A i \in 1 .. k : New(vs, k)[i] = Len(vs) + i
<1>1. Len(vs) \in Nat
  BY LenProperties
<1>2. \A i \in 1 .. k : Len(vs) + i \in 1 .. Len(vs) + k
  BY <1>1
<1> QED BY <1>2 DEF New

LEMMA FillPool ==
  ASSUME NEW vs, NEW m, NEW stacks, NEW h, Pool(vs, m, stacks, h),
         NEW n \in Sizes, n \in 0 .. m - 1, stacks[n] = <<>>,
         NEW k \in Nat
  PROVE  Pool(More(vs, n, k), m, [stacks EXCEPT ![n] = New(vs, k)], h)
<1> DEFINE ws == More(vs, n, k)
           F  == [stacks EXCEPT ![n] = New(vs, k)]
<1>1. /\ m \in Nat /\ vs \in Seq(Vec) /\ stacks \in [0 .. m - 1 -> Seq(1 .. Len(vs))]
      /\ \A v \in 1 .. Len(vs) : vs[v].size \in 0 .. m - 1
  BY DEF Pool, Table
<1>2. Len(vs) \in Nat /\ Len(stacks[n]) = 0
  BY <1>1, LenProperties, EmptySeq
<1>3. /\ ws \in Seq(Vec) /\ Len(ws) = Len(vs) + k
      /\ \A v \in 1 .. Len(vs) : ws[v] = vs[v]
      /\ \A v \in 1 .. Len(vs) + k :
           v \notin 1 .. Len(vs) => ws[v] = [size |-> n, inuse |-> 0]
  BY <1>1, MoreType
<1>4. /\ New(vs, k) \in Seq(1 .. Len(vs) + k) /\ Len(New(vs, k)) = k
      /\ \A i \in 1 .. k : New(vs, k)[i] = Len(vs) + i
  BY <1>1, NewType
<1>5. F[n] = New(vs, k) /\ \A p \in 0 .. m - 1 : p # n => F[p] = stacks[p]
  BY <1>1
<1> HIDE DEF ws
<1>6. F \in [0 .. m - 1 -> Seq(1 .. Len(ws))]
  <2>1. 1 .. Len(vs) \subseteq 1 .. Len(ws)
    BY <1>2, <1>3
  <2>2. \A p \in 0 .. m - 1 : stacks[p] \in Seq(1 .. Len(ws))
    BY <1>1, <2>1, SeqMonotonic, ZenonT(30)
  <2> QED BY <1>1, <1>3, <1>4, <2>2
<1>7. Table(ws, m, F)
  <2>1. ASSUME NEW v \in 1 .. Len(ws)
        PROVE  ws[v].size \in 0 .. m - 1
    <3>1. CASE v \in 1 .. Len(vs)
      BY <1>1, <1>3, <3>1
    <3>2. CASE v \notin 1 .. Len(vs)
      <4>1. ws[v] = [size |-> n, inuse |-> 0]
        BY <1>3, <3>2
      <4> QED BY <4>1
    <3> QED BY <3>1, <3>2
  <2> QED BY <1>1, <1>3, <1>6, <2>1 DEF Table
<1>8. Holding(ws, h)
  BY <1>2, <1>3 DEF Pool, Holding
<1> HIDE DEF F
<1>9. OnlyFree(ws, m, F, h)
  <2> SUFFICES ASSUME NEW p \in 0 .. m - 1, NEW i \in 1 .. Len(F[p])
               PROVE  F[p][i] \notin h /\ ws[F[p][i]].inuse = 0 /\ ws[F[p][i]].size = p
    BY DEF OnlyFree
  <2>1. CASE p = n
    <3>1. i \in 1 .. k /\ F[p][i] = Len(vs) + i
      BY <1>4, <1>5, <2>1
    <3>2. Len(vs) + i \in 1 .. Len(vs) + k /\ Len(vs) + i \notin 1 .. Len(vs)
      BY <1>2, <3>1
    <3> QED BY <1>3, <2>1, <3>1, <3>2 DEF Pool, Holding
  <2>2. CASE p # n
    <3>1. F[p] = stacks[p] /\ stacks[p] \in Seq(1 .. Len(vs))
      BY <1>1, <1>5, <2>2
    <3>2. F[p][i] \in 1 .. Len(vs)
      BY <3>1, ElementOfSeq
    <3> QED BY <1>3, <3>1, <3>2 DEF Pool, OnlyFree
  <2> QED BY <2>1, <2>2
<1>10. NoneTwice(m, F)
  <2> SUFFICES ASSUME NEW p \in 0 .. m - 1, NEW i \in 1 .. Len(F[p]),
                      NEW j \in 1 .. Len(F[p]), F[p][i] = F[p][j]
               PROVE  i = j
    BY DEF NoneTwice
  <2>1. CASE p = n
    <3>1. i \in 1 .. k /\ j \in 1 .. k /\ F[p] = New(vs, k)
      BY <1>4, <1>5, <2>1
    <3>2. Len(vs) + i = Len(vs) + j
      BY <1>4, <3>1
    <3> QED BY <1>2, <3>1, <3>2
  <2>2. CASE p # n
    BY <1>5, <2>2 DEF Pool, NoneTwice
  <2> QED BY <2>1, <2>2
<1>11. AllThere(ws, F, h)
  <2> SUFFICES ASSUME NEW v \in (1 .. Len(ws)) \ h
               PROVE  \E i \in 1 .. Len(F[ws[v].size]) : F[ws[v].size][i] = v
    BY DEF AllThere
  <2>1. CASE v \in 1 .. Len(vs)
    <3>1. PICK i \in 1 .. Len(stacks[vs[v].size]) : stacks[vs[v].size][i] = v
      BY <2>1 DEF Pool, AllThere
    <3>2. vs[v].size # n /\ vs[v].size \in 0 .. m - 1
      BY <1>1, <1>2, <2>1, <3>1
    <3> QED BY <1>3, <1>5, <2>1, <3>1, <3>2
  <2>2. CASE v \notin 1 .. Len(vs)
    <3>1. ws[v].size = n
      BY <1>3, <2>2
    <3>2. v - Len(vs) \in 1 .. k /\ v = Len(vs) + (v - Len(vs))
      BY <1>2, <1>3, <2>2
    <3> QED BY <1>4, <1>5, <3>1, <3>2
  <2> QED BY <2>1, <2>2
<1> QED BY <1>7, <1>8, <1>9, <1>10, <1>11 DEF Pool, ws, F

(***************************************************************************)
(* The vector on top of a stack is handed out (aig_vectors.c:70-76).       *)
(***************************************************************************)
TopOf(s)             == s[Len(s)]
Taken(vs, v)         == [vs EXCEPT ![v].inuse = 1]
WithoutTop(stacks, n) ==
  [stacks EXCEPT ![n] = SubSeq(stacks[n], 1, Len(stacks[n]) - 1)]

LEMMA TakeTop ==
  ASSUME NEW vs, NEW m, NEW stacks, NEW h, Pool(vs, m, stacks, h),
         NEW n, n \in 0 .. m - 1, stacks[n] # <<>>
  PROVE  /\ TopOf(stacks[n]) \in 1 .. Len(vs) /\ TopOf(stacks[n]) \notin h
         /\ Pool(Taken(vs, TopOf(stacks[n])), m, WithoutTop(stacks, n),
                 h \cup {TopOf(stacks[n])})
<1> DEFINE top == TopOf(stacks[n])
<1>0. top = stacks[n][Len(stacks[n])]
  BY DEF TopOf
<1> HIDE DEF top
<1> DEFINE ws == [vs EXCEPT ![top].inuse = 1]
           s  == stacks[n]
           r  == SubSeq(s, 1, Len(s) - 1)
           T  == [stacks EXCEPT ![n] = r]
           g  == h \cup {top}
<1>1. /\ m \in Nat /\ vs \in Seq(Vec) /\ stacks \in [0 .. m - 1 -> Seq(1 .. Len(vs))]
      /\ \A v \in 1 .. Len(vs) : vs[v].size \in 0 .. m - 1
  BY DEF Pool, Table
<1>2. s \in Seq(1 .. Len(vs)) /\ Len(s) \in Nat \ {0}
  BY <1>1, EmptySeq
<1>3. top \in 1 .. Len(vs) /\ top \notin h /\ vs[top].size = n
  <2>1. Len(s) \in 1 .. Len(s)
    BY <1>2
  <2>2. s[Len(s)] \in 1 .. Len(vs)
    BY <1>2, <2>1, ElementOfSeq
  <2> QED BY <1>0, <2>1, <2>2 DEF Pool, OnlyFree
<1>4. /\ ws \in Seq(Vec) /\ Len(ws) = Len(vs)
      /\ \A v \in 1 .. Len(vs) : ws[v].size = vs[v].size
      /\ ws[top].inuse = 1
      /\ \A v \in 1 .. Len(vs) : v # top => ws[v] = vs[v]
  <2> DEFINE e == [vs[top] EXCEPT !.inuse = 1]
  <2>1. vs[top] \in Vec
    BY <1>1, <1>3, ElementOfSeq
  <2>2. e \in Vec /\ e.size = vs[top].size /\ e.inuse = 1
    BY <2>1 DEF Vec
  <2>3. ws = [vs EXCEPT ![top] = e]
    OBVIOUS
  <2> HIDE DEF e, ws
  <2>4. /\ ws \in Seq(Vec) /\ Len(ws) = Len(vs)
        /\ \A v \in 1 .. Len(vs) : ws[v] = IF v = top THEN e ELSE vs[v]
    BY <1>1, <1>3, <2>2, <2>3, ExceptSeq
  <2> QED BY <1>3, <2>2, <2>4
<1>5. /\ r \in Seq(1 .. Len(vs)) /\ Len(r) = Len(s) - 1
      /\ \A i \in 1 .. Len(s) - 1 : r[i] = s[i]
  <2>1. \A i \in 1 .. Len(s) - 1 : s[i] \in 1 .. Len(vs)
    <3>1. \A i \in 1 .. Len(s) : s[i] \in 1 .. Len(vs)
      BY <1>2, ElementOfSeq
    <3> QED BY <1>2, <3>1
  <2>2. Len(s) - 1 \in Int
    BY <1>2
  <2>3. /\ r \in Seq(1 .. Len(vs))
        /\ Len(r) = IF 1 <= Len(s) - 1 THEN (Len(s) - 1) - 1 + 1 ELSE 0
        /\ \A i \in 1 .. (Len(s) - 1) - 1 + 1 : r[i] = s[1 + i - 1]
    BY <2>1, <2>2, SubSeqProperties
  <2> QED BY <1>2, <2>3
<1> HIDE DEF ws, r
<1>6. /\ T \in [0 .. m - 1 -> Seq(1 .. Len(ws))]
      /\ T[n] = r /\ \A p \in 0 .. m - 1 : p # n => T[p] = stacks[p]
  BY <1>1, <1>4, <1>5
<1> HIDE DEF T
<1>7. Table(ws, m, T)
  BY <1>1, <1>4, <1>6 DEF Table
<1>8. Holding(ws, g)
  BY <1>3, <1>4 DEF Pool, Holding
\* Every element left on a stack was there before, at the same place, and the
\* top element was at another.
<1>9. ASSUME NEW p \in 0 .. m - 1, NEW i \in 1 .. Len(T[p])
      PROVE  /\ i \in 1 .. Len(stacks[p])
             /\ T[p][i] = stacks[p][i]
             /\ stacks[p][i] \in 1 .. Len(vs)
             /\ stacks[p][i] # top
  <2>1. CASE p = n
    <3>1. i \in 1 .. Len(s) - 1 /\ i \in 1 .. Len(s) /\ i # Len(s)
      BY <1>2, <1>5, <1>6, <2>1
    <3>2. Len(s) \in 1 .. Len(s)
      BY <1>2
    <3>3. s[i] # top
      BY <1>0, <3>1, <3>2 DEF Pool, NoneTwice
    <3>4. s[i] \in 1 .. Len(vs)
      BY <1>2, <3>1, ElementOfSeq
    <3> QED BY <1>5, <1>6, <2>1, <3>1, <3>3, <3>4
  <2>2. CASE p # n
    <3>1. T[p] = stacks[p] /\ i \in 1 .. Len(stacks[p])
      BY <1>6, <2>2
    <3>2. stacks[p][i] \in 1 .. Len(vs)
      BY <1>1, <3>1, ElementOfSeq
    <3> QED BY <1>3, <2>2, <3>1, <3>2 DEF Pool, OnlyFree
  <2> QED BY <2>1, <2>2
<1>10. OnlyFree(ws, m, T, g)
  <2> SUFFICES ASSUME NEW p \in 0 .. m - 1, NEW i \in 1 .. Len(T[p])
               PROVE  T[p][i] \notin g /\ ws[T[p][i]].inuse = 0 /\ ws[T[p][i]].size = p
    BY DEF OnlyFree
  <2> DEFINE v == stacks[p][i]
  <2>1. v \notin h /\ vs[v].inuse = 0 /\ vs[v].size = p
    BY <1>9 DEF Pool, OnlyFree
  <2>2. ws[v] = vs[v] /\ T[p][i] = v /\ v # top
    BY <1>4, <1>9
  <2> QED BY <2>1, <2>2
<1>11. NoneTwice(m, T)
  BY <1>9 DEF Pool, NoneTwice
<1>12. AllThere(ws, T, g)
  <2> SUFFICES ASSUME NEW v \in (1 .. Len(ws)) \ g
               PROVE  \E i \in 1 .. Len(T[ws[v].size]) : T[ws[v].size][i] = v
    BY DEF AllThere
  <2>1. v \in (1 .. Len(vs)) \ h /\ v # top /\ ws[v].size = vs[v].size
    BY <1>4
  <2>2. PICK i \in 1 .. Len(stacks[vs[v].size]) : stacks[vs[v].size][i] = v
    BY <2>1 DEF Pool, AllThere
  <2>3. CASE vs[v].size = n
    <3>1. i # Len(s) /\ s[i] = v /\ i \in 1 .. Len(s)
      BY <1>0, <2>1, <2>2, <2>3
    <3>2. i \in 1 .. Len(s) - 1
      BY <1>2, <3>1
    <3> QED BY <1>5, <1>6, <2>1, <2>3, <3>1, <3>2
  <2>4. CASE vs[v].size # n
    BY <1>1, <1>6, <2>1, <2>2, <2>4
  <2> QED BY <2>3, <2>4
<1> QED BY <1>3, <1>7, <1>8, <1>10, <1>11, <1>12 DEF Pool, ws, r, T, top, Taken, WithoutTop

(***************************************************************************)
(* A vector is released to the stack of its size (aig_vectors.c:110-119).  *)
(***************************************************************************)
LEMMA BelowTop ==
  ASSUME NEW l \in Nat, NEW i \in 1 .. l + 1, i # l + 1
  PROVE  i \in 1 .. l
OBVIOUS

LEMMA GiveBack ==
  ASSUME NEW vs, NEW m, NEW stacks, NEW h, Pool(vs, m, stacks, h),
         NEW v \in h
  PROVE  Pool([vs EXCEPT ![v].inuse = 0], m,
              [stacks EXCEPT ![vs[v].size] = Append(@, v)], h \ {v})
<1> DEFINE ws == [vs EXCEPT ![v].inuse = 0]
           n  == vs[v].size
           s  == stacks[n]
           r  == Append(s, v)
           T  == [stacks EXCEPT ![n] = r]
           g  == h \ {v}
<1>1. /\ m \in Nat /\ vs \in Seq(Vec) /\ stacks \in [0 .. m - 1 -> Seq(1 .. Len(vs))]
      /\ \A w \in 1 .. Len(vs) : vs[w].size \in 0 .. m - 1
      /\ v \in 1 .. Len(vs)
  BY DEF Pool, Table, Holding
<1>2. n \in 0 .. m - 1 /\ s \in Seq(1 .. Len(vs)) /\ Len(s) \in Nat
  BY <1>1, LenProperties
<1>3. /\ ws \in Seq(Vec) /\ Len(ws) = Len(vs)
      /\ \A w \in 1 .. Len(vs) : ws[w].size = vs[w].size
      /\ ws[v].inuse = 0
      /\ \A w \in 1 .. Len(vs) : w # v => ws[w] = vs[w]
  <2> DEFINE e == [vs[v] EXCEPT !.inuse = 0]
  <2>1. vs[v] \in Vec
    BY <1>1, ElementOfSeq
  <2>2. e \in Vec /\ e.size = vs[v].size /\ e.inuse = 0
    BY <2>1 DEF Vec
  <2>3. ws = [vs EXCEPT ![v] = e]
    OBVIOUS
  <2> HIDE DEF e, ws
  <2>4. /\ ws \in Seq(Vec) /\ Len(ws) = Len(vs)
        /\ \A w \in 1 .. Len(vs) : ws[w] = IF w = v THEN e ELSE vs[w]
    BY <1>1, <2>2, <2>3, ExceptSeq
  <2> QED BY <1>1, <2>2, <2>4
<1>4. /\ r \in Seq(1 .. Len(vs)) /\ Len(r) = Len(s) + 1
      /\ \A i \in 1 .. Len(s) : r[i] = s[i]
      /\ r[Len(s) + 1] = v
  BY <1>1, <1>2, AppendProperties
<1> HIDE DEF ws, r
<1>5. /\ T \in [0 .. m - 1 -> Seq(1 .. Len(ws))]
      /\ T[n] = r /\ \A p \in 0 .. m - 1 : p # n => T[p] = stacks[p]
  BY <1>1, <1>2, <1>3, <1>4
<1>6. T = [stacks EXCEPT ![vs[v].size] = Append(@, v)]
  BY DEF r
<1> HIDE DEF T
<1>7. Table(ws, m, T)
  BY <1>1, <1>3, <1>5 DEF Table
<1>8. Holding(ws, g)
  <2>1. g \subseteq 1 .. Len(ws) /\ \A w \in g : w \in h /\ w # v
    BY <1>3 DEF Pool, Holding
  <2> QED BY <1>3, <2>1 DEF Pool, Holding
\* An element of a stack is v on top of its own, or was there before.
<1>9. ASSUME NEW p \in 0 .. m - 1, NEW i \in 1 .. Len(T[p])
      PROVE  \/ p = n /\ i = Len(s) + 1 /\ T[p][i] = v
             \/ /\ i \in 1 .. Len(stacks[p])
                /\ T[p][i] = stacks[p][i]
                /\ stacks[p][i] \in 1 .. Len(vs)
                /\ stacks[p][i] # v
  <2>1. CASE p = n /\ i = Len(s) + 1
    BY <1>4, <1>5, <2>1
  <2>2. CASE ~(p = n /\ i = Len(s) + 1)
    <3>1. i \in 1 .. Len(stacks[p]) /\ T[p][i] = stacks[p][i]
      <4>1. CASE p = n
        <5>1. i \in 1 .. Len(s) + 1 /\ i # Len(s) + 1
          BY <1>4, <1>5, <2>2, <4>1
        <5>2. i \in 1 .. Len(s)
          BY <1>2, <5>1, BelowTop
        <5>3. T[p][i] = r[i] /\ r[i] = s[i]
          BY <1>4, <1>5, <4>1, <5>2
        <5> QED BY <4>1, <5>2, <5>3
      <4>2. CASE p # n
        BY <1>5, <4>2
      <4> QED BY <4>1, <4>2
    <3>2. stacks[p][i] \in 1 .. Len(vs)
      BY <1>1, <3>1, ElementOfSeq
    <3>3. stacks[p][i] \notin h
      BY <3>1 DEF Pool, OnlyFree
    <3> QED BY <3>1, <3>2, <3>3
  <2> QED BY <2>1, <2>2
<1>10. OnlyFree(ws, m, T, g)
  <2> SUFFICES ASSUME NEW p \in 0 .. m - 1, NEW i \in 1 .. Len(T[p])
               PROVE  T[p][i] \notin g /\ ws[T[p][i]].inuse = 0 /\ ws[T[p][i]].size = p
    BY DEF OnlyFree
  <2>1. CASE p = n /\ T[p][i] = v
    BY <1>1, <1>3, <2>1
  <2>2. CASE /\ i \in 1 .. Len(stacks[p])
             /\ T[p][i] = stacks[p][i]
             /\ stacks[p][i] \in 1 .. Len(vs)
             /\ stacks[p][i] # v
    <3> DEFINE w == stacks[p][i]
    <3>1. w \notin h /\ vs[w].inuse = 0 /\ vs[w].size = p
      BY <2>2 DEF Pool, OnlyFree
    <3>2. ws[w] = vs[w]
      BY <1>3, <2>2
    <3> QED BY <2>2, <3>1, <3>2
  <2> QED BY <1>9, <2>1, <2>2
<1>11. NoneTwice(m, T)
  <2> SUFFICES ASSUME NEW p \in 0 .. m - 1, NEW i \in 1 .. Len(T[p]),
                      NEW j \in 1 .. Len(T[p]), T[p][i] = T[p][j]
               PROVE  i = j
    BY DEF NoneTwice
  <2>1. CASE T[p][i] = v
    BY <1>9, <2>1
  <2>2. CASE T[p][i] # v
    <3>1. /\ i \in 1 .. Len(stacks[p]) /\ j \in 1 .. Len(stacks[p])
          /\ stacks[p][i] = stacks[p][j]
      BY <1>9, <2>2
    <3> QED BY <3>1 DEF Pool, NoneTwice
  <2> QED BY <2>1, <2>2
<1>12. AllThere(ws, T, g)
  <2> SUFFICES ASSUME NEW w \in (1 .. Len(ws)) \ g
               PROVE  \E i \in 1 .. Len(T[ws[w].size]) : T[ws[w].size][i] = w
    BY DEF AllThere
  <2>1. CASE w = v
    <3>1. ws[w].size = n
      BY <1>1, <1>3, <2>1
    <3>2. Len(s) + 1 \in 1 .. Len(r)
      BY <1>2, <1>4
    <3> QED BY <1>4, <1>5, <2>1, <3>1, <3>2
  <2>2. CASE w # v
    <3>1. w \in (1 .. Len(vs)) \ h /\ ws[w].size = vs[w].size
      BY <1>3, <2>2
    <3>2. PICK i \in 1 .. Len(stacks[vs[w].size]) : stacks[vs[w].size][i] = w
      BY <3>1 DEF Pool, AllThere
    <3>3. CASE vs[w].size = n
      <4>1. i \in 1 .. Len(s) /\ s[i] = w
        BY <3>2, <3>3
      <4>2. i \in 1 .. Len(s) + 1
        BY <1>2, <4>1
      <4>3. i \in 1 .. Len(r) /\ r[i] = w
        BY <1>4, <4>1, <4>2
      <4> QED BY <1>5, <3>1, <3>3, <4>3
    <3>4. CASE vs[w].size # n
      BY <1>1, <1>5, <3>1, <3>2, <3>4
    <3> QED BY <3>3, <3>4
  <2> QED BY <2>1, <2>2
<1> QED BY <1>6, <1>7, <1>8, <1>10, <1>11, <1>12 DEF Pool, ws
-----------------------------------------------------------------------------
(***************************************************************************)
(* The invariant of the pool.                                              *)
(***************************************************************************)
Fields ==
  /\ vectors \in Seq(Vec)
  /\ vectorStack_size \in Nat
  /\ vecs_allocated \in Nat
  /\ vecs_in_stack \in Int
  /\ held \subseteq 1 .. Len(vectors)
  /\ freed \in BOOLEAN
  /\ warning \in Int

Counted ==
  /\ IsFiniteSet(held)
  /\ vecs_allocated - vecs_in_stack = Cardinality(held)
  /\ freed => warning = Cardinality(held)

Stocked == ~freed => Pool(vectors, vectorStack_size, vectorStack, held)

PoolInv == Fields /\ Stocked /\ Counted

LEMMA PoolInit == Init => PoolInv
<1> SUFFICES ASSUME Init
             PROVE  PoolInv
  OBVIOUS
<1>1. Len(<<>>) = 0 /\ <<>> \in Seq(Vec) /\ <<>> \in Seq(1 .. 0) /\ 1 .. 0 = {}
  BY EmptySeq
<1>2. Fields
  <2>1. vectors \in Seq(Vec) /\ held \subseteq 1 .. Len(vectors)
    BY <1>1 DEF Init
  <2>2. freed \in BOOLEAN
    BY DEF Init
  <2>3. /\ vectorStack_size \in Nat /\ vecs_allocated \in Nat
        /\ vecs_in_stack \in Int /\ warning \in Int
    BY VectorPoolAssumption DEF Init
  <2> QED BY <2>1, <2>2, <2>3 DEF Fields
<1>3. Pool(vectors, vectorStack_size, vectorStack, held)
  <2>1. Table(vectors, vectorStack_size, vectorStack)
    BY <1>1, VectorPoolAssumption DEF Init, Table
  <2>2. \A n \in 0 .. vectorStack_size - 1 : vectorStack[n] = <<>>
    BY DEF Init
  <2>3. \A n \in 0 .. vectorStack_size - 1 : 1 .. Len(vectorStack[n]) = {}
    BY <1>1, <2>2
  <2>4. held = {} /\ (1 .. Len(vectors)) = {}
    BY <1>1 DEF Init
  <2> QED BY <2>1, <2>3, <2>4 DEF Pool, Holding, OnlyFree, NoneTwice, AllThere
<1>4. Counted
  BY FS_EmptySet DEF Init, Counted
<1> QED BY <1>2, <1>3, <1>4 DEF PoolInv, Stocked

\* vec_get, and vec_dup of a vector that is in use (aig_vectors.c:56-76).
LEMMA TakeKeeps ==
  ASSUME PoolInv, NEW n \in Sizes, Take(n, 1)
  PROVE  PoolInv'
<1> DEFINE M   == Stacks(n)
           R   == Resized(n)
           k   == IF R[n] = <<>> THEN NUM_VECS_TO_CREATE ELSE 0
           s   == R[n] \o New(vectors, k)
           top == TopOf(s)
           all == More(vectors, n, k)
           S   == [R EXCEPT ![n] = s]
<1> USE VectorPoolAssumption
<1>1. /\ ~freed /\ Pool(vectors, vectorStack_size, vectorStack, held)
      /\ vectors \in Seq(Vec) /\ vectorStack_size \in Nat
  BY DEF PoolInv, Stocked, Fields, Take
<1>2. M \in Nat /\ M >= vectorStack_size /\ n \in 0 .. M - 1 /\ n \in Nat
  BY <1>1 DEF Stacks
<1>3. R = Longer(vectorStack_size, M, vectorStack)
  BY DEF Resized, Longer
<1>4. Pool(vectors, M, R, held)
  BY <1>1, <1>2, <1>3, ResizePool
<1>5. R \in [0 .. M - 1 -> Seq(1 .. Len(vectors))] /\ R[n] \in Seq(1 .. Len(vectors))
  BY <1>2, <1>4 DEF Pool, Table
<1>6. k \in Nat
  OBVIOUS
<1>7. /\ vectorStack_size' = M
      /\ vectorStack' = [R EXCEPT ![n] = SubSeq(s, 1, Len(s) - 1)]
      /\ vectors' = [all EXCEPT ![top].inuse = 1]
      /\ vecs_allocated' = vecs_allocated + k
      /\ vecs_in_stack' = vecs_in_stack + k - 1
      /\ held' = held \cup {top}
      /\ freed' = freed /\ warning' = warning
  BY DEF Take, New, More, TopOf
<1> HIDE DEF R, M
<1>8. Pool(all, M, S, held) /\ S[n] = s /\ s # <<>>
  <2>1. CASE R[n] = <<>>
    <3>1. New(vectors, k) \in Seq(1 .. Len(vectors) + k) /\ Len(New(vectors, k)) = k
      BY <1>1, <1>6, NewType
    <3>2. s = New(vectors, k)
      BY <2>1, <3>1, ConcatEmptySeq
    <3>3. k # 0
      BY <2>1
    <3>4. s # <<>>
      BY <3>1, <3>2, <3>3, EmptySeq
    <3>5. Pool(all, M, S, held)
      BY <1>2, <1>4, <1>6, <2>1, <3>2, FillPool
    <3> QED BY <1>2, <1>5, <3>4, <3>5
  <2>2. CASE R[n] # <<>>
    <3>1. k = 0
      BY <2>2
    <3>2. 1 .. 0 = {}
      OBVIOUS
    <3>3. New(vectors, k) = <<>> /\ [i \in 1 .. k |-> alloc_vector(n)] = <<>>
      BY <3>1, <3>2 DEF New
    <3>4. s = R[n] /\ all = vectors
      BY <1>1, <1>5, <3>3, ConcatEmptySeq DEF More
    <3>5. S = R
      BY <1>2, <1>5, <3>4
    <3> QED BY <1>4, <2>2, <3>4, <3>5
  <2> QED BY <2>1, <2>2
<1>9. [S EXCEPT ![n] = SubSeq(s, 1, Len(s) - 1)] = [R EXCEPT ![n] = SubSeq(s, 1, Len(s) - 1)]
  BY <1>2, <1>5
<1> HIDE DEF s, all, S, k
<1>10. /\ top \in 1 .. Len(all) /\ top \notin held
       /\ Pool(vectors', M, vectorStack', held')
  <2>1. top = TopOf(S[n])
    BY <1>8
  <2> HIDE DEF top
  <2>1a. Pool(all, M, S, held)
    BY <1>8
  <2>1b. n \in 0 .. M - 1 /\ S[n] # <<>>
    BY <1>2, <1>8
  <2>2. /\ top \in 1 .. Len(all) /\ top \notin held
        /\ Pool(Taken(all, top), M, WithoutTop(S, n), held \cup {top})
    BY <2>1, <2>1a, <2>1b, TakeTop
  <2> QED BY <1>7, <1>8, <1>9, <2>2 DEF Taken, WithoutTop
<1>11. Fields'
  <2>1. vectors' \in Seq(Vec) /\ held' \subseteq 1 .. Len(vectors')
    BY <1>10 DEF Pool, Table, Holding
  <2>2. vecs_allocated' \in Nat /\ vecs_in_stack' \in Int
    BY <1>6, <1>7 DEF PoolInv, Fields
  <2> QED BY <1>2, <1>7, <2>1, <2>2 DEF PoolInv, Fields
<1>12. Counted'
  <2>1. /\ IsFiniteSet(held')
        /\ Cardinality(held') = Cardinality(held) + 1
    BY <1>7, <1>10, FS_AddElement DEF PoolInv, Counted
  <2>2. vecs_allocated \in Nat /\ vecs_in_stack \in Int /\ Cardinality(held) \in Nat
    BY FS_CardinalityType DEF PoolInv, Fields, Counted
  <2>3. vecs_allocated' - vecs_in_stack' = (vecs_allocated - vecs_in_stack) + 1
    BY <1>6, <1>7, <2>2
  <2> QED BY <1>1, <1>7, <2>1, <2>2, <2>3 DEF PoolInv, Counted
<1> QED BY <1>7, <1>10, <1>11, <1>12 DEF PoolInv, Stocked

LEMMA ReleaseKeeps ==
  ASSUME PoolInv, NEW v \in held, vec_release(v)
  PROVE  PoolInv'
<1>1. ~freed /\ Pool(vectors, vectorStack_size, vectorStack, held)
  BY DEF PoolInv, Stocked, vec_release
<1>2. Pool(vectors', vectorStack_size', vectorStack', held')
  BY <1>1, GiveBack DEF vec_release
<1>3. Fields'
  <2>1. vectors' \in Seq(Vec) /\ held' \subseteq 1 .. Len(vectors')
    BY <1>2 DEF Pool, Table, Holding
  <2> QED BY <2>1 DEF PoolInv, Fields, vec_release
<1>4. Counted'
  <2>1. IsFiniteSet(held') /\ Cardinality(held') = Cardinality(held) - 1
    BY FS_RemoveElement DEF PoolInv, Counted, vec_release
  <2>2. vecs_allocated \in Nat /\ vecs_in_stack \in Int /\ Cardinality(held) \in Nat
    BY FS_CardinalityType DEF PoolInv, Fields, Counted
  <2> QED BY <1>1, <2>1, <2>2 DEF PoolInv, Counted, vec_release
<1> QED BY <1>2, <1>3, <1>4 DEF PoolInv, Stocked

LEMMA PoolStep == PoolInv /\ [Next]_vars => PoolInv'
<1> SUFFICES ASSUME PoolInv, [Next]_vars
             PROVE  PoolInv'
  OBVIOUS
<1>1. ASSUME NEW n \in Sizes, vec_get(n)
      PROVE  PoolInv'
  BY <1>1, TakeKeeps DEF vec_get
<1>2. ASSUME NEW v \in held, vec_dup(v)
      PROVE  PoolInv'
  <2>1. ~freed /\ Pool(vectors, vectorStack_size, vectorStack, held)
    BY <1>2 DEF PoolInv, Stocked, vec_dup, Take
  <2>2. vectors[v].inuse = 1 /\ vectors[v].size \in Sizes
    BY <2>1, VectorType DEF Pool, Table, Holding
  <2> QED BY <1>2, <2>2, TakeKeeps DEF vec_dup
<1>3. ASSUME NEW v \in held, vec_release(v)
      PROVE  PoolInv'
  BY <1>3, ReleaseKeeps
<1>4. CASE FreeVectors
  <2>1. Fields'
    BY <1>4 DEF FreeVectors, PoolInv, Fields
  <2>2. Counted'
    BY <1>4 DEF FreeVectors, PoolInv, Counted
  <2> QED BY <1>4, <2>1, <2>2 DEF FreeVectors, PoolInv, Stocked
<1>5. CASE UNCHANGED vars
  BY <1>5 DEF vars, PoolInv, Fields, Stocked, Counted
<1> QED BY <1>1, <1>2, <1>3, <1>4, <1>5 DEF Next

LEMMA PoolInvariant == Spec => []PoolInv
BY PoolInit, PoolStep, PTL DEF Spec
-----------------------------------------------------------------------------
\* The table has a stack of vectors for every size below its own, whatever it
\* was grown for.
THEOREM PoolTypeCorrect == Spec => []TypeOK
<1>1. PoolInv => TypeOK
  BY DEF PoolInv, Fields, Stocked, Pool, Table, TypeOK, Vec
<1> QED BY <1>1, PoolInvariant, PTL

\* No vector is given out twice, on two stacks, or on one of another size: the
\* assertions of vec_get and vec_release (aig_vectors.c:71, 111) hold.
THEOREM EachVectorIsOnce == Spec => []EachVectorOnce
<1>1. PoolInv => EachVectorOnce
  <2> SUFFICES ASSUME PoolInv, ~freed, NEW v \in 1 .. Len(vectors)
               PROVE  IF v \in held
                        THEN vectors[v].inuse = 1 /\ Slots(v) = {}
                        ELSE /\ vectors[v].inuse = 0
                             /\ \E p \in Slots(v) : Slots(v) = {p} /\ p[1] = vectors[v].size
    BY DEF EachVectorOnce
  <2>1. /\ Pool(vectors, vectorStack_size, vectorStack, held)
        /\ DOMAIN vectorStack = 0 .. vectorStack_size - 1
        /\ \A w \in 1 .. Len(vectors) : vectors[w].size \in 0 .. vectorStack_size - 1
    BY DEF PoolInv, Stocked, Pool, Table
  <2>2. \A p \in Slots(v) :
          /\ p = <<p[1], p[2]>>
          /\ p[1] \in 0 .. vectorStack_size - 1
          /\ p[2] \in 1 .. Len(vectorStack[p[1]])
          /\ vectorStack[p[1]][p[2]] = v
    BY <2>1 DEF Slots
  <2>3. \A n \in 0 .. vectorStack_size - 1 : \A i \in 1 .. Len(vectorStack[n]) :
          vectorStack[n][i] = v => <<n, i>> \in Slots(v)
    BY <2>1 DEF Slots
  <2>4. CASE v \in held
    <3>1. Slots(v) = {}
      BY <2>1, <2>2, <2>4 DEF Pool, OnlyFree
    <3> QED BY <2>1, <2>4, <3>1 DEF Pool, Holding
  <2>5. CASE v \notin held
    <3> DEFINE n == vectors[v].size
    <3>1. n \in 0 .. vectorStack_size - 1
      BY <2>1
    <3>2. PICK i \in 1 .. Len(vectorStack[n]) : vectorStack[n][i] = v
      BY <2>1, <2>5 DEF Pool, AllThere
    <3>3. vectors[v].inuse = 0 /\ <<n, i>> \in Slots(v)
      BY <2>1, <2>3, <3>1, <3>2 DEF Pool, OnlyFree
    <3>4. ASSUME NEW p \in Slots(v)
          PROVE  p = <<n, i>>
      <4>1. p[1] = n
        BY <2>1, <2>2 DEF Pool, OnlyFree
      <4>2. p[2] = i
        BY <2>1, <2>2, <3>1, <3>2, <4>1 DEF Pool, NoneTwice
      <4> QED BY <2>2, <4>1, <4>2
    <3>5. Slots(v) = {<<n, i>>}
      BY <3>3, <3>4
    <3> QED BY <2>5, <3>3, <3>5
  <2> QED BY <2>4, <2>5
<1> QED BY <1>1, PoolInvariant, PTL

\* The warning of machine_state_free (pcode_definitions.c:97-99) is given just
\* when vectors are still held, with their number.
THEOREM LeakReportIsAlwaysExact == Spec => []LeakReportIsExact
<1>1. PoolInv => LeakReportIsExact
  BY DEF PoolInv, Counted, LeakReportIsExact
<1> QED BY <1>1, PoolInvariant, PTL
=============================================================================
