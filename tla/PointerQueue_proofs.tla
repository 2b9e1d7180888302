------------------------- MODULE PointerQueue_proofs -------------------------
(***************************************************************************)
(* Proofs about PointerQueue, for any growth step, any bound on the cells  *)
(* and any values.  The walk along the ring is a recursive function; that  *)
(* every subset of the naturals has a least element stands for induction   *)
(* on its steps.                                                           *)
(***************************************************************************)
EXTENDS PointerQueue, FiniteSetTheorems, SequenceTheorems, WellFoundedInduction, TLAPS

LEMMA LeastElement ==
  ASSUME NEW S, S \subseteq Nat, S # {}
  PROVE  \E m \in S : \A k \in S : m <= k
<1> DEFINE Less == {pair \in Nat \X Nat : pair[1] < pair[2]}
<1>1. IsWellFoundedOn(Less, Nat)
  BY NatLessThanWellFounded DEF OpToRel
<1>2. \E m \in S : \A k \in S : <<k, m>> \notin Less
  <2> HIDE DEF Less
  <2> QED BY <1>1, WFMin, Zenon
<1>3. PICK m \in S : \A k \in S : <<k, m>> \notin Less
  BY <1>2
<1>4. \A k \in S : ~ (k < m)
  <2> TAKE k \in S
  <2>1. <<k, m>> \in Nat \X Nat
    OBVIOUS
  <2> QED BY <1>3, <2>1
<1> QED BY <1>4

\* w follows nx from a cell for n steps.
Follows(w, nx, n, from) ==
  w = [k \in 0 .. n |-> IF k = 0 THEN from ELSE nx[w[k - 1]]]

LEMMA FollowsOnce ==
  ASSUME NEW n \in Nat, NEW nx, NEW from, NEW v, NEW w,
         Follows(v, nx, n, from), Follows(w, nx, n, from)
  PROVE  v = w
<1> DEFINE Differ == {k \in 0 .. n : v[k] # w[k]}
<1>1. SUFFICES Differ = {}
  BY DEF Follows
<1>2. SUFFICES ASSUME Differ # {} PROVE FALSE
  OBVIOUS
<1>3. PICK k \in Differ : \A j \in Differ : k <= j
  <2>1. Differ \subseteq Nat
    OBVIOUS
  <2> HIDE DEF Differ
  <2> QED BY <1>2, <2>1, LeastElement, Zenon
<1>4. v[0] = from /\ w[0] = from
  BY DEF Follows
<1>5. k \in 1 .. n
  BY <1>4
<1>6. v[k] = nx[v[k - 1]] /\ w[k] = nx[w[k - 1]]
  BY <1>5 DEF Follows
<1>7. k - 1 \in 0 .. n /\ k - 1 \notin Differ
  BY <1>3, <1>5
<1> QED BY <1>6, <1>7

\* The walk of n steps, as the module writes it.
WalkOn(nx, n, from) ==
  LET cell[k \in 0 .. n] == IF k = 0 THEN from ELSE nx[cell[k - 1]]
  IN  cell

LEMMA WalkOnIs ==
  ASSUME NEW n \in Nat, NEW nx, NEW from, NEW w, Follows(w, nx, n, from)
  PROVE  WalkOn(nx, n, from) = w
<1> DEFINE cell == WalkOn(nx, n, from)
<1>1. cell = CHOOSE c : Follows(c, nx, n, from)
  BY DEF WalkOn, Follows
<1>2. Follows(cell, nx, n, from)
  BY <1>1
<1> QED BY <1>2, FollowsOnce
-----------------------------------------------------------------------------
(***************************************************************************)
(* The ring, as a walk w around it: n cells, each entered once, and back.  *)
(***************************************************************************)
Ring(w, nx, n, from) ==
  /\ w \in [0 .. n -> 0 .. n - 1]
  /\ w[0] = from /\ w[n] = from
  /\ \A k \in 0 .. n - 1 : w[k + 1] = nx[w[k]]
  /\ \A i, j \in 0 .. n - 1 : w[i] = w[j] => i = j
  /\ \A c \in 0 .. n - 1 : \E k \in 0 .. n - 1 : w[k] = c

\* The cells are numbered from 0 and the walk from head is a ring.
RingInv ==
  LET n == Cardinality(Cells)
  IN  /\ n \in Nat \ {0}
      /\ Cells = 0 .. n - 1
      /\ next \in [0 .. n - 1 -> 0 .. n - 1]
      /\ x \in [0 .. n - 1 -> Value \cup {Nil}]
      /\ head \in 0 .. n - 1
      /\ tail \in 0 .. n - 1
      /\ Ring(Walk(head), next, n, head)

LEMMA RingIsWalk ==
  ASSUME NEW n \in Nat \ {0}, NEW nx, NEW from, NEW w, Ring(w, nx, n, from)
  PROVE  WalkOn(nx, n, from) = w
<1>1. Follows(w, nx, n, from)
  <2> DEFINE f == [k \in 0 .. n |-> IF k = 0 THEN from ELSE nx[w[k - 1]]]
  <2>1. ASSUME NEW k \in 0 .. n PROVE w[k] = f[k]
    <3>1. CASE k = 0
      BY <3>1 DEF Ring
    <3>2. CASE k # 0
      <4>1. k - 1 \in 0 .. n - 1 /\ (k - 1) + 1 = k
        BY <3>2
      <4> QED BY <3>2, <4>1 DEF Ring
    <3> QED BY <3>1, <3>2
  <2>2. w = [k \in 0 .. n |-> w[k]]
    BY DEF Ring
  <2> QED BY <2>1, <2>2 DEF Follows
<1> QED BY <1>1, WalkOnIs

LEMMA WalkFromHead == Walk(head) = WalkOn(next, Cardinality(Cells), head)
BY DEF Walk, WalkOn

\* The walks after a dequeue and after the ring has grown to m cells.
TurnedWalk(w, n)         == [k \in 0 .. n |-> IF k = n THEN w[1] ELSE w[k + 1]]
GrownWalk(w, n, m, from) == [k \in 0 .. m |-> IF k < n THEN w[k] ELSE IF k = m THEN from ELSE k]

\* A dequeue moves the start of the ring on by one cell.
LEMMA RingTurns ==
  ASSUME NEW n \in Nat \ {0}, NEW nx, NEW from, NEW w, Ring(w, nx, n, from)
  PROVE  Ring(TurnedWalk(w, n), nx, n, nx[from])
<1> DEFINE u == [k \in 0 .. n |-> IF k = n THEN w[1] ELSE w[k + 1]]
<1>1. 0 \in 0 .. n - 1 /\ 1 \in 0 .. n /\ w[1] = nx[from]
  <2>1. 0 \in 0 .. n - 1 /\ 0 + 1 = 1 /\ 1 \in 0 .. n
    OBVIOUS
  <2>2. w[0 + 1] = nx[w[0]] /\ w[0] = from
    BY <2>1 DEF Ring
  <2> QED BY <2>1, <2>2
<1>2. u \in [0 .. n -> 0 .. n - 1]
  <2>1. ASSUME NEW k \in 0 .. n PROVE u[k] \in 0 .. n - 1
    <3>1. CASE k = n
      BY <1>1, <3>1 DEF Ring
    <3>2. CASE k # n
      <4>1. k + 1 \in 0 .. n
        BY <3>2
      <4> QED BY <3>2, <4>1 DEF Ring
    <3> QED BY <3>1, <3>2
  <2> QED BY <2>1
<1>3. u[0] = nx[from] /\ u[n] = nx[from]
  BY <1>1
<1>4. ASSUME NEW k \in 0 .. n - 1 PROVE u[k] = w[k + 1] /\ u[k + 1] = nx[u[k]]
  <2>1. k \in 0 .. n /\ k # n /\ k + 1 \in 0 .. n
    OBVIOUS
  <2>2. u[k] = w[k + 1]
    BY <2>1
  <2>3. CASE k + 1 = n
    <3>1. w[n] = from
      BY DEF Ring
    <3> QED BY <1>1, <2>1, <2>2, <2>3, <3>1
  <2>4. CASE k + 1 # n
    <3>1. k + 1 \in 0 .. n - 1
      BY <2>4
    <3>2. w[(k + 1) + 1] = nx[w[k + 1]]
      BY <3>1 DEF Ring
    <3> QED BY <2>1, <2>2, <2>4, <3>2
  <2> QED BY <2>3, <2>4, <2>2
<1>5. \A i \in 1 .. n - 1 : i \in 0 .. n - 1 /\ w[i] # w[n]
  <2>1. w[n] = w[0] /\ 0 \in 0 .. n - 1
    BY DEF Ring
  <2>2. \A i \in 1 .. n - 1 : i \in 0 .. n - 1 /\ i # 0
    OBVIOUS
  <2> QED BY <2>1, <2>2 DEF Ring
<1>6. \A i, j \in 1 .. n : w[i] = w[j] => i = j
  <2>1. \A i \in 1 .. n : i = n \/ i \in 1 .. n - 1
    OBVIOUS
  <2> QED BY <1>5, <2>1 DEF Ring
<1>7. \A i, j \in 0 .. n - 1 : u[i] = u[j] => i = j
  <2> TAKE i, j \in 0 .. n - 1
  <2>1. i + 1 \in 1 .. n /\ j + 1 \in 1 .. n
    OBVIOUS
  <2>2. w[i + 1] = w[j + 1] => i + 1 = j + 1
    BY <1>6, <2>1
  <2> QED BY <1>4, <2>2
<1>8. \A c \in 0 .. n - 1 : \E k \in 0 .. n - 1 : u[k] = c
  <2> TAKE c \in 0 .. n - 1
  <2>1. PICK k \in 0 .. n - 1 : w[k] = c
    BY DEF Ring
  <2>2. CASE k = 0
    <3>1. n - 1 \in 0 .. n - 1 /\ (n - 1) + 1 = n /\ w[n] = w[0]
      BY DEF Ring
    <3> QED BY <1>4, <2>1, <2>2, <3>1
  <2>3. CASE k # 0
    <3>1. k - 1 \in 0 .. n - 1 /\ (k - 1) + 1 = k
      BY <2>3
    <3> QED BY <1>4, <2>1, <3>1
  <2> QED BY <2>2, <2>3
<1> HIDE DEF u
<1>9. Ring(u, nx, n, nx[from])
  BY <1>2, <1>3, <1>4, <1>7, <1>8 DEF Ring
<1> QED BY <1>9 DEF u, TurnedWalk

\* The ring of a queue that is full is cut at tail, its last cell, and the new
\* cells, numbered from n, go in there.
LEMMA RingGrows ==
  ASSUME NEW n \in Nat \ {0}, NEW m \in Nat, n < m, NEW nx, NEW from, NEW w,
         Ring(w, nx, n, from), NEW nx2,
         \A i \in 0 .. n - 1 : i # w[n - 1] => nx2[i] = nx[i],
         nx2[w[n - 1]] = n,
         nx2[m - 1] = from,
         \A i \in n .. m - 2 : nx2[i] = i + 1
  PROVE  Ring(GrownWalk(w, n, m, from), nx2, m, from)
<1> DEFINE u == [k \in 0 .. m |-> IF k < n THEN w[k] ELSE IF k = m THEN from ELSE k]
<1>1. /\ \A k \in 0 .. n - 1 : k \in 0 .. m - 1 /\ w[k] \in 0 .. n - 1 /\ u[k] = w[k]
      /\ \A k \in n .. m - 1 : k \in 0 .. m - 1 /\ u[k] = k
      /\ u[m] = from
      /\ from \in 0 .. n - 1
  <2>1. \A k \in 0 .. n - 1 : k \in 0 .. m - 1 /\ k \in 0 .. n /\ k \in 0 .. m /\ k < n
    OBVIOUS
  <2>2. \A k \in n .. m - 1 :
           k \in 0 .. m - 1 /\ ~ (k < n) /\ k # m /\ k \in 0 .. m
    OBVIOUS
  <2>3. m \in 0 .. m /\ ~ (m < n) /\ 0 \in 0 .. n
    OBVIOUS
  <2>4. w \in [0 .. n -> 0 .. n - 1] /\ w[0] = from
    BY DEF Ring
  <2>5. u[m] = from /\ from \in 0 .. n - 1
    BY <2>3, <2>4
  <2>6. \A k \in 0 .. n - 1 : k \in 0 .. m - 1 /\ w[k] \in 0 .. n - 1 /\ u[k] = w[k]
    BY <2>1, <2>4
  <2>7. \A k \in n .. m - 1 : k \in 0 .. m - 1 /\ u[k] = k
    BY <2>2
  <2> QED BY <2>5, <2>6, <2>7
<1>2. \A k \in 0 .. m - 1 : k \in 0 .. n - 1 \/ k \in n .. m - 1
  OBVIOUS
<1>3. u \in [0 .. m -> 0 .. m - 1]
  <2>1. \A k \in 0 .. m : k = m \/ k \in 0 .. m - 1
    OBVIOUS
  <2>2. \A c \in 0 .. n - 1 : c \in 0 .. m - 1
    OBVIOUS
  <2>3. \A k \in 0 .. m : u[k] \in 0 .. m - 1
    <3> HIDE DEF u
    <3> QED BY <1>1, <1>2, <2>1, <2>2
  <2> QED BY <2>3
<1>4. u[0] = from /\ u[m] = from
  <2>1. 0 \in 0 .. n - 1 /\ w[0] = from
    BY DEF Ring
  <2> HIDE DEF u
  <2> QED BY <1>1, <2>1
<1>5. ASSUME NEW k \in 0 .. m - 1 PROVE u[k + 1] = nx2[u[k]]
  <2> HIDE DEF u
  <2>1. CASE k \in 0 .. n - 1 /\ k # n - 1
    <3>1. k + 1 \in 0 .. n - 1 /\ n - 1 \in 0 .. n - 1
      BY <2>1
    <3>2. w[k + 1] = nx[w[k]] /\ w[k] # w[n - 1]
      BY <2>1, <3>1 DEF Ring
    <3> QED BY <1>1, <2>1, <3>1, <3>2
  <2>2. CASE k = n - 1
    <3>1. k \in 0 .. n - 1 /\ k + 1 = n /\ n \in n .. m - 1
      BY <2>2
    <3> QED BY <1>1, <2>2, <3>1
  <2>3. CASE k \in n .. m - 1 /\ k # m - 1
    <3>1. k + 1 \in n .. m - 1 /\ k \in n .. m - 2
      BY <2>3
    <3> QED BY <1>1, <2>3, <3>1
  <2>4. CASE k = m - 1
    <3>1. k \in n .. m - 1 /\ k + 1 = m
      BY <2>4
    <3> QED BY <1>1, <2>4, <3>1
  <2> QED BY <1>2, <2>1, <2>2, <2>3, <2>4
<1>6. \A i, j \in 0 .. m - 1 : u[i] = u[j] => i = j
  <2> HIDE DEF u
  <2>1. \A c \in 0 .. n - 1 : c \notin n .. m - 1
    OBVIOUS
  <2> TAKE i, j \in 0 .. m - 1
  <2>2. CASE i \in 0 .. n - 1 /\ j \in 0 .. n - 1
    BY <1>1, <2>2 DEF Ring
  <2>3. CASE i \in n .. m - 1 /\ j \in n .. m - 1
    BY <1>1, <2>3
  <2>4. CASE i \in 0 .. n - 1 /\ j \in n .. m - 1
    BY <1>1, <2>1, <2>4
  <2>5. CASE i \in n .. m - 1 /\ j \in 0 .. n - 1
    BY <1>1, <2>1, <2>5
  <2> QED BY <1>2, <2>2, <2>3, <2>4, <2>5
<1>7. ASSUME NEW c \in 0 .. m - 1 PROVE \E k \in 0 .. m - 1 : u[k] = c
  <2> HIDE DEF u
  <2>1. CASE c \in 0 .. n - 1
    <3>1. PICK k \in 0 .. n - 1 : w[k] = c
      BY <2>1 DEF Ring
    <3> QED BY <1>1, <3>1
  <2>2. CASE c \in n .. m - 1
    BY <1>1, <2>2
  <2> QED BY <1>2, <2>1, <2>2
<1> HIDE DEF u
<1>8. Ring(u, nx2, m, from)
  BY <1>3, <1>4, <1>5, <1>6, <1>7 DEF Ring
<1> QED BY <1>8 DEF u, GrownWalk

\* The number of elements is the place of tail on the walk.
LengthOn(w, n, at) == CHOOSE k \in 0 .. n - 1 : w[k] = at

LEMMA LengthOnIs ==
  ASSUME NEW n \in Nat \ {0}, NEW nx, NEW from, NEW w, Ring(w, nx, n, from),
         NEW at, NEW k \in 0 .. n - 1, w[k] = at
  PROVE  LengthOn(w, n, at) = k
BY DEF LengthOn, Ring

LEMMA LengthIsOn ==
  /\ Length = LengthOn(Walk(head), Cardinality(Cells), tail)
  /\ Length' = LengthOn(Walk(head)', Cardinality(Cells)', tail')
BY DEF Length, LengthOn

LEMMA LengthIs ==
  ASSUME RingInv, NEW k \in 0 .. Cardinality(Cells) - 1, Walk(head)[k] = tail
  PROVE  Length = k
BY DEF Length, RingInv, Ring

LEMMA LengthType ==
  ASSUME RingInv
  PROVE  Length \in 0 .. Cardinality(Cells) - 1 /\ Walk(head)[Length] = tail
<1>1. \E k \in 0 .. Cardinality(Cells) - 1 : Walk(head)[k] = tail
  BY DEF RingInv, Ring
<1> QED BY <1>1, LengthIs

LEMMA RingInvInit == Init => RingInv /\ Length = 0
<1> SUFFICES ASSUME Init PROVE RingInv /\ Length = 0
  OBVIOUS
<1> USE PointerQueueAssumption
<1> DEFINE n == QUEUE_INCREASE_SIZE + 1
           w == [k \in 0 .. n |-> IF k = n THEN 0 ELSE k]
<1>1. n \in Nat \ {0} /\ n - 1 = QUEUE_INCREASE_SIZE /\ Cells = 0 .. n - 1
  BY DEF Init, Cells
<1>2. Cardinality(Cells) = n
  <2>1. Cardinality(0 .. n - 1) = n
    BY <1>1, FS_Interval
  <2> QED BY <1>1, <2>1
<1>3. next = [i \in 0 .. n - 1 |-> IF i = n - 1 THEN 0 ELSE i + 1] /\ head = 0 /\ tail = 0
  BY <1>1 DEF Init
<1>4. Ring(w, next, n, head)
  <2> HIDE DEF n
  <2>1. w \in [0 .. n -> 0 .. n - 1]
    BY <1>1
  <2>2. \A k \in 0 .. n - 1 : k \in 0 .. n /\ k # n /\ w[k] = k
    BY <1>1
  <2>3. \A k \in 0 .. n - 1 : w[k + 1] = next[w[k]]
    <3> TAKE k \in 0 .. n - 1
    <3>1. w[k] = k /\ next[k] = (IF k = n - 1 THEN 0 ELSE k + 1) /\ k + 1 \in 0 .. n
      BY <1>1, <1>3, <2>2
    <3> QED BY <1>1, <3>1
  <2>4. w[0] = head /\ w[n] = head
    BY <1>1, <1>3
  <2> HIDE DEF w
  <2> QED BY <2>1, <2>2, <2>3, <2>4 DEF Ring
<1>5. Walk(head) = w
  <2> HIDE DEF n, w
  <2> QED BY <1>1, <1>2, <1>4, RingIsWalk, WalkFromHead
<1>6. RingInv
  <2>1. /\ next \in [0 .. n - 1 -> 0 .. n - 1]
        /\ x \in [0 .. n - 1 -> Value \cup {Nil}]
        /\ head \in 0 .. n - 1 /\ tail \in 0 .. n - 1
    <3>1. x = [i \in 0 .. n - 1 |-> Nil]
      BY <1>1 DEF Init
    <3> HIDE DEF n
    <3> QED BY <1>1, <1>3, <3>1
  <2> HIDE DEF n, w
  <2> QED BY <1>1, <1>2, <1>4, <1>5, <2>1 DEF RingInv
<1>7. Length = 0
  <2>1. 0 \in 0 .. n - 1 /\ w[0] = tail
    BY <1>1, <1>3
  <2> HIDE DEF n, w
  <2> QED BY <1>2, <1>5, <1>6, <2>1, LengthIs
<1> QED BY <1>6, <1>7

\* What an enqueue does to the ring, whether it grows or not: the walk is the
\* same up to tail and goes on to a free cell.
LEMMA EnqueueRing ==
  ASSUME RingInv, NEW e, Enqueue(e)
  PROVE  \E m \in Nat \ {0} :
           /\ Cells' = 0 .. m - 1
           /\ Cardinality(Cells)' = m
           /\ Cells \subseteq Cells'
           /\ next' \in [0 .. m - 1 -> 0 .. m - 1]
           /\ Ring(Walk(head)', next', m, head)
           /\ \A k \in 0 .. Length : Walk(head)'[k] = Walk(head)[k]
           /\ Length + 1 \in 0 .. m - 1
           /\ Walk(head)'[Length + 1] = next'[tail]
<1> DEFINE n == Cardinality(Cells)
           w == Walk(head)
           L == Length
<1>1. /\ n \in Nat \ {0} /\ Cells = 0 .. n - 1
      /\ next \in [0 .. n - 1 -> 0 .. n - 1]
      /\ head \in 0 .. n - 1 /\ tail \in 0 .. n - 1
      /\ Ring(w, next, n, head)
  BY DEF RingInv
<1>2. L \in 0 .. n - 1 /\ w[L] = tail /\ w[L + 1] = next[tail]
  BY <1>1, LengthType DEF Ring
<1>3. head' = head
  BY DEF Enqueue
<1>4. Walk(head)' = WalkOn(next', Cardinality(Cells)', head)
  BY <1>3, WalkFromHead DEF Walk, WalkOn, Cells
<1>5. CASE next[tail] # head
  <2>1. next' = next /\ Cells' = Cells
    BY <1>5 DEF Enqueue, Cells
  <2>2. Walk(head)' = w
    BY <1>4, <2>1, WalkFromHead
  <2>3. L + 1 \in 0 .. n - 1
    <3>1. L + 1 # n
      BY <1>2, <1>5, <1>1 DEF Ring
    <3> QED BY <1>1, <1>2, <3>1
  <2> HIDE DEF n, w, L
  <2>4. Cardinality(Cells)' = n
    BY <2>1 DEF n
  <2>5. Walk(head)'[L + 1] = next'[tail]
    BY <1>2, <2>1, <2>2
  <2> QED BY <1>1, <2>1, <2>2, <2>3, <2>4, <2>5 DEF n, w, L
<1>6. CASE next[tail] = head
  <2> DEFINE m == n + QUEUE_INCREASE_SIZE
             u == GrownWalk(w, n, m, head)
  <2>1. m \in Nat \ {0} /\ n < m
    BY <1>1, PointerQueueAssumption
  <2>2. next' = IncreasedNext
    BY <1>6 DEF Enqueue
  <2>3. next' = [[i \in 0 .. m - 1 |-> IF i \in 0 .. n - 1 THEN next[i] ELSE i + 1]
                   EXCEPT ![tail] = n, ![m - 1] = head]
    <3> DEFINE last == n + QUEUE_INCREASE_SIZE - 1
    <3>1. next' = [[i \in 0 .. last |-> IF i \in Cells THEN next[i] ELSE i + 1]
                     EXCEPT ![tail] = n, ![last] = head]
      BY <2>2 DEF IncreasedNext
    <3>2. last = m - 1
      BY <1>1, PointerQueueAssumption
    <3> HIDE DEF last, n, m
    <3> QED BY <1>1, <3>1, <3>2
  <2>4. L = n - 1
    <3>1. L + 1 \notin 0 .. n - 1
      <4>1. SUFFICES ASSUME L + 1 \in 0 .. n - 1 PROVE FALSE
        OBVIOUS
      <4>2. w[L + 1] = w[0] /\ 0 \in 0 .. n - 1
        BY <1>1, <1>2, <1>6 DEF Ring
      <4>3. L + 1 = 0
        BY <1>1, <4>1, <4>2 DEF Ring
      <4> QED BY <1>1, <1>2, <4>3
    <3> QED BY <1>1, <1>2, <3>1
  <2> HIDE DEF n, w, L, m
  <2>5. /\ next'[tail] = n /\ next'[m - 1] = head
        /\ \A i \in 0 .. n - 1 : i # tail => next'[i] = next[i]
        /\ \A i \in n .. m - 2 : next'[i] = i + 1
        /\ next' \in [0 .. m - 1 -> 0 .. m - 1]
        /\ DOMAIN next' = 0 .. m - 1
    <3>1. /\ m - 1 \in n .. m - 1 /\ m - 1 # tail /\ tail \in 0 .. m - 1
          /\ head \in 0 .. m - 1 /\ n \in 0 .. m - 1
          /\ \A i \in 0 .. n - 1 : i \in 0 .. m - 1 /\ i # m - 1
          /\ \A i \in n .. m - 2 : i \in 0 .. m - 1 /\ i \notin 0 .. n - 1 /\ i # m - 1 /\ i + 1 \in 0 .. m - 1
      BY <1>1, <2>1
    <3>2. /\ next'[tail] = n /\ next'[m - 1] = head
          /\ \A i \in 0 .. n - 1 : i # tail => next'[i] = next[i]
          /\ \A i \in n .. m - 2 : next'[i] = i + 1
          /\ DOMAIN next' = 0 .. m - 1
      <4>1. /\ DOMAIN next' = 0 .. m - 1
            /\ \A i \in 0 .. m - 1 :
                 next'[i] = IF i = m - 1 THEN head
                            ELSE IF i = tail THEN n
                            ELSE IF i \in 0 .. n - 1 THEN next[i] ELSE i + 1
        BY <2>3, <3>1
      <4>2. next'[tail] = n /\ next'[m - 1] = head
        BY <3>1, <4>1
      <4>3. \A i \in 0 .. n - 1 : i # tail => next'[i] = next[i]
        BY <3>1, <4>1
      <4>4. \A i \in n .. m - 2 : next'[i] = i + 1
        <5> TAKE i \in n .. m - 2
        <5>1. i # tail
          BY <1>1, <3>1
        <5> QED BY <3>1, <4>1, <5>1
      <4> QED BY <4>1, <4>2, <4>3, <4>4
    <3>3. \A i \in 0 .. m - 1 : i = m - 1 \/ i \in 0 .. n - 1 \/ i \in n .. m - 2
      BY <1>1, <2>1
    <3>4. ASSUME NEW i \in 0 .. m - 1 PROVE next'[i] \in 0 .. m - 1
      <4>1. CASE i \in 0 .. n - 1 /\ i # tail
        <5>1. next[i] \in 0 .. n - 1
          BY <1>1, <4>1
        <5> QED BY <3>1, <3>2, <4>1, <5>1
      <4> QED BY <3>1, <3>2, <3>3, <4>1
    <3> QED BY <2>3, <3>2, <3>4
  <2>6. Ring(u, next', m, head)
    <3>1. tail = w[n - 1]
      BY <1>2, <2>4
    <3>2. /\ next'[w[n - 1]] = n
          /\ next'[m - 1] = head
          /\ \A i \in 0 .. n - 1 : i # w[n - 1] => next'[i] = next[i]
          /\ \A i \in n .. m - 2 : next'[i] = i + 1
          /\ n \in Nat \ {0} /\ m \in Nat /\ n < m
          /\ Ring(w, next, n, head)
      BY <1>1, <2>1, <2>5, <3>1
    <3> HIDE DEF u
    <3>3. Ring(GrownWalk(w, n, m, head), next', m, head)
      BY ONLY <3>2, RingGrows
    <3> QED BY <3>3 DEF u
  <2>7. Cells' = 0 .. m - 1 /\ Cardinality(Cells)' = m
    <3>1. Cardinality(0 .. m - 1) = m
      BY <2>1, FS_Interval
    <3> QED BY <2>5, <3>1 DEF Cells
  <2>8. Walk(head)' = u
    <3> HIDE DEF u
    <3> QED BY <1>4, <2>1, <2>6, <2>7, RingIsWalk
  <2>9. /\ \A k \in 0 .. L : u[k] = w[k]
        /\ L + 1 \in 0 .. m - 1
        /\ u[L + 1] = next'[tail]
        /\ Cells \subseteq Cells'
    <3>1. \A k \in 0 .. L : k < n /\ k \in 0 .. m
      BY <1>1, <2>1, <2>4
    <3>2. L + 1 = n /\ L + 1 \in 0 .. m - 1 /\ n \in 0 .. m /\ n # m /\ ~ (n < n)
      BY <1>1, <2>1, <2>4
    <3>3. u[n] = n
      BY <3>2 DEF GrownWalk
    <3>4. 0 .. n - 1 \subseteq 0 .. m - 1
      BY <1>1, <2>1
    <3>5. \A k \in 0 .. L : u[k] = w[k]
      BY <3>1 DEF GrownWalk
    <3> QED BY <1>1, <2>5, <2>7, <3>2, <3>3, <3>4, <3>5
  <2> HIDE DEF u
  <2>10. /\ Ring(Walk(head)', next', m, head)
         /\ \A k \in 0 .. L : Walk(head)'[k] = w[k]
         /\ Walk(head)'[L + 1] = next'[tail]
    BY <2>6, <2>8, <2>9
  <2> QED BY <2>1, <2>5, <2>7, <2>9, <2>10 DEF w, L
<1> QED BY <1>5, <1>6

Items == [k \in 1 .. Length |-> x[Walk(head)[k]]]

LEMMA EnqueueStep ==
  ASSUME RingInv, NEW e \in Value, Enqueue(e)
  PROVE  RingInv' /\ Items' = Append(Items, e) /\ taken' = taken
<1> DEFINE w == Walk(head)
           L == Length
<1>1. /\ Cardinality(Cells) \in Nat \ {0} /\ Cells = 0 .. Cardinality(Cells) - 1
      /\ x \in [Cells -> Value \cup {Nil}]
      /\ head \in Cells /\ tail \in Cells
      /\ Ring(w, next, Cardinality(Cells), head)
      /\ L \in 0 .. Cardinality(Cells) - 1 /\ w[L] = tail
  BY LengthType DEF RingInv
<1>2. PICK m \in Nat \ {0} :
        /\ Cells' = 0 .. m - 1
        /\ Cardinality(Cells)' = m
        /\ Cells \subseteq Cells'
        /\ next' \in [0 .. m - 1 -> 0 .. m - 1]
        /\ Ring(Walk(head)', next', m, head)
        /\ \A k \in 0 .. L : Walk(head)'[k] = w[k]
        /\ L + 1 \in 0 .. m - 1
        /\ Walk(head)'[L + 1] = next'[tail]
  BY EnqueueRing
<1>3. /\ head' = head /\ taken' = taken
      /\ tail' = next'[tail]
      /\ x' = [[i \in Cells' |-> IF i \in Cells THEN x[i] ELSE Nil] EXCEPT ![tail'] = e]
  BY DEF Enqueue, Cells
<1>5. RingInv'
  <2>1. tail' \in 0 .. m - 1
    BY <1>1, <1>2, <1>3 DEF Ring
  <2>2. x' \in [0 .. m - 1 -> Value \cup {Nil}]
    BY <1>1, <1>2, <1>3
  <2> QED BY <1>1, <1>2, <1>3, <2>1, <2>2 DEF RingInv
<1>6. Length' = L + 1
  BY <1>2, <1>3, LengthOnIs, LengthIsOn
<1> HIDE DEF w, L
<1>7. Items = [k \in 1 .. L |-> x[w[k]]] /\ Items' = [k \in 1 .. L + 1 |-> x'[Walk(head)'[k]]]
  BY <1>6 DEF Items, w, L
<1>8. \A k \in 1 .. L : /\ k \in 0 .. L /\ k \in 0 .. m - 1
                          /\ Walk(head)'[k] = w[k]
                          /\ w[k] \in Cells /\ w[k] # tail'
  <2> TAKE k \in 1 .. L
  <2>1. k \in 0 .. L /\ k \in 0 .. m - 1 /\ k # L + 1 /\ k \in 0 .. Cardinality(Cells)
    BY <1>1, <1>2
  <2>2. Walk(head)'[k] = w[k] /\ w[k] \in Cells
    BY <1>1, <1>2, <2>1 DEF Ring
  <2>3. Walk(head)'[k] # Walk(head)'[L + 1]
    BY <1>2, <2>1 DEF Ring
  <2> QED BY <1>2, <1>3, <2>1, <2>2, <2>3
<1>9. /\ x'[tail'] = e
      /\ \A c \in Cells : c # tail' => x'[c] = x[c]
  <2>1. tail' \in Cells'
    BY <1>1, <1>2, <1>3
  <2> QED BY <1>2, <1>3, <2>1
<1>10. Items' = Append(Items, e)
  <2>1. Items \in Seq(Value \cup {Nil}) /\ Len(Items) = L
    BY <1>1, <1>7, <1>8
  <2>2. Append(Items, e) = [k \in 1 .. L + 1 |-> IF k = L + 1 THEN e ELSE Items[k]]
    <3>1. /\ Append(Items, e) \in Seq(Value \cup {Nil})
          /\ Len(Append(Items, e)) = L + 1
          /\ \A i \in 1 .. L : Append(Items, e)[i] = Items[i]
          /\ Append(Items, e)[L + 1] = e
      BY <2>1, AppendProperties
    <3>2. Append(Items, e) \in [1 .. L + 1 -> Value \cup {Nil}]
      BY <3>1, LenProperties
    <3>3. \A k \in 1 .. L + 1 : Append(Items, e)[k] = IF k = L + 1 THEN e ELSE Items[k]
      <4>1. \A k \in 1 .. L + 1 : k = L + 1 \/ (k # L + 1 /\ k \in 1 .. L)
        BY <1>1
      <4> QED BY <3>1, <4>1
    <3> QED BY <3>2, <3>3
  <2>3. \A k \in 1 .. L + 1 : x'[Walk(head)'[k]] = IF k = L + 1 THEN e ELSE Items[k]
    <3> TAKE k \in 1 .. L + 1
    <3>1. CASE k = L + 1
      BY <1>2, <1>3, <1>9, <3>1
    <3>2. CASE k # L + 1
      <4>1. k \in 1 .. L
        BY <1>1, <3>2
      <4> QED BY <1>7, <1>8, <1>9, <3>2, <4>1
    <3> QED BY <3>1, <3>2
  <2> QED BY <1>7, <2>2, <2>3
<1> QED BY <1>3, <1>5, <1>10

LEMMA DequeueStep ==
  ASSUME RingInv, Dequeue
  PROVE  RingInv' /\ Items # <<>> /\ taken' = Head(Items) /\ Items' = Tail(Items)
<1> DEFINE n == Cardinality(Cells)
           w == Walk(head)
           L == Length
           u == TurnedWalk(w, n)
<1>1. /\ n \in Nat \ {0} /\ Cells = 0 .. n - 1
      /\ next \in [0 .. n - 1 -> 0 .. n - 1]
      /\ x \in [0 .. n - 1 -> Value \cup {Nil}]
      /\ head \in 0 .. n - 1 /\ tail \in 0 .. n - 1
      /\ Ring(w, next, n, head)
      /\ L \in 0 .. n - 1 /\ w[L] = tail
  BY LengthType DEF RingInv
<1>2. /\ head # tail
      /\ head' = next[head] /\ taken' = x[next[head]]
      /\ next' = next /\ x' = x /\ tail' = tail /\ Cells' = Cells
  BY DEF Dequeue, Cells
<1>3. L \in 1 .. n - 1
  <2>1. w[0] = head
    BY <1>1 DEF Ring
  <2> QED BY <1>1, <1>2, <2>1
<1>4. Walk(head)' = WalkOn(next, n, next[head])
  BY <1>2 DEF Walk, WalkOn, Cells
<1>5. Ring(u, next, n, head') /\ Walk(head)' = u
  <2>1. Ring(u, next, n, head')
    BY <1>1, <1>2, RingTurns
  <2> HIDE DEF u, n
  <2> QED BY <1>1, <1>2, <1>4, <2>1, RingIsWalk
<1>6. Cardinality(Cells)' = n
  BY <1>2
<1> HIDE DEF n, w, L
<1>7. \A k \in 0 .. n - 1 : u[k] = w[k + 1]
  <2>1. \A k \in 0 .. n - 1 : k \in 0 .. n /\ k # n
    BY <1>1
  <2> QED BY <2>1 DEF TurnedWalk
<1> HIDE DEF u
<1>8. RingInv'
  <2>1. head' \in 0 .. n - 1
    BY <1>1, <1>2
  <2> QED BY <1>1, <1>2, <1>5, <1>6, <2>1 DEF RingInv
<1>9. Length' = L - 1
  <2>1. L - 1 \in 0 .. n - 1 /\ u[L - 1] = w[(L - 1) + 1] /\ (L - 1) + 1 = L
    BY <1>1, <1>3, <1>7
  <2>2. u[L - 1] = tail
    BY <1>1, <2>1
  <2>3. LengthOn(u, n, tail) = L - 1
    <3>1. n \in Nat \ {0} /\ Ring(u, next, n, head') /\ L - 1 \in 0 .. n - 1
      BY <1>1, <1>5, <2>1
    <3> QED BY ONLY <3>1, <2>2, LengthOnIs
  <2> QED BY <1>2, <1>5, <1>6, <2>3, LengthIsOn
<1>10. /\ Items = [k \in 1 .. L |-> x[w[k]]]
       /\ Items' = [k \in 1 .. L - 1 |-> x[u[k]]]
  BY <1>2, <1>5, <1>9 DEF Items, w, L
<1>11. Items \in Seq(Value \cup {Nil}) /\ Len(Items) = L /\ Items # <<>>
  <2>1. \A k \in 1 .. L : k \in 0 .. n /\ w[k] \in 0 .. n - 1
    <3>1. \A k \in 1 .. L : k \in 0 .. n
      BY <1>1, <1>3
    <3>2. w \in [0 .. n -> 0 .. n - 1]
      BY <1>1 DEF Ring
    <3> QED BY <3>1, <3>2
  <2>2. Items \in Seq(Value \cup {Nil}) /\ Len(Items) = L
    <3>1. L \in Nat
      BY <1>1, <1>3
    <3>2. Items \in [1 .. L -> Value \cup {Nil}]
      BY <1>1, <1>10, <2>1
    <3> QED BY <3>1, <3>2
  <2> QED BY <1>3, <2>2, EmptySeq
<1>12. taken' = Head(Items)
  <2>1. w[0 + 1] = next[w[0]] /\ w[0] = head /\ 0 + 1 = 1
    <3>1. 0 \in 0 .. n - 1 /\ 0 + 1 = 1
      BY <1>1
    <3>2. w[0] = head /\ \A k \in 0 .. n - 1 : w[k + 1] = next[w[k]]
      BY <1>1 DEF Ring
    <3> QED BY <3>1, <3>2
  <2>2. Items[1] = x[w[1]] /\ Head(Items) = Items[1]
    BY <1>3, <1>10, <1>11
  <2> QED BY <1>2, <2>1, <2>2
<1>13. Items' = Tail(Items)
  <2>1. /\ Tail(Items) \in Seq(Value \cup {Nil})
        /\ Len(Tail(Items)) = L - 1
        /\ \A i \in 1 .. L - 1 : Tail(Items)[i] = Items[i + 1]
    BY <1>11, HeadTailProperties
  <2>2. Tail(Items) \in [1 .. L - 1 -> Value \cup {Nil}]
    BY <2>1, LenProperties
  <2>3. \A i \in 1 .. L - 1 : Items[i + 1] = x[u[i]]
    <3> TAKE i \in 1 .. L - 1
    <3>1. i \in 0 .. n - 1 /\ i + 1 \in 1 .. L
      BY <1>1, <1>3
    <3> QED BY <1>7, <1>10, <3>1
  <2> QED BY <1>10, <2>1, <2>2, <2>3
<1> QED BY <1>8, <1>11, <1>12, <1>13

LEMMA EmptyItems == RingInv => (head = tail <=> Items = <<>>)
<1> SUFFICES ASSUME RingInv PROVE head = tail <=> Items = <<>>
  OBVIOUS
<1>1. /\ Length \in 0 .. Cardinality(Cells) - 1 /\ Walk(head)[Length] = tail
      /\ Cardinality(Cells) \in Nat \ {0}
      /\ Ring(Walk(head), next, Cardinality(Cells), head)
  BY LengthType DEF RingInv
<1>2. head = tail <=> Length = 0
  <2>1. /\ Walk(head)[0] = head /\ 0 \in 0 .. Cardinality(Cells) - 1
        /\ \A i, j \in 0 .. Cardinality(Cells) - 1 :
             Walk(head)[i] = Walk(head)[j] => i = j
    BY <1>1 DEF Ring
  <2> QED BY <1>1, <2>1
<1>3. Length = 0 <=> Items = <<>>
  BY <1>1 DEF Items
<1> QED BY <1>2, <1>3

LEMMA StutterKeeps ==
  ASSUME UNCHANGED <<next, x, head, tail>>
  PROVE  RingInv' = RingInv /\ Items' = Items
<1>1. Cells' = Cells /\ Walk(head)' = Walk(head) /\ Length' = Length
  BY DEF Cells, Walk, Length
<1> QED BY <1>1 DEF RingInv, Items, Ring

LEMMA RingInvStep == RingInv /\ [Next]_vars => RingInv'
<1> SUFFICES ASSUME RingInv, [Next]_vars PROVE RingInv'
  OBVIOUS
<1>1. ASSUME NEW e \in Value, Enqueue(e) PROVE RingInv'
  BY <1>1, EnqueueStep
<1>2. CASE DequeueEmpty
  BY <1>2, StutterKeeps DEF DequeueEmpty
<1>3. CASE Dequeue
  BY <1>3, DequeueStep
<1>4. CASE UNCHANGED vars
  BY <1>4, StutterKeeps DEF vars
<1> QED BY <1>1, <1>2, <1>3, <1>4 DEF Next

LEMMA RingInvAlways == Spec => []RingInv
<1>1. Init => RingInv
  BY RingInvInit
<1> QED BY <1>1, RingInvStep, PTL DEF Spec

LEMMA RingInvIsOneRing == RingInv => OneRing
<1> SUFFICES ASSUME RingInv PROVE OneRing
  OBVIOUS
<1> DEFINE n == Cardinality(Cells)
           w == Walk(head)
<1>1. n \in Nat \ {0} /\ Cells = 0 .. n - 1 /\ Ring(w, next, n, head)
  BY DEF RingInv
<1> HIDE DEF n, w
<1>2. {w[k] : k \in 0 .. n - 1} = Cells
  <2>1. \A k \in 0 .. n - 1 : w[k] \in 0 .. n - 1
    <3>1. \A k \in 0 .. n - 1 : k \in 0 .. n
      BY <1>1
    <3> QED BY <1>1, <3>1 DEF Ring
  <2>2. \A c \in 0 .. n - 1 : \E k \in 0 .. n - 1 : w[k] = c
    BY <1>1 DEF Ring
  <2> QED BY <1>1, <2>1, <2>2
<1>3. w[n] = head
  BY <1>1 DEF Ring
<1> QED BY <1>2, <1>3 DEF OneRing, n, w

\* However the queue grew and wherever its ends are, its cells are one ring
\* (queue.c:8-16, 70-84), so that queue_free frees each cell once.
THEOREM CellsAreOneRing == Spec => []OneRing
BY RingInvAlways, RingInvIsOneRing, PTL

LEMMA StartsAsFifo == Init => Elements!Init
<1> SUFFICES ASSUME Init PROVE Elements!Init
  OBVIOUS
<1>1. Items = <<>>
  BY RingInvInit, EmptyItems DEF Init
<1> QED BY <1>1 DEF Init, Items, Elements!Init

LEMMA StepsAsFifo ==
  RingInv /\ [Next]_vars
    => [Elements!Next]_<<[k \in 1 .. Length |-> x[Walk(head)[k]]], taken>>
<1> SUFFICES ASSUME RingInv, [Next]_vars
             PROVE  [Elements!Next]_<<[k \in 1 .. Length |-> x[Walk(head)[k]]], taken>>
  OBVIOUS
<1>1. ASSUME NEW e \in Value, Enqueue(e)
      PROVE  Elements!Enqueue(e)
  BY <1>1, EnqueueStep DEF Items, Elements!Enqueue
<1>2. CASE DequeueEmpty
  <2>1. Items = <<>> /\ Items' = Items /\ taken' = Nil
    BY <1>2, EmptyItems, StutterKeeps DEF DequeueEmpty
  <2> QED BY <2>1 DEF Items, Elements!Dequeue, Elements!Next
<1>3. CASE Dequeue
  BY <1>3, DequeueStep DEF Items, Elements!Dequeue, Elements!Next
<1>4. CASE UNCHANGED vars
  <2>1. Items' = Items /\ taken' = taken
    BY <1>4, StutterKeeps DEF vars
  <2> QED BY <2>1 DEF Items
<1> QED BY <1>1, <1>2, <1>3, <1>4 DEF Next, Elements!Next

\* Elements leave a queue in the order they came (queue.c:70-84), across
\* every wrap of the ring and every growth.
THEOREM QueueIsFifo == Spec => IsFifo
<1>1. Init => Elements!Init
  BY StartsAsFifo
<1>2. RingInv /\ [Next]_vars
        => [Elements!Next]_<<[k \in 1 .. Length |-> x[Walk(head)[k]]], taken>>
  BY StepsAsFifo
<1> QED BY <1>1, <1>2, RingInvAlways, PTL DEF Spec, IsFifo, Elements!Spec
=============================================================================
