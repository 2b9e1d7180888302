----------------------- MODULE BehavesAsArrays_proofs -----------------------
(***************************************************************************)
(* Proof that SymbolicMemory implements ArrayMemory, and that writtenTo    *)
(* admits every byte that was stored, for any number of nodes, any         *)
(* valuations, words and addresses and any nesting of forks.               *)
(*                                                                         *)
(* What a memory holds depends on the nodes it is made of only.  So it     *)
(* survives marks, memos, new nodes and the freeing of others; a store     *)
(* changes one array because no other node refers to that memory; and a    *)
(* load, whose flag no node has, reads the array.                          *)
(***************************************************************************)
EXTENDS SymbolicMemory_proofs

ByteOrNothing == Byte \cup {Nothing}
Array == [Valuation -> [Address -> ByteOrNothing]]

\* What the cells of a node say of an address, over what lies beneath them.
Hits(cells, v, a) == {i \in DOMAIN cells : cells[i].address[v] = a}

Newest(cells, v, a, base) ==
  IF Hits(cells, v, a) = {} THEN base ELSE cells[Max(Hits(cells, v, a))].value[v]

LEMMA NewestType ==
  ASSUME NEW cells \in Seq(Cell), NEW v \in Valuation, NEW a, NEW base
  PROVE  /\ Hits(cells, v, a) # {} =>
              /\ Max(Hits(cells, v, a)) \in Hits(cells, v, a)
              /\ \A i \in Hits(cells, v, a) : i <= Max(Hits(cells, v, a))
         /\ Hits(cells, v, a) # {} => Newest(cells, v, a, base) \in Byte
<1> DEFINE hits == Hits(cells, v, a)
<1>1. hits \subseteq 0 .. Len(cells) /\ Len(cells) \in Nat
  BY DEF Hits
<1>2. hits \subseteq 1 .. Len(cells)
  BY DEF Hits
<1> SUFFICES ASSUME hits # {}
             PROVE  /\ Max(hits) \in hits /\ \A i \in hits : i <= Max(hits)
                    /\ Newest(cells, v, a, base) \in Byte
  OBVIOUS
<1> HIDE DEF hits
<1>3. Max(hits) \in hits /\ \A i \in hits : i <= Max(hits)
  BY <1>1, GreatestElement
<1>4. cells[Max(hits)] \in Cell
  <2>1. Max(hits) \in 1 .. Len(cells)
    BY <1>2, <1>3
  <2> QED BY <2>1
<1>5. cells[Max(hits)].value[v] \in Byte
  BY <1>4 DEF Cell
<1> QED BY <1>3, <1>5 DEF Newest, hits

\* What lies beneath the cells of a node.
Beneath(m, arr, v, a) ==
  IF m.sMemT = NULL THEN Nothing
  ELSE IF m.sMemF = NULL \/ v \in m.c THEN arr[m.sMemT][v][a]
  ELSE arr[m.sMemF][v][a]

\* The step of the recursion of Contents, as the module writes it.
ArrayOf(h, arr, n) ==
  LET m == h.nodes[n]
      local(v, a) == {i \in DOMAIN m.cells : m.cells[i].address[v] = a}
  IN  IF m = Gone THEN [v \in Valuation |-> [a \in Address |-> Gone]]
      ELSE [v \in Valuation |-> [a \in Address |->
              IF local(v, a) # {} THEN m.cells[Max(local(v, a))].value[v]
              ELSE IF m.sMemT = NULL THEN Nothing
              ELSE IF m.sMemF = NULL \/ v \in m.c THEN arr[m.sMemT][v][a]
              ELSE arr[m.sMemF][v][a]]]

LEMMA ArrayOfIs ==
  ASSUME NEW h, NEW arr, NEW n, h.nodes[n] # Gone
  PROVE  ArrayOf(h, arr, n) =
           [v \in Valuation |-> [a \in Address |->
              Newest(h.nodes[n].cells, v, a, Beneath(h.nodes[n], arr, v, a))]]
BY DEF ArrayOf, Newest, Hits, Beneath

LEMMA BeneathType ==
  ASSUME NEW h, HeapInv(h), NEW n \in Live(h),
         NEW arr, \A c \in Children(h, n) : arr[c] \in Array,
         NEW v \in Valuation, NEW a \in Address
  PROVE  Beneath(h.nodes[n], arr, v, a) \in ByteOrNothing
<1> DEFINE m == h.nodes[n]
<1>1. m.sMemT # NULL => arr[m.sMemT] \in Array
  BY DEF Children
<1>2. m.sMemF # NULL => arr[m.sMemF] \in Array
  BY DEF Children
<1> QED BY <1>1, <1>2 DEF Beneath, Array, ByteOrNothing

LEMMA ArrayOfType ==
  ASSUME NEW h, HeapInv(h), NEW n \in Live(h),
         NEW arr, \A c \in Children(h, n) : arr[c] \in Array
  PROVE  ArrayOf(h, arr, n) \in Array
<1> DEFINE m == h.nodes[n]
<1>1. m \in sMemory /\ m # Gone
  BY HeapFacts, SymbolicMemoryAssumption
<1>2. m.cells \in Seq(Cell)
  BY <1>1 DEF sMemory
<1>3. \A v \in Valuation, a \in Address : Beneath(m, arr, v, a) \in ByteOrNothing
  BY BeneathType
<1> HIDE DEF m
<1>4. \A v \in Valuation, a \in Address :
        Newest(m.cells, v, a, Beneath(m, arr, v, a)) \in ByteOrNothing
  <2> TAKE v \in Valuation, a \in Address
  <2>1. CASE Hits(m.cells, v, a) = {}
    BY <1>3, <2>1 DEF Newest
  <2>2. CASE Hits(m.cells, v, a) # {}
    BY <1>2, <2>2, NewestType DEF ByteOrNothing
  <2> QED BY <2>1, <2>2
<1>5. ArrayOf(h, arr, n) =
        [v \in Valuation |-> [a \in Address |-> Newest(m.cells, v, a, Beneath(m, arr, v, a))]]
  BY <1>1, ArrayOfIs DEF m
<1> QED BY <1>4, <1>5 DEF Array

\* Only the children of a node are looked at.
LEMMA ArrayOfIsLocal ==
  ASSUME NEW h, NEW n, NEW f, NEW g, \A c \in Children(h, n) : f[c] = g[c]
  PROVE  ArrayOf(h, f, n) = ArrayOf(h, g, n)
<1> DEFINE m == h.nodes[n]
<1>1. m.sMemT # NULL => f[m.sMemT] = g[m.sMemT]
  BY DEF Children
<1>2. m.sMemF # NULL => f[m.sMemF] = g[m.sMemF]
  BY DEF Children
<1>3. \A v, a : Beneath(m, f, v, a) = Beneath(m, g, v, a)
  BY <1>1, <1>2 DEF Beneath
<1>4. CASE m = Gone
  BY <1>4 DEF ArrayOf
<1>5. CASE m # Gone
  <2>1. ArrayOf(h, f, n) = [v \in Valuation |-> [a \in Address |->
                              Newest(m.cells, v, a, Beneath(m, f, v, a))]]
    BY <1>5, ArrayOfIs
  <2>2. ArrayOf(h, g, n) = [v \in Valuation |-> [a \in Address |->
                              Newest(m.cells, v, a, Beneath(m, g, v, a))]]
    BY <1>5, ArrayOfIs
  <2> HIDE DEF m
  <2> QED BY <1>3, <2>1, <2>2
<1> QED BY <1>4, <1>5

LEMMA ContentsEquation ==
  ASSUME NEW h, HeapInv(h)
  PROVE  \A n \in Live(h) : /\ Contents(h)[n] \in Array
                            /\ Contents(h)[n] = ArrayOf(h, Contents(h), n)
<1> DEFINE arr == Contents(h)
           step == [n \in Live(h) |-> [f \in [Live(h) -> Array] |-> ArrayOf(h, f, n)]]
           Is(f) == f = [n \in Node |-> ArrayOf(h, f, n)]
           nothing == [v \in Valuation |-> [a \in Address |-> Gone]]
<1>1. /\ Graph(h) /\ Live(h) \subseteq Node
      /\ \A n \in Live(h) : Children(h, n) \subseteq Live(h)
      /\ \A n \in Node \ Live(h) : h.nodes[n] = Gone
  BY HeapFacts DEF HeapInv
<1>2. step \in Steps(h, Array)
  <2>1. \A n \in Live(h), f \in [Live(h) -> Array] : ArrayOf(h, f, n) \in Array
    BY <1>1, ArrayOfType
  <2> QED BY <2>1 DEF Steps
<1>3. Local(h, Array, step)
  <2>1. \A n \in Live(h), f, g \in [Live(h) -> Array] :
          (\A c \in Children(h, n) : f[c] = g[c]) => ArrayOf(h, f, n) = ArrayOf(h, g, n)
    BY ArrayOfIsLocal
  <2> QED BY <2>1 DEF Local
<1>4. \E x : x \in Array
  <2>1. [v \in Valuation |-> [a \in Address |-> Nothing]] \in Array
    BY DEF Array, ByteOrNothing
  <2> QED BY <2>1
<1>5. Solvable(h, Array, step)
  <2> HIDE DEF step
  <2> QED BY <1>1, <1>2, <1>3, <1>4, GraphRecursion
<1>6. PICK f \in [Live(h) -> Array] : \A n \in Live(h) : f[n] = ArrayOf(h, f, n)
  BY <1>5 DEF Solvable
<1>7. \E F : Is(F)
  <2> DEFINE F == [n \in Node |-> IF n \in Live(h) THEN f[n] ELSE nothing]
  <2>1. \A n \in Live(h) : ArrayOf(h, F, n) = ArrayOf(h, f, n)
    <3> TAKE n \in Live(h)
    <3>1. \A c \in Children(h, n) : F[c] = f[c]
      BY <1>1
    <3> QED BY <3>1, ArrayOfIsLocal
  <2>2. \A n \in Node \ Live(h) : ArrayOf(h, F, n) = nothing
    BY <1>1 DEF ArrayOf
  <2>3. \A n \in Node : F[n] = ArrayOf(h, F, n)
    <3> HIDE DEF nothing
    <3>1. \A n \in Node : F[n] = IF n \in Live(h) THEN f[n] ELSE nothing
      OBVIOUS
    <3> HIDE DEF F
    <3> QED BY <1>6, <2>1, <2>2, <3>1
  <2>4. F = [n \in Node |-> F[n]]
    OBVIOUS
  <2> HIDE DEF F
  <2>5. Is(F)
    BY <2>3, <2>4
  <2> QED BY <2>5
<1>8. arr = CHOOSE f_1 : Is(f_1)
  BY DEF Contents, ArrayOf
<1>9. Is(arr)
  <2> HIDE DEF Is, arr
  <2> QED BY <1>7, <1>8
<1>10. \A n \in Live(h) : arr[n] = ArrayOf(h, arr, n)
  <2> HIDE DEF arr
  <2> QED BY <1>1, <1>9
<1> HIDE DEF arr
<1>11. \A n \in Live(h) : arr[n] \in Array
  <2> DEFINE T == {n \in Live(h) : arr[n] \notin Array}
  <2> SUFFICES ASSUME T # {} PROVE FALSE
    OBVIOUS
  <2>1. PICK n \in T : Children(h, n) \cap T = {}
    BY <1>1 DEF Graph, WellFounded
  <2>2. \A c \in Children(h, n) : arr[c] \in Array
    BY <1>1, <2>1
  <2> QED BY <1>10, <2>1, <2>2, ArrayOfType
<1> QED BY <1>10, <1>11 DEF arr

\* The contents of the nodes a heap shares with another.
LEMMA ContentsOfPart ==
  ASSUME NEW g, NEW h, HeapInv(g), HeapInv(h), PartOf(g, h)
  PROVE  \A n \in Live(g) : Contents(g)[n] = Contents(h)[n]
<1> DEFINE f == Contents(g)
           e == Contents(h)
           T == {n \in Live(g) : f[n] # e[n]}
<1>1. /\ \A n \in Live(g) : f[n] = ArrayOf(g, f, n)
      /\ \A n \in Live(h) : e[n] = ArrayOf(h, e, n)
  BY ContentsEquation
<1> HIDE DEF f, e
<1> SUFFICES ASSUME T # {} PROVE FALSE
  BY DEF f, e
<1>2. PICK n \in T : Children(g, n) \cap T = {}
  BY DEF HeapInv, Graph, WellFounded
<1>3. n \in Live(g) /\ n \in Live(h) /\ f[n] # e[n]
  BY DEF PartOf
<1>4. \A c \in Children(g, n) : f[c] = e[c]
  BY <1>2, <1>3, HeapFacts
<1>5. ArrayOf(g, f, n) = ArrayOf(g, e, n)
  BY <1>4, ArrayOfIsLocal
<1>6. ArrayOf(g, e, n) = ArrayOf(h, e, n)
  <2>1. g.nodes[n] # Gone /\ h.nodes[n] # Gone
    BY <1>3 DEF Live
  <2>2. SameNode(g.nodes[n], h.nodes[n])
    BY <1>3 DEF PartOf
  <2> DEFINE a == g.nodes[n]
             b == h.nodes[n]
  <2>3. /\ ArrayOf(g, e, n) = [v \in Valuation |-> [x \in Address |->
                                 Newest(a.cells, v, x, Beneath(a, e, v, x))]]
        /\ ArrayOf(h, e, n) = [v \in Valuation |-> [x \in Address |->
                                 Newest(b.cells, v, x, Beneath(b, e, v, x))]]
    BY <2>1, ArrayOfIs
  <2>4. a.cells = b.cells /\ \A v, x : Beneath(a, e, v, x) = Beneath(b, e, v, x)
    BY <2>2 DEF SameNode, Beneath
  <2> HIDE DEF a, b
  <2> QED BY <2>3, <2>4
<1> QED BY <1>1, <1>3, <1>5, <1>6

LEMMA RemarkedContents ==
  ASSUME NEW g, NEW h, HeapInv(h), Remarked(g, h)
  PROVE  Live(g) = Live(h) /\ \A n \in Live(h) : Contents(g)[n] = Contents(h)[n]
<1>1. HeapInv(g) /\ PartOf(g, h) /\ Live(g) = Live(h)
  BY DEF Remarked, SameShape, PartOf
<1> QED BY <1>1, ContentsOfPart

\* A copy holds what it is a copy of, a merge what the condition selects.
LEMMA CopyContents ==
  ASSUME NEW h, HeapInv(h), NEW n \in Live(h),
         h.nodes[n].cells = <<>>, h.nodes[n].sMemT # NULL, h.nodes[n].sMemF = NULL
  PROVE  Contents(h)[n] = Contents(h)[h.nodes[n].sMemT]
<1> DEFINE m == h.nodes[n]
           arr == Contents(h)
<1>1. arr[n] = ArrayOf(h, arr, n) /\ m # Gone
  BY ContentsEquation DEF Live
<1>2. arr[n] = [v \in Valuation |-> [a \in Address |-> Newest(m.cells, v, a, Beneath(m, arr, v, a))]]
  BY <1>1, ArrayOfIs
<1>3. \A v \in Valuation, a \in Address :
        Newest(m.cells, v, a, Beneath(m, arr, v, a)) = arr[m.sMemT][v][a]
  BY DEF Newest, Hits, Beneath
<1>4. m.sMemT \in Live(h)
  BY HeapFacts DEF Children
<1>5. arr[m.sMemT] \in [Valuation -> [Address -> ByteOrNothing]]
  BY <1>4, ContentsEquation DEF Array
<1> HIDE DEF m, arr
<1>6. arr[n] = [v \in Valuation |-> [a \in Address |-> arr[m.sMemT][v][a]]]
  BY <1>2, <1>3
<1> QED BY <1>5, <1>6 DEF m, arr

HoldsMerge(h, n) ==
  Contents(h)[n] = [v \in Valuation |->
                      IF v \in h.nodes[n].c THEN Contents(h)[h.nodes[n].sMemT][v]
                      ELSE Contents(h)[h.nodes[n].sMemF][v]]

LEMMA MergeContents ==
  ASSUME NEW h, HeapInv(h), NEW n \in Live(h),
         h.nodes[n].cells = <<>>, h.nodes[n].sMemT # NULL, h.nodes[n].sMemF # NULL
  PROVE  HoldsMerge(h, n)
<1> DEFINE m == h.nodes[n]
           arr == Contents(h)
<1>1. arr[n] = ArrayOf(h, arr, n) /\ m # Gone
  BY ContentsEquation DEF Live
<1>2. arr[n] = [v \in Valuation |-> [a \in Address |-> Newest(m.cells, v, a, Beneath(m, arr, v, a))]]
  BY <1>1, ArrayOfIs
<1>3. \A v \in Valuation, a \in Address :
        Newest(m.cells, v, a, Beneath(m, arr, v, a)) =
          IF v \in m.c THEN arr[m.sMemT][v][a] ELSE arr[m.sMemF][v][a]
  BY DEF Newest, Hits, Beneath
<1>4. m.sMemT \in Live(h) /\ m.sMemF \in Live(h)
  BY HeapFacts DEF Children
<1>5. /\ arr[m.sMemT] \in [Valuation -> [Address -> ByteOrNothing]]
      /\ arr[m.sMemF] \in [Valuation -> [Address -> ByteOrNothing]]
  BY <1>4, ContentsEquation DEF Array
<1> HIDE DEF m, arr
<1>6. \A v \in Valuation :
        [a \in Address |-> IF v \in m.c THEN arr[m.sMemT][v][a] ELSE arr[m.sMemF][v][a]] =
        IF v \in m.c THEN arr[m.sMemT][v] ELSE arr[m.sMemF][v]
  BY <1>5
<1>7. arr[n] = [v \in Valuation |-> [a \in Address |->
                  IF v \in m.c THEN arr[m.sMemT][v][a] ELSE arr[m.sMemF][v][a]]]
  BY <1>2, <1>3
<1>8. arr[n] = [v \in Valuation |-> IF v \in m.c THEN arr[m.sMemT][v] ELSE arr[m.sMemF][v]]
  BY <1>6, <1>7
<1> QED BY <1>8 DEF m, arr, HoldsMerge
-----------------------------------------------------------------------------
(***************************************************************************)
(* Stores.                                                                 *)
(***************************************************************************)
LEMMA MaxIs ==
  ASSUME NEW n \in Nat, NEW S, S \subseteq 0 .. n, NEW m \in S, \A k \in S : k <= m
  PROVE  Max(S) = m
<1>1. Max(S) \in S /\ \A k \in S : k <= Max(S)
  BY GreatestElement
<1>2. m <= Max(S) /\ Max(S) <= m
  BY <1>1
<1>3. Max(S) \in 0 .. n /\ m \in 0 .. n
  BY <1>1
<1> DEFINE M == Max(S)
<1> HIDE DEF M
<1> QED BY <1>2, <1>3 DEF M

LEMMA HitsAreIndices ==
  ASSUME NEW cells \in Seq(Cell), NEW v, NEW a
  PROVE  /\ Len(cells) \in Nat
         /\ Hits(cells, v, a) \subseteq 1 .. Len(cells)
         /\ Hits(cells, v, a) \subseteq 0 .. Len(cells)
BY DEF Hits

LEMMA RemoveCell ==
  ASSUME NEW cells \in Seq(Cell), NEW j \in 1 .. Len(cells)
  PROVE  LET r == RemoveAt(cells, j)
         IN  /\ r \in Seq(Cell) /\ Len(r) = Len(cells) - 1
             /\ \A i \in 1 .. Len(r) : r[i] = cells[IF i < j THEN i ELSE i + 1]
<1> DEFINE n == Len(cells)
           a == SubSeq(cells, 1, j - 1)
           b == SubSeq(cells, j + 1, n)
           r == RemoveAt(cells, j)
<1>1. n \in Nat /\ j \in 1 .. n
  OBVIOUS
<1>2. /\ \A i \in 1 .. j - 1 : cells[i] \in Cell
      /\ \A i \in j + 1 .. n : cells[i] \in Cell
  OBVIOUS
<1>3. /\ a \in Seq(Cell)
      /\ Len(a) = IF 1 <= j - 1 THEN (j - 1) - 1 + 1 ELSE 0
      /\ \A i \in 1 .. (j - 1) - 1 + 1 : a[i] = cells[1 + i - 1]
  <2>1. 1 \in Int /\ j - 1 \in Int
    BY <1>1
  <2> QED BY <1>2, <2>1, SubSeqProperties
<1>4. /\ b \in Seq(Cell)
      /\ Len(b) = IF j + 1 <= n THEN n - (j + 1) + 1 ELSE 0
      /\ \A i \in 1 .. n - (j + 1) + 1 : b[i] = cells[(j + 1) + i - 1]
  <2>1. j + 1 \in Int /\ n \in Int
    BY <1>1
  <2> QED BY <1>2, <2>1, SubSeqProperties
<1>5. r = a \o b
  BY DEF RemoveAt
<1> HIDE DEF a, b, r, n
<1>6. Len(a) = j - 1 /\ \A i \in 1 .. j - 1 : a[i] = cells[i]
  BY ONLY <1>1, <1>3
<1>7. Len(b) = n - j /\ \A i \in 1 .. n - j : b[i] = cells[j + i]
  <2>1. \A i \in 1 .. n - j : i \in 1 .. n - (j + 1) + 1 /\ (j + 1) + i - 1 = j + i
    BY <1>1
  <2> QED BY ONLY <1>1, <1>4, <2>1
<1>8. r \in Seq(Cell) /\ Len(r) = n - 1
  <2>1. a \in Seq(Cell) /\ b \in Seq(Cell) /\ r = a \o b
    BY <1>3, <1>4, <1>5
  <2>2. r \in Seq(Cell) /\ Len(r) = Len(a) + Len(b)
    BY ONLY <2>1
  <2>3. Len(a) + Len(b) = n - 1
    BY ONLY <1>1, <1>6, <1>7
  <2> QED BY ONLY <2>2, <2>3
<1>9. \A i \in 1 .. n - 1 : r[i] = IF i < j THEN a[i] ELSE b[i - (j - 1)]
  BY ONLY <1>1, <1>3, <1>4, <1>5, <1>6, <1>7
<1>10. \A i \in 1 .. n - 1 : r[i] = cells[IF i < j THEN i ELSE i + 1]
  <2> TAKE i \in 1 .. n - 1
  <2>1. CASE i < j
    BY <1>1, <1>6, <1>9, <2>1
  <2>2. CASE ~ (i < j)
    <3>1. i - (j - 1) \in 1 .. n - j /\ j + (i - (j - 1)) = i + 1
      BY <1>1, <2>2
    <3> QED BY <1>7, <1>9, <2>2, <3>1
  <2> QED BY <2>1, <2>2
<1> QED BY <1>8, <1>10 DEF r, n

\* Dropping a cell of another address, under the valuation, hides nothing.
LEMMA NewestAfterRemove ==
  ASSUME NEW cells \in Seq(Cell), NEW address, NEW v \in Valuation, NEW a, NEW base,
         address[v] # a
  PROVE  Newest(removeByte(cells, address), v, a, base) = Newest(cells, v, a, base)
<1> DEFINE same == {i \in DOMAIN cells : cells[i].address = address}
           j == Max(same)
           r == removeByte(cells, address)
           shift(i) == IF i < j THEN i ELSE i + 1
<1>1. CASE same = {}
  BY <1>1 DEF removeByte
<1>2. CASE same # {}
  <2>1. same \subseteq 0 .. Len(cells) /\ same \subseteq 1 .. Len(cells) /\ Len(cells) \in Nat
    OBVIOUS
  <2>2. j \in same
    <3> HIDE DEF same
    <3> QED BY <1>2, <2>1, GreatestElement
  <2>3. j \in 1 .. Len(cells) /\ cells[j].address = address
    BY <2>2
  <2>4. r = RemoveAt(cells, j)
    BY <1>2 DEF removeByte
  <2> HIDE DEF j, r
  <2>5. /\ r \in Seq(Cell) /\ Len(r) = Len(cells) - 1
        /\ \A i \in 1 .. Len(r) : r[i] = cells[shift(i)]
    BY <2>3, <2>4, RemoveCell
  <2>6. \A i \in 1 .. Len(r) : shift(i) \in 1 .. Len(cells)
    BY <2>1, <2>3, <2>5
  <2>7. \A i : i \in Hits(r, v, a) <=> i \in 1 .. Len(r) /\ r[i].address[v] = a
    BY <2>5 DEF Hits
  <2>8. \A i : i \in Hits(cells, v, a) <=> i \in 1 .. Len(cells) /\ cells[i].address[v] = a
    BY DEF Hits
  <2>9. \A i \in Hits(r, v, a) : shift(i) \in Hits(cells, v, a)
    <3> HIDE DEF shift
    <3> QED BY <2>5, <2>6, <2>7, <2>8
  <2>10. \A k \in Hits(cells, v, a) : \E i \in Hits(r, v, a) : k = shift(i)
    <3> TAKE k \in Hits(cells, v, a)
    <3>1. k \in 1 .. Len(cells) /\ k # j
      BY <2>3, <2>8
    <3> DEFINE i == IF k < j THEN k ELSE k - 1
    <3>2. i \in 1 .. Len(r) /\ shift(i) = k
      BY <2>1, <2>3, <2>5, <3>1
    <3> HIDE DEF i, shift
    <3>3. i \in Hits(r, v, a)
      BY <2>5, <2>7, <2>8, <3>2
    <3> QED BY <3>2, <3>3
  <2>11. CASE Hits(r, v, a) = {}
    <3>1. Hits(cells, v, a) = {}
      BY <2>10, <2>11
    <3> QED BY <2>11, <3>1 DEF Newest, r
  <2>12. CASE Hits(r, v, a) # {}
    <3> DEFINE i == Max(Hits(r, v, a))
    <3>1. i \in Hits(r, v, a) /\ \A k \in Hits(r, v, a) : k <= i
      BY <2>5, <2>12, NewestType
    <3> HIDE DEF i
    <3>2. shift(i) \in Hits(cells, v, a)
      BY <2>9, <3>1
    <3>3. \A k \in Hits(cells, v, a) : k <= shift(i)
      <4> TAKE k \in Hits(cells, v, a)
      <4>1. PICK l \in Hits(r, v, a) : k = shift(l)
        BY <2>10
      <4>2. l <= i /\ l \in Int /\ i \in Int
        BY <2>7, <3>1
      <4> QED BY <2>3, <4>1, <4>2
    <3> HIDE DEF shift
    <3>4. Max(Hits(cells, v, a)) = shift(i)
      BY <3>2, <3>3, HitsAreIndices, MaxIs
    <3>5. Newest(r, v, a, base) = r[i].value[v]
      BY <2>12 DEF Newest, i
    <3>6. Newest(cells, v, a, base) = cells[shift(i)].value[v]
      BY <3>2, <3>4 DEF Newest
    <3>7. i \in 1 .. Len(r)
      BY <2>7, <3>1
    <3> QED BY <2>5, <3>5, <3>6, <3>7 DEF r
  <2> QED BY <2>11, <2>12
<1> QED BY <1>1, <1>2

LEMMA NewestAfterAppend ==
  ASSUME NEW cells \in Seq(Cell), NEW x \in Cell, NEW v \in Valuation, NEW a, NEW base
  PROVE  Newest(Append(cells, x), v, a, base) =
           IF x.address[v] = a THEN x.value[v] ELSE Newest(cells, v, a, base)
<1> DEFINE s == Append(cells, x)
           n == Len(cells)
<1>1. /\ s \in Seq(Cell) /\ Len(s) = n + 1 /\ n \in Nat
      /\ s[n + 1] = x /\ \A i \in 1 .. n : s[i] = cells[i]
  OBVIOUS
<1> HIDE DEF s
<1>2. \A i : i \in Hits(s, v, a) <=> i \in 1 .. n + 1 /\ s[i].address[v] = a
  BY <1>1 DEF Hits
<1>3. \A i : i \in Hits(cells, v, a) <=> i \in 1 .. n /\ cells[i].address[v] = a
  BY DEF Hits
<1>4. CASE x.address[v] = a
  <2>1. n + 1 \in Hits(s, v, a) /\ \A k \in Hits(s, v, a) : k <= n + 1
    BY <1>1, <1>2, <1>4
  <2>2. Max(Hits(s, v, a)) = n + 1
    BY <1>1, <2>1, HitsAreIndices, MaxIs
  <2> QED BY <1>1, <1>4, <2>1, <2>2 DEF Newest, s
<1>5. CASE x.address[v] # a
  <2>1. Hits(s, v, a) = Hits(cells, v, a)
    <3>1. \A i : i \in Hits(s, v, a) <=> i \in Hits(cells, v, a)
      <4> TAKE i
      <4>1. CASE i \in 1 .. n
        <5>1. i \in 1 .. n + 1 /\ s[i] = cells[i]
          BY <1>1, <4>1
        <5> QED BY <1>2, <1>3, <4>1, <5>1
      <4>2. CASE i = n + 1
        <5>1. i \notin 1 .. n /\ s[i] = x
          BY <1>1, <4>2
        <5> QED BY <1>2, <1>3, <1>5, <5>1
      <4>3. CASE i \notin 1 .. n /\ i # n + 1
        <5>1. i \notin 1 .. n + 1
          BY <1>1, <4>3
        <5> QED BY <1>2, <1>3, <4>3, <5>1
      <4> QED BY <4>1, <4>2, <4>3
    <3> QED BY <3>1
  <2>2. CASE Hits(cells, v, a) = {}
    BY <1>5, <2>1, <2>2 DEF Newest, s
  <2>3. CASE Hits(cells, v, a) # {}
    <3>1. Max(Hits(cells, v, a)) \in 1 .. n
      BY <1>3, <2>3, NewestType
    <3> QED BY <1>1, <1>5, <2>1, <2>3, <3>1 DEF Newest, s
  <2> QED BY <2>2, <2>3
<1> QED BY <1>4, <1>5

LEMMA NewestAfterStore ==
  ASSUME NEW cells \in Seq(Cell), NEW address \in [Valuation -> Address],
         NEW byte \in ByteVector, NEW v \in Valuation, NEW a, NEW base
  PROVE  Newest(storeByte(cells, address, byte), v, a, base) =
           IF address[v] = a THEN byte[v] ELSE Newest(cells, v, a, base)
<1> DEFINE r == removeByte(cells, address)
           x == [address |-> address, value |-> byte]
<1>1. r \in Seq(Cell)
  BY RemoveByteType
<1>2. x \in Cell /\ x.address = address /\ x.value = byte
  BY DEF Cell, ByteVector
<1>3. storeByte(cells, address, byte) = Append(r, x)
  BY DEF storeByte
<1>4. address[v] # a => Newest(r, v, a, base) = Newest(cells, v, a, base)
  BY NewestAfterRemove
<1> HIDE DEF r, x
<1> QED BY <1>1, <1>2, <1>3, <1>4, NewestAfterAppend

\* The bytes of a word, of its first k, that land on an address.
Landing(address, v, a, k) == {j \in 0 .. k - 1 : (address[v] + j) % AddressModulus = a}

LEMMA LandingNext ==
  ASSUME NEW address, NEW v, NEW a, NEW k \in Nat \ {0}
  PROVE  Landing(address, v, a, k) =
           Landing(address, v, a, k - 1) \cup
             (IF (address[v] + (k - 1)) % AddressModulus = a THEN {k - 1} ELSE {})
<1> DEFINE lands(j) == (address[v] + j) % AddressModulus = a
<1>1. \A j : j \in Landing(address, v, a, k) <=> j \in 0 .. k - 1 /\ lands(j)
  BY DEF Landing
<1>2. \A j : j \in Landing(address, v, a, k - 1) <=> j \in 0 .. (k - 1) - 1 /\ lands(j)
  BY DEF Landing
<1> HIDE DEF lands
<1>3. \A j : j \in 0 .. k - 1 <=> j \in 0 .. (k - 1) - 1 \/ j = k - 1
  OBVIOUS
<1>4. \A j : j \in Landing(address, v, a, k) <=>
               j \in Landing(address, v, a, k - 1) \/ (j = k - 1 /\ lands(k - 1))
  BY <1>1, <1>2, <1>3
<1>5. Landing(address, v, a, k) =
        Landing(address, v, a, k - 1) \cup (IF lands(k - 1) THEN {k - 1} ELSE {})
  BY <1>4
<1> QED BY <1>5 DEF lands

LEMMA LandingIsBounded ==
  ASSUME NEW address, NEW v, NEW a, NEW k \in Nat
  PROVE  /\ Landing(address, v, a, k) \subseteq 0 .. k
         /\ \A j \in Landing(address, v, a, k) : j \in 0 .. k - 1
BY DEF Landing

\* A word over what the cells said before.
Written(address, word, big_endian, v, a, k, before) ==
  IF Landing(address, v, a, k) = {} THEN before
  ELSE ByteAt(word, big_endian, Max(Landing(address, v, a, k)))[v]

LEMMA NewestAfterWord ==
  ASSUME NEW cells \in Seq(Cell), NEW address \in [Valuation -> Address],
         NEW word \in Seq(ByteVector), NEW big_endian \in BOOLEAN,
         NEW v \in Valuation, NEW a, NEW base
  PROVE  Newest(StoreWord(cells, address, word, big_endian), v, a, base) =
           Written(address, word, big_endian, v, a, Len(word), Newest(cells, v, a, base))
<1> DEFINE n == Len(word)
           L(k) == Landing(address, v, a, k)
           byte(k) == ByteAt(word, big_endian, k)
           before == Newest(cells, v, a, base)
<1>1. PICK stored \in [0 .. n -> Seq(Cell)] :
             StoresWord(cells, address, word, big_endian, stored)
  BY StoreWordIs
<1>2. /\ stored[0] = cells
      /\ \A k \in 1 .. n : stored[k] = StoreStep(address, word, big_endian, k, stored[k - 1])
      /\ StoreWord(cells, address, word, big_endian) = stored[n]
  BY <1>1 DEF StoresWord
<1> DEFINE Is(k) == Newest(stored[k], v, a, base) =
                      Written(address, word, big_endian, v, a, k, before)
           G == {k \in 0 .. n : Is(k)}
<1>3. n \in Nat
  OBVIOUS
<1>4. 0 \in G
  <2>1. L(0) = {}
    BY DEF Landing
  <2> QED BY <1>2, <1>3, <2>1 DEF Written
<1>5. ASSUME NEW k \in 1 .. n, k - 1 \in G PROVE k \in G
  <2>1. k \in 0 .. n /\ k - 1 \in 0 .. n /\ k \in Nat \ {0} /\ k - 1 \in Nat /\ k - 1 \in Int
    BY <1>3
  <2>2. byte(k - 1) \in ByteVector
    <3>1. n - (k - 1) \in 1 .. n /\ (k - 1) + 1 \in 1 .. n
      BY <1>3
    <3>2. word[n - (k - 1)] \in ByteVector /\ word[(k - 1) + 1] \in ByteVector
      BY <3>1
    <3> QED BY <3>2 DEF ByteAt
  <2> DEFINE at == vec_plus(address, k - 1)
  <2>3. at \in [Valuation -> Address] /\ at[v] = (address[v] + (k - 1)) % AddressModulus
    <3>1. at[v] = (address[v] + (k - 1)) % AddressModulus
      BY DEF vec_plus
    <3> QED BY <2>1, <3>1, PlusType
  <2>4. stored[k] = storeByte(stored[k - 1], at, byte(k - 1))
    BY <1>2 DEF StoreStep
  <2>5. stored[k - 1] \in Seq(Cell)
    BY <1>1, <2>1
  <2>6. Newest(stored[k - 1], v, a, base) =
          Written(address, word, big_endian, v, a, k - 1, before)
    BY <1>5
  <2>7. L(k) = L(k - 1) \cup (IF at[v] = a THEN {k - 1} ELSE {})
    <3> HIDE DEF at
    <3>1. L(k) = L(k - 1) \cup
            (IF (address[v] + (k - 1)) % AddressModulus = a THEN {k - 1} ELSE {})
      BY <2>1, LandingNext
    <3> QED BY <2>3, <3>1
  <2> HIDE DEF at, L, byte, before
  <2>8. Newest(stored[k], v, a, base) =
          IF at[v] = a THEN byte(k - 1)[v] ELSE Newest(stored[k - 1], v, a, base)
    BY <2>2, <2>3, <2>4, <2>5, NewestAfterStore
  <2>9. CASE at[v] = a
    <3>1. L(k) \subseteq 0 .. k /\ \A j \in L(k) : j \in 0 .. k - 1
      BY <2>1, LandingIsBounded DEF L
    <3>2. k - 1 \in L(k)
      BY <2>7, <2>9
    <3>3. \A j \in L(k) : j <= k - 1
      BY <2>1, <3>1
    <3>4. Max(L(k)) = k - 1
      BY <2>1, <3>1, <3>2, <3>3, MaxIs
    <3> QED BY <2>1, <2>8, <2>9, <3>2, <3>4 DEF Written, L, byte
  <2>10. CASE at[v] # a
    <3>1. L(k) = L(k - 1)
      BY <2>7, <2>10
    <3> QED BY <2>1, <2>6, <2>8, <2>10, <3>1 DEF Written, L
  <2> QED BY <2>9, <2>10
<1> HIDE DEF G
<1>6. n \in G
  <2>1. 0 .. n \subseteq G
    BY <1>3, <1>4, <1>5, UpTo
  <2> QED BY <1>3, <2>1
<1> QED BY <1>2, <1>6 DEF G

\* A store into a memory that no node refers to changes that memory only.
CellsSet(g, h, m, cells) == g = [h EXCEPT !.nodes[m].cells = cells]

CellsSeen(g, h, m, cells) ==
  /\ \A n \in Live(h) \ {m} : Contents(g)[n] = Contents(h)[n]
  /\ Contents(g)[m] = [v \in Valuation |-> [a \in Address |->
       Newest(cells, v, a, Beneath(h.nodes[m], Contents(h), v, a))]]

LEMMA ContentsAfterCells ==
  ASSUME NEW h, HeapInv(h), NEW m \in Live(h), Unshared(h, m),
         NEW cells \in Seq(Cell), NEW g, CellsSet(g, h, m, cells)
  PROVE  CellsSeen(g, h, m, cells)
<1> USE DEF CellsSet
<1> DEFINE f == Contents(g)
           e == Contents(h)
           T == {n \in Live(h) \ {m} : f[n] # e[n]}
<1>1. HeapInv(g) /\ SameShape(g, h)
  BY StoreKeepsHeap
<1>2. /\ \A n \in Live(g) : f[n] = ArrayOf(g, f, n)
      /\ \A n \in Live(h) : e[n] = ArrayOf(h, e, n)
  BY <1>1, ContentsEquation
<1>3. /\ Live(g) = Live(h)
      /\ \A n \in Live(h) : Children(g, n) = Children(h, n)
      /\ \A n \in Live(h) : Children(h, n) \subseteq Live(h) \ {m}
  <2>1. \A n \in Live(h) : Children(h, n) \subseteq Live(h) /\ m \notin Children(h, n)
    BY HeapFacts DEF Unshared
  <2> QED BY <1>1, <2>1, ShapeReaches DEF SameShape
<1>4. /\ \A n \in Node \ {m} : g.nodes[n] = h.nodes[n]
      /\ g.nodes[m] = [h.nodes[m] EXCEPT !.cells = cells]
      /\ h.nodes[m] \in sMemory /\ m \in Node
  <2>1. h.nodes \in [Node -> sMemory \cup {Gone}] /\ m \in Node /\ h.nodes[m] \in sMemory
    BY HeapFacts DEF HeapInv, HeapType
  <2>2. g.nodes = [h.nodes EXCEPT ![m] = [h.nodes[m] EXCEPT !.cells = cells]]
    BY DEF HeapInv, HeapType
  <2> QED BY <2>1, <2>2
<1> HIDE DEF f, e
<1>5. T = {}
  <2> SUFFICES ASSUME T # {} PROVE FALSE
    OBVIOUS
  <2>1. PICK n \in T : Children(h, n) \cap T = {}
    BY DEF HeapInv, Graph, WellFounded
  <2>2. n \in Live(h) /\ n # m /\ f[n] # e[n] /\ n \in Node
    BY <2>1, HeapFacts
  <2>3. \A c \in Children(g, n) : f[c] = e[c]
    BY <1>3, <2>1, <2>2
  <2>4. ArrayOf(g, f, n) = ArrayOf(g, e, n)
    BY <2>3, ArrayOfIsLocal
  <2>5. ArrayOf(g, e, n) = ArrayOf(h, e, n)
    <3>1. g.nodes[n] = h.nodes[n] /\ h.nodes[n] # Gone
      BY <1>4, <2>2 DEF Live
    <3>2. ArrayOf(g, e, n) = [v \in Valuation |-> [a \in Address |->
                               Newest(g.nodes[n].cells, v, a, Beneath(g.nodes[n], e, v, a))]]
      BY ONLY <3>1, ArrayOfIs
    <3>3. ArrayOf(h, e, n) = [v \in Valuation |-> [a \in Address |->
                               Newest(h.nodes[n].cells, v, a, Beneath(h.nodes[n], e, v, a))]]
      BY ONLY <3>1, ArrayOfIs
    <3> QED BY ONLY <3>1, <3>2, <3>3
  <2> QED BY <1>2, <1>3, <2>2, <2>4, <2>5
<1>6. f[m] = [v \in Valuation |-> [a \in Address |->
                Newest(cells, v, a, Beneath(h.nodes[m], e, v, a))]]
  <2>1. m \in Live(g) /\ g.nodes[m] # Gone
    BY <1>3 DEF Live
  <2>2. g.nodes[m].cells = cells
    BY <1>4 DEF sMemory
  <2>3. f[m] = [v \in Valuation |-> [a \in Address |->
                  Newest(g.nodes[m].cells, v, a, Beneath(g.nodes[m], f, v, a))]]
    BY ONLY <1>2, <2>1, ArrayOfIs
  <2>4. \A v, a : Beneath(g.nodes[m], f, v, a) = Beneath(h.nodes[m], e, v, a)
    <3> DEFINE x == h.nodes[m]
    <3>1. \A c \in Children(h, m) : f[c] = e[c]
      BY <1>3, <1>5
    <3>2. (x.sMemT # NULL => f[x.sMemT] = e[x.sMemT]) /\ (x.sMemF # NULL => f[x.sMemF] = e[x.sMemF])
      BY <3>1 DEF Children
    <3>3. g.nodes[m].sMemT = x.sMemT /\ g.nodes[m].sMemF = x.sMemF /\ g.nodes[m].c = x.c
      BY <1>4 DEF sMemory
    <3> HIDE DEF x
    <3>4. \A v, a : Beneath(g.nodes[m], f, v, a) = Beneath(x, e, v, a)
      BY <3>2, <3>3 DEF Beneath
    <3> QED BY <3>4 DEF x
  <2> DEFINE y == g.nodes[m]
             x == h.nodes[m]
  <2> HIDE DEF x, y
  <2>5. \A v, a : Newest(y.cells, v, a, Beneath(y, f, v, a)) = Newest(cells, v, a, Beneath(x, e, v, a))
    BY ONLY <2>2, <2>4 DEF x, y
  <2>6. f[m] = [v \in Valuation |-> [a \in Address |-> Newest(y.cells, v, a, Beneath(y, f, v, a))]]
    BY ONLY <2>3 DEF y
  <2>7. f[m] = [v \in Valuation |-> [a \in Address |-> Newest(cells, v, a, Beneath(x, e, v, a))]]
    BY ONLY <2>5, <2>6
  <2> QED BY ONLY <2>7 DEF x
<1> QED BY ONLY <1>5, <1>6 DEF f, e, CellsSeen

\* What a store of a word makes of the contents of a memory.
LEMMA ContentsAfterStore ==
  ASSUME NEW h, HeapInv(h), NEW m \in Live(h), Unshared(h, m),
         NEW address \in [Valuation -> Address], NEW word \in Seq(ByteVector),
         NEW big_endian \in BOOLEAN,
         NEW g, g = [h EXCEPT !.nodes[m].cells = StoreWord(@, address, word, big_endian)]
  PROVE  /\ \A n \in Live(h) \ {m} : Contents(g)[n] = Contents(h)[n]
         /\ Contents(g)[m] = [v \in Valuation |-> [a \in Address |->
              Written(address, word, big_endian, v, a, Len(word), Contents(h)[m][v][a])]]
<1> DEFINE x == h.nodes[m]
           cells == StoreWord(x.cells, address, word, big_endian)
           under(v, a) == Beneath(x, Contents(h), v, a)
<1>1. x \in sMemory /\ x # Gone /\ x.cells \in Seq(Cell)
  BY HeapFacts DEF sMemory, Live
<1>2. g = [h EXCEPT !.nodes[m].cells = cells] /\ cells \in Seq(Cell)
  BY <1>1, StoreWordType
<1>3. Contents(h)[m] = [v \in Valuation |-> [a \in Address |-> Newest(x.cells, v, a, under(v, a))]]
  BY <1>1, ContentsEquation, ArrayOfIs
<1>4. \A v \in Valuation, a \in Address :
        Newest(cells, v, a, under(v, a)) =
          Written(address, word, big_endian, v, a, Len(word), Newest(x.cells, v, a, under(v, a)))
  <2> HIDE DEF x, under
  <2> QED BY <1>1, NewestAfterWord
<1>5. /\ \A n \in Live(h) \ {m} : Contents(g)[n] = Contents(h)[n]
      /\ Contents(g)[m] = [v \in Valuation |-> [a \in Address |-> Newest(cells, v, a, under(v, a))]]
  <2> DEFINE new == cells
  <2>1. CellsSet(g, h, m, new) /\ new \in Seq(Cell)
    BY <1>2 DEF CellsSet
  <2> HIDE DEF new
  <2>2. CellsSeen(g, h, m, new)
    BY <2>1, ContentsAfterCells
  <2>3. /\ \A n \in Live(h) \ {m} : Contents(g)[n] = Contents(h)[n]
        /\ Contents(g)[m] = [v \in Valuation |-> [a \in Address |->
             Newest(new, v, a, Beneath(h.nodes[m], Contents(h), v, a))]]
    BY ONLY <2>2 DEF CellsSeen
  <2> QED BY ONLY <2>3 DEF new
<1> DEFINE old == Contents(h)[m]
           result(v, a, before) == Written(address, word, big_endian, v, a, Len(word), before)
<1>6. \A v \in Valuation, a \in Address : old[v][a] = Newest(x.cells, v, a, under(v, a))
  BY ONLY <1>3
<1> HIDE DEF old, result
<1>7. \A v \in Valuation, a \in Address : Newest(cells, v, a, under(v, a)) = result(v, a, old[v][a])
  BY ONLY <1>4, <1>6 DEF result
<1> HIDE DEF x, cells, under
<1>8. Contents(g)[m] = [v \in Valuation |-> [a \in Address |-> result(v, a, old[v][a])]]
  BY ONLY <1>5, <1>7
<1> QED BY ONLY <1>5, <1>8 DEF old, result
-----------------------------------------------------------------------------
(***************************************************************************)
(* Loads.                                                                  *)
(***************************************************************************)
\* What a load makes of the contents of an address.
AsRead(x) == IF x = Nothing THEN 0 ELSE x

\* What sMemory_loadByte merges the cells of a node onto.
ByteUnder(m, address, val) ==
  CASE Perfect(m.cells, address) -> vec_zero_byte
    [] ~Perfect(m.cells, address) /\ m.sMemT = NULL -> vec_zero_byte
    [] ~Perfect(m.cells, address) /\ m.sMemT # NULL /\ m.sMemF = NULL
         -> val[m.sMemT]
    [] OTHER -> vec_ite(m.c, val[m.sMemT], val[m.sMemF])

LEMMA PerfectHits ==
  ASSUME NEW cells \in Seq(Cell), NEW address, NEW v \in Valuation
  PROVE  /\ Perfect(cells, address) => Hits(cells, v, address[v]) # {}
         /\ Hits(cells, v, address[v]) # {} <=> v \in Matching(cells, address)
<1>1. ASSUME NEW i \in DOMAIN cells
      PROVE  v \in vec_equal(address, cells[i].address) <=> i \in Hits(cells, v, address[v])
  BY DEF vec_equal, Hits
<1>2. Hits(cells, v, address[v]) \subseteq DOMAIN cells
  BY DEF Hits
<1> QED BY <1>1, <1>2 DEF Perfect, Matching, Const1

\* Newest under one valuation is what sMem_stackMerge gives.
BaseReads(cells, address, v, base, x) ==
  Hits(cells, v, address[v]) = {} => base[v] = AsRead(x)

MergeReads(cells, address, v, base, x) ==
  stackMerge(cells, address, base)[v] = AsRead(Newest(cells, v, address[v], x))

LEMMA MergeIsNewest ==
  ASSUME NEW cells \in Seq(Cell), NEW address, NEW v \in Valuation, NEW base, NEW x,
         BaseReads(cells, address, v, base, x)
  PROVE  MergeReads(cells, address, v, base, x)
<1> USE DEF BaseReads, MergeReads
<1> DEFINE hits == Hits(cells, v, address[v])
<1>1. stackMerge(cells, address, base)[v] =
        IF hits = {} THEN base[v] ELSE cells[Max(hits)].value[v]
  BY DEF stackMerge, Hits
<1>2. Newest(cells, v, address[v], x) = IF hits = {} THEN x ELSE cells[Max(hits)].value[v]
  BY DEF Newest
<1>3. hits # {} => Newest(cells, v, address[v], x) \in Byte
  BY NewestType
<1>4. hits # {} => Newest(cells, v, address[v], x) # Nothing
  BY <1>3, SymbolicMemoryAssumption
<1> HIDE DEF hits
<1> QED BY <1>1, <1>2, <1>4 DEF AsRead, hits

ChildrenRead(m, address, v, val, arr) ==
  /\ m.sMemT # NULL => val[m.sMemT][v] = AsRead(arr[m.sMemT][v][address[v]])
  /\ m.sMemF # NULL => val[m.sMemF][v] = AsRead(arr[m.sMemF][v][address[v]])

UnderReads(m, address, v, val, arr) ==
  BaseReads(m.cells, address, v, ByteUnder(m, address, val), Beneath(m, arr, v, address[v]))

LEMMA UnderIsBeneath ==
  ASSUME NEW m \in sMemory, NEW address, NEW v \in Valuation, NEW val, NEW arr,
         ChildrenRead(m, address, v, val, arr)
  PROVE  UnderReads(m, address, v, val, arr)
<1> USE DEF ChildrenRead
<1> SUFFICES ASSUME Hits(m.cells, v, address[v]) = {}
             PROVE  ByteUnder(m, address, val)[v] = AsRead(Beneath(m, arr, v, address[v]))
  BY DEF UnderReads, BaseReads
<1>1. ~ Perfect(m.cells, address)
  BY PerfectHits DEF sMemory
<1>2. CASE m.sMemT = NULL
  <2>1. ByteUnder(m, address, val) = vec_zero_byte /\ Beneath(m, arr, v, address[v]) = Nothing
    BY <1>1, <1>2 DEF ByteUnder, Beneath
  <2> QED BY <2>1 DEF vec_zero_byte, vec_getConstant, AsRead
<1>3. CASE m.sMemT # NULL /\ m.sMemF = NULL
  <2>1. /\ ByteUnder(m, address, val) = val[m.sMemT]
        /\ Beneath(m, arr, v, address[v]) = arr[m.sMemT][v][address[v]]
    BY <1>1, <1>3 DEF ByteUnder, Beneath
  <2> QED BY <1>3, <2>1
<1>4. CASE m.sMemT # NULL /\ m.sMemF # NULL
  <2>1. /\ ByteUnder(m, address, val) = vec_ite(m.c, val[m.sMemT], val[m.sMemF])
        /\ Beneath(m, arr, v, address[v]) =
             IF v \in m.c THEN arr[m.sMemT][v][address[v]] ELSE arr[m.sMemF][v][address[v]]
    BY <1>1, <1>4 DEF ByteUnder, Beneath
  <2>2. ByteUnder(m, address, val)[v] = IF v \in m.c THEN val[m.sMemT][v] ELSE val[m.sMemF][v]
    BY <2>1 DEF vec_ite
  <2> QED BY <1>4, <2>1, <2>2
<1> QED BY <1>2, <1>3, <1>4

Fresh(h) == \A n \in Live(h) : ~ Memoized(h, n)

\* A load whose flag no node has reads the array.
LEMMA ByteIsRead ==
  ASSUME NEW h, HeapInv(h), Fresh(h), NEW address \in [Valuation -> Address]
  PROVE  \A n \in Live(h), v \in Valuation :
           ByteValue(h, address)[n][v] = AsRead(Contents(h)[n][v][address[v]])
<1> DEFINE val == ByteValue(h, address)
           arr == Contents(h)
           Reads(n) == \A v \in Valuation : val[n][v] = AsRead(arr[n][v][address[v]])
           T == {n \in Live(h) : ~ Reads(n)}
<1>1. \A n \in Live(h) : val[n] = ValueOf(h, address, val, n)
  BY ByteValues
<1>2. \A n \in Live(h) : arr[n] = ArrayOf(h, arr, n)
  BY ContentsEquation
<1> HIDE DEF val, arr
<1>3. T = {}
  <2> SUFFICES ASSUME T # {} PROVE FALSE
    OBVIOUS
  <2>1. PICK n \in T : Children(h, n) \cap T = {}
    BY DEF HeapInv, Graph, WellFounded
  <2> DEFINE m == h.nodes[n]
  <2>2. n \in Live(h) /\ m \in sMemory /\ m # Gone /\ Children(h, n) \subseteq Live(h)
    BY <2>1, HeapFacts DEF Live
  <2>3. \A c \in Children(h, n) : Reads(c)
    BY <2>1, <2>2
  <2>4. (m.sMemT # NULL => Reads(m.sMemT)) /\ (m.sMemF # NULL => Reads(m.sMemF))
    <3> HIDE DEF Reads
    <3> QED BY <2>3 DEF Children
  <2>5. val[n] = stackMerge(m.cells, address, ByteUnder(m, address, val))
    BY <1>1, <2>2 DEF Fresh, ValueOf, ByteUnder
  <2>6. arr[n] = [v \in Valuation |-> [a \in Address |-> Newest(m.cells, v, a, Beneath(m, arr, v, a))]]
    BY <1>2, <2>2, ArrayOfIs
  <2>7. m.cells \in Seq(Cell)
    BY <2>2 DEF sMemory
  <2> HIDE DEF m
  <2>8. ASSUME NEW v \in Valuation
        PROVE  val[n][v] = AsRead(arr[n][v][address[v]])
    <3> DEFINE base == ByteUnder(m, address, val)
               x == Beneath(m, arr, v, address[v])
    <3>1. ChildrenRead(m, address, v, val, arr)
      BY <2>4 DEF ChildrenRead
    <3>2. BaseReads(m.cells, address, v, base, x)
      <4>1. UnderReads(m, address, v, val, arr)
        BY <2>2, <3>1, UnderIsBeneath
      <4> QED BY <4>1 DEF UnderReads
    <3>3. arr[n][v][address[v]] = Newest(m.cells, v, address[v], x)
      BY <2>6
    <3> HIDE DEF base, x
    <3>4. MergeReads(m.cells, address, v, base, x)
      BY <2>7, <3>2, MergeIsNewest
    <3> QED BY <2>5, <3>3, <3>4 DEF base, MergeReads
  <2>9. Reads(n)
    BY <2>8
  <2> QED BY <2>1, <2>9
<1> HIDE DEF Reads
<1>4. \A n \in Live(h) : Reads(n)
  BY <1>3
<1> QED BY <1>4 DEF Reads, val, arr

\* writtenTo admits what was stored.
LEMMA StoresAreWritten ==
  ASSUME NEW h, HeapInv(h), Fresh(h), NEW address \in [Valuation -> Address]
  PROVE  \A n \in Live(h), v \in Valuation :
           Contents(h)[n][v][address[v]] # Nothing => v \in ByteWritten(h, address)[n]
<1> DEFINE written == ByteWritten(h, address)
           arr == Contents(h)
           Admits(n) == \A v \in Valuation :
                          arr[n][v][address[v]] # Nothing => v \in written[n]
           T == {n \in Live(h) : ~ Admits(n)}
<1>1. \A n \in Live(h) : written[n] = WrittenOf(h, address, written, n)
  BY BytesWritten
<1>2. \A n \in Live(h) : arr[n] = ArrayOf(h, arr, n)
  BY ContentsEquation
<1> HIDE DEF written, arr
<1>3. T = {}
  <2> SUFFICES ASSUME T # {} PROVE FALSE
    OBVIOUS
  <2>1. PICK n \in T : Children(h, n) \cap T = {}
    BY DEF HeapInv, Graph, WellFounded
  <2> DEFINE m == h.nodes[n]
  <2>2. n \in Live(h) /\ m \in sMemory /\ m # Gone /\ Children(h, n) \subseteq Live(h)
    BY <2>1, HeapFacts DEF Live
  <2>3. \A c \in Children(h, n) : Admits(c)
    BY <2>1, <2>2
  <2>4. (m.sMemT # NULL => Admits(m.sMemT)) /\ (m.sMemF # NULL => Admits(m.sMemF))
    <3> HIDE DEF Admits
    <3> QED BY <2>3 DEF Children
  <2>5. arr[n] = [v \in Valuation |-> [a \in Address |-> Newest(m.cells, v, a, Beneath(m, arr, v, a))]]
    BY <1>2, <2>2, ArrayOfIs
  <2>6. m.cells \in Seq(Cell)
    BY <2>2 DEF sMemory
  <2>7. written[n] =
          CASE Perfect(m.cells, address) -> Const1
            [] ~Perfect(m.cells, address) /\ m.sMemT = NULL -> Matching(m.cells, address)
            [] ~Perfect(m.cells, address) /\ m.sMemT # NULL /\ m.sMemF = NULL
                 -> HashOr(Matching(m.cells, address), written[m.sMemT])
            [] OTHER -> HashOr(HashMux(m.c, written[m.sMemT], written[m.sMemF]),
                               HashOr(m.c, Matching(m.cells, address)))
    BY <1>1, <2>2 DEF Fresh, WrittenOf
  <2> HIDE DEF m
  <2>8. ASSUME NEW v \in Valuation, arr[n][v][address[v]] # Nothing
        PROVE  v \in written[n]
    <3>1. CASE Hits(m.cells, v, address[v]) # {}
      <4>1. v \in Matching(m.cells, address)
        BY <2>6, <3>1, PerfectHits
      <4> QED BY <2>7, <4>1 DEF Const1, HashOr
    <3>2. CASE Hits(m.cells, v, address[v]) = {}
      <4>1. ~ Perfect(m.cells, address)
        BY <2>6, <3>2, PerfectHits
      <4>2. arr[n][v][address[v]] = Beneath(m, arr, v, address[v])
        BY <2>5, <3>2 DEF Newest
      <4>3. m.sMemT # NULL
        BY <2>8, <4>2 DEF Beneath
      <4>4. CASE m.sMemF = NULL
        BY <2>4, <2>7, <2>8, <4>1, <4>2, <4>3, <4>4 DEF Beneath, HashOr
      <4>5. CASE m.sMemF # NULL
        <5>1. v \in m.c => v \in written[m.sMemT]
          BY <2>4, <2>8, <4>2, <4>3, <4>5 DEF Beneath
        <5>2. v \notin m.c => v \in written[m.sMemF]
          BY <2>4, <2>8, <4>2, <4>3, <4>5 DEF Beneath
        <5> QED BY <2>7, <4>1, <4>3, <4>5, <5>1, <5>2 DEF HashOr, HashMux
      <4> QED BY <4>4, <4>5
    <3> QED BY <3>1, <3>2
  <2>9. Admits(n)
    BY <2>8
  <2> QED BY <2>1, <2>9
<1> HIDE DEF Admits
<1>4. \A n \in Live(h) : Admits(n)
  BY <1>3
<1> QED BY <1>4 DEF Admits, written, arr

\* The node a load starts at is computed anew and keeps what was found.
LEMMA LoadByteWrites ==
  ASSUME NEW h, HeapInv(h), Fresh(h), NEW m \in Live(h), NEW address \in [Valuation -> Address]
  PROVE  loadByte(h, m, address).nodes[m].writtenTo = ByteWritten(h, address)[m]
<1> DEFINE val == ByteValue(h, address)
           written == ByteWritten(h, address)
           visited == Visited(h, address)[m]
           memo(n) == [h.nodes[n] EXCEPT !.memoized_flag = h.CurrsMemFlag,
                                         !.memoized_value = val[n],
                                         !.writtenTo = written[n]]
<1>1. m \in visited
  <2>1. visited = VisitedFrom(h, address, Visited(h, address), m)
    BY NodesVisited DEF HeapInv
  <2> QED BY <2>1 DEF Fresh, VisitedFrom
<1>2. m \in Node /\ h.nodes[m] \in sMemory /\ HeapType(h)
  BY HeapFacts DEF HeapInv
<1>3. loadByte(h, m, address) =
        [h EXCEPT !.nodes = [n \in Node |-> IF n \in visited THEN memo(n) ELSE h.nodes[n]]]
  BY DEF loadByte
<1> HIDE DEF val, written, visited
<1>4. loadByte(h, m, address).nodes[m] = memo(m)
  BY <1>1, <1>2, <1>3 DEF HeapType
<1>5. memo(m).writtenTo = written[m]
  BY <1>2 DEF sMemory
<1> QED BY <1>4, <1>5 DEF written

\* What a byte of a load gives, and what it says was stored.
ReadVector(h, m, at) == [v \in Valuation |-> AsRead(Contents(h)[m][v][at[v]])]

StoredIn(h, m, at) == {v \in Valuation : Contents(h)[m][v][at[v]] # Nothing}

LEMMA LoadStepReads ==
  ASSUME NEW h, HeapInv(h), NEW m \in Live(h), NEW at \in [Valuation -> Address],
         NEW d \in Loading(h)
  PROVE  /\ LoadStep(m, at, d).bytes = Append(d.bytes, ReadVector(h, m, at))
         /\ StoredIn(h, m, at) \subseteq LoadStep(m, at, d).heap.nodes[m].writtenTo
<1> DEFINE g == NextFlag(d.heap)
           byte == ByteValue(g, at)[m]
<1>1. Remarked(d.heap, h) /\ d.bytes \in Seq(ByteVector) /\ HeapInv(d.heap)
  BY DEF Loading, Remarked
<1>2. Remarked(g, d.heap) /\ g.CurrsMemFlag = d.heap.CurrsMemFlag + 1
  BY <1>1, NextFlagRemarks
<1>3. Remarked(g, h)
  BY <1>1, <1>2, RemarkedIsTransitive
<1>4. HeapInv(g) /\ Live(g) = Live(h) /\ Contents(g)[m] = Contents(h)[m]
  BY <1>3, RemarkedContents DEF Remarked
<1>5. Fresh(g)
  <2>1. g.nodes = d.heap.nodes /\ Live(g) = Live(d.heap)
    BY <1>1 DEF NextFlag, HeapInv, HeapType, Live
  <2>2. ASSUME NEW n \in Live(g) PROVE ~ Memoized(g, n)
    <3>1. /\ g.nodes[n].memoized_flag = d.heap.nodes[n].memoized_flag
          /\ d.heap.nodes[n].memoized_flag \in Nat
          /\ d.heap.nodes[n].memoized_flag <= d.heap.CurrsMemFlag
          /\ d.heap.CurrsMemFlag \in Nat
      BY <1>1, <2>1, HeapFacts
    <3>2. g.nodes[n].memoized_flag # g.CurrsMemFlag
      BY ONLY <1>2, <3>1
    <3> QED BY <3>2 DEF Memoized
  <2> QED BY <2>2 DEF Fresh
<1>6. LoadStep(m, at, d) = [heap |-> loadByte(g, m, at), bytes |-> Append(d.bytes, byte)]
  BY DEF LoadStep
<1> HIDE DEF g
<1>7. byte = ReadVector(h, m, at)
  <2>1. byte \in [Valuation -> Byte]
    BY <1>4, ByteValues DEF ByteVector
  <2>2. \A v \in Valuation : byte[v] = AsRead(Contents(g)[m][v][at[v]])
    BY <1>4, <1>5, ByteIsRead
  <2> HIDE DEF byte
  <2>3. byte = [v \in Valuation |-> AsRead(Contents(g)[m][v][at[v]])]
    BY <2>1, <2>2
  <2> QED BY <1>4, <2>3 DEF ReadVector
<1>8. loadByte(g, m, at).nodes[m].writtenTo = ByteWritten(g, at)[m]
  BY <1>4, <1>5, LoadByteWrites
<1>9. \A v \in Valuation : Contents(g)[m][v][at[v]] # Nothing => v \in ByteWritten(g, at)[m]
  BY <1>4, <1>5, StoresAreWritten
<1> HIDE DEF byte
<1>10. LoadStep(m, at, d).bytes = Append(d.bytes, byte) /\ LoadStep(m, at, d).heap = loadByte(g, m, at)
  BY <1>6
<1> QED BY <1>4, <1>7, <1>8, <1>9, <1>10 DEF StoredIn

LoadReads(h, m, address, size, big_endian) ==
  LET load == LoadWord(h, m, address, size, big_endian)
      at(k) == LoadAt(address, size, big_endian, k)
  IN  /\ load.bytes = [k \in 1 .. size |-> ReadVector(h, m, at(k))]
      /\ size # 0 => StoredIn(h, m, at(size)) \subseteq load.heap.nodes[m].writtenTo

\* A load of a word reads the array, and writtenTo admits its last byte.
LEMMA LoadWordReads ==
  ASSUME NEW h, HeapInv(h), NEW m \in Live(h), NEW address \in [Valuation -> Address],
         NEW size \in Nat, NEW big_endian \in BOOLEAN
  PROVE  LoadReads(h, m, address, size, big_endian)
<1> DEFINE at(k) == LoadAt(address, size, big_endian, k)
           byte(k) == ReadVector(h, m, at(k))
<1>1. PICK done \in [0 .. size -> Loading(h)] :
             LoadsWord(h, m, address, size, big_endian, done)
  BY LoadWordIs
<1>2. /\ done[0] = [heap |-> h, bytes |-> <<>>]
      /\ \A k \in 1 .. size : done[k] = LoadStep(m, at(k), done[k - 1])
      /\ LoadWord(h, m, address, size, big_endian).heap = done[size].heap
      /\ LoadWord(h, m, address, size, big_endian).bytes = done[size].bytes
  BY <1>1 DEF LoadsWord
<1>3. \A k \in 0 .. size : done[k] \in Loading(h) /\ done[k].bytes \in Seq(ByteVector)
  BY <1>1 DEF Loading
<1>4. \A k \in 1 .. size : at(k) \in [Valuation -> Address]
  <2> TAKE k \in 1 .. size
  <2> DEFINE j == IF big_endian THEN size - k ELSE k - 1
  <2>1. j \in Int
    OBVIOUS
  <2>2. at(k) = vec_plus(address, j)
    BY DEF LoadAt
  <2> HIDE DEF j, at
  <2> QED BY <2>1, <2>2, PlusType
<1> HIDE DEF at, byte
<1>5. ASSUME NEW k \in 1 .. size
      PROVE  /\ done[k].bytes = Append(done[k - 1].bytes, byte(k))
             /\ StoredIn(h, m, at(k)) \subseteq done[k].heap.nodes[m].writtenTo
  <2>1. done[k - 1] \in Loading(h)
    BY <1>1
  <2>2. done[k] = LoadStep(m, at(k), done[k - 1]) /\ at(k) \in [Valuation -> Address]
    BY <1>2, <1>4
  <2> QED BY <2>1, <2>2, LoadStepReads DEF byte
<1> DEFINE Is(k) == Len(done[k].bytes) = k /\ \A i \in 1 .. k : done[k].bytes[i] = byte(i)
           G == {k \in 0 .. size : Is(k)}
<1>6. 0 \in G
  BY <1>2
<1>7. ASSUME NEW k \in 1 .. size, k - 1 \in G PROVE k \in G
  <2> DEFINE s == done[k - 1].bytes
             t == done[k].bytes
  <2>1. s \in Seq(ByteVector) /\ k - 1 \in 0 .. size
    BY <1>3
  <2>2. Len(s) = k - 1 /\ \A i \in 1 .. k - 1 : s[i] = byte(i)
    BY <1>7
  <2>3. t = Append(s, byte(k))
    BY <1>5
  <2> HIDE DEF s, t
  <2>4. Len(t) = k /\ t[k] = byte(k) /\ \A i \in 1 .. k - 1 : t[i] = s[i]
    BY <2>1, <2>2, <2>3
  <2>5. Is(k)
    BY <2>2, <2>4 DEF t
  <2> QED BY <2>5
<1> HIDE DEF G
<1>8. size \in G
  <2>1. 0 .. size \subseteq G
    BY <1>6, <1>7, UpTo
  <2> QED BY <2>1
<1>9. done[size].bytes = [k \in 1 .. size |-> byte(k)]
  <2> DEFINE s == done[size].bytes
  <2>1. s \in Seq(ByteVector) /\ Len(s) = size /\ \A i \in 1 .. size : s[i] = byte(i)
    BY <1>3, <1>8 DEF G
  <2> HIDE DEF s
  <2>2. s = [i \in 1 .. Len(s) |-> s[i]]
    BY <2>1
  <2> QED BY <2>1, <2>2 DEF s
<1>10. size # 0 => StoredIn(h, m, at(size)) \subseteq done[size].heap.nodes[m].writtenTo
  BY <1>5
<1> QED BY <1>2, <1>9, <1>10 DEF LoadReads, at, byte
-----------------------------------------------------------------------------
(***************************************************************************)
(* The refinement.  What the promise sees of a heap and its frames is the  *)
(* contents of the memories they hold.                                     *)
(***************************************************************************)
OpenedFrame(h, x) ==
  [c |-> x.c, side |-> x.side, orig |-> Contents(h)[x.orig], other |-> Contents(h)[x.other],
   t_failed |-> x.t_error = 1]

Opened(h, fs) == [k \in 1 .. Len(fs) |-> OpenedFrame(h, fs[k])]

LEMMA OpenedAgree ==
  ASSUME NEW g, NEW h, NEW fs, Len(fs) \in Nat,
         \A n \in WaitingFor(fs) : Contents(g)[n] = Contents(h)[n]
  PROVE  Opened(g, fs) = Opened(h, fs)
<1>1. \A k \in 1 .. Len(fs) : /\ Contents(g)[fs[k].orig] = Contents(h)[fs[k].orig]
                              /\ Contents(g)[fs[k].other] = Contents(h)[fs[k].other]
  BY DEF WaitingFor
<1>2. \A k \in 1 .. Len(fs) : OpenedFrame(g, fs[k]) = OpenedFrame(h, fs[k])
  BY <1>1 DEF OpenedFrame
<1> QED BY ONLY <1>2 DEF Opened

\* The promise as its refinement mapping makes it.
LEMMA MappedState ==
  ASSUME TRUE
  PROVE  /\ Memory[memory] = Contents(heap)[memory]
         /\ (Memory[memory])' = Contents(heap')[memory']
BY DEF Memory

LEMMA LatestIsMax ==
  ASSUME NEW n \in Nat, NEW S, S \subseteq 0 .. n, S # {}
  PROVE  (CHOOSE k \in S : \A j \in S : j <= k) = Max(S)
<1>1. Max(S) \in S /\ \A j \in S : j <= Max(S)
  BY GreatestElement
<1> DEFINE x == CHOOSE k \in S : \A j \in S : j <= k
<1>2. x \in S /\ \A j \in S : j <= x
  BY <1>1
<1> HIDE DEF x
<1> QED BY <1>2, MaxIs DEF x

LEMMA HeldFacts ==
  ASSUME Inv
  PROVE  /\ HeapInv(heap) /\ memory \in Live(heap) /\ Unshared(heap, memory)
         /\ frames \in Seq(Frame) /\ Len(frames) \in Nat
         /\ WaitingFor(frames) \subseteq Live(heap) \ {memory}
<1>1. Structure(heap, memory, frames)
  BY DEF Inv
<1>2. memory \notin WaitingFor(frames)
  BY <1>1 DEF Structure, Distinct, WaitingFor
<1> QED BY <1>1, <1>2, StructureFacts DEF Structure

LEMMA StoreImplements ==
  ASSUME Inv, NEW address \in Vectors, NEW big_endian \in BOOLEAN, NEW word \in Words,
         Store(address, word, big_endian)
  PROVE  Promise!Store(address, word, big_endian)
<1> DEFINE before == Contents(heap)[memory]
           n == Len(word)
           hits(v, a) == {k \in 0 .. n - 1 : Promise!At(address, v, k) = a}
<1>1. /\ HeapInv(heap) /\ memory \in Live(heap) /\ Unshared(heap, memory)
      /\ Len(frames) \in Nat /\ WaitingFor(frames) \subseteq Live(heap) \ {memory}
  BY HeldFacts
<1>2. address \in [Valuation -> Address] /\ word \in Seq(ByteVector) /\ n \in Nat
  BY SymbolicMemoryAssumption DEF ByteVector
<1>3. /\ heap' = [heap EXCEPT !.nodes[memory].cells = StoreWord(@, address, word, big_endian)]
      /\ UNCHANGED <<memory, branch_error, frames, loaded>>
  BY DEF Store
<1>4. /\ \A m \in Live(heap) \ {memory} : Contents(heap')[m] = Contents(heap)[m]
      /\ Contents(heap')[memory] = [v \in Valuation |-> [a \in Address |->
           Written(address, word, big_endian, v, a, n, before[v][a])]]
  BY <1>1, <1>2, <1>3, ContentsAfterStore
<1>5. Opened(heap', frames) = Opened(heap, frames)
  BY <1>1, <1>4, OpenedAgree
<1>6. \A v, a : hits(v, a) = Landing(address, v, a, n)
  BY DEF Landing, Promise!At
<1> DEFINE new(v, a) ==
             IF hits(v, a) = {} THEN before[v][a]
             ELSE LET k == CHOOSE k \in hits(v, a) : \A j \in hits(v, a) : j <= k
                  IN  Promise!ByteAt(word, big_endian, k)[v]
           old(v, a) == Written(address, word, big_endian, v, a, n, before[v][a])
<1>7. \A v, a : old(v, a) = new(v, a)
  <2> HIDE DEF hits
  <2> TAKE v, a
  <2>1. hits(v, a) \subseteq 0 .. n
    BY <1>2, <1>6, LandingIsBounded
  <2>2. CASE hits(v, a) = {}
    BY <1>6, <2>2 DEF Written
  <2>3. CASE hits(v, a) # {}
    <3>1. (CHOOSE k \in hits(v, a) : \A j \in hits(v, a) : j <= k) = Max(hits(v, a))
      BY <1>2, <2>1, <2>3, LatestIsMax
    <3> QED BY <1>6, <2>3, <3>1 DEF Written, ByteAt, Promise!ByteAt
  <2> QED BY <2>2, <2>3
<1>8. Contents(heap')[memory] = [v \in Valuation |-> [a \in Address |-> new(v, a)]]
  <2>1. Contents(heap')[memory] = [v \in Valuation |-> [a \in Address |-> old(v, a)]]
    BY ONLY <1>4
  <2> HIDE DEF new, old
  <2> QED BY ONLY <1>7, <2>1
<1> QED BY <1>3, <1>5, <1>8 DEF Promise!Store, Memory, Opened, OpenedFrame, Address, Promise!Address

LEMMA RemarkedImplements ==
  ASSUME Inv, Remarked(heap', heap), UNCHANGED <<memory, frames>>
  PROVE  /\ Contents(heap')[memory'] = Contents(heap)[memory]
         /\ Opened(heap', frames') = Opened(heap, frames)
<1>1. \A n \in Live(heap) : Contents(heap')[n] = Contents(heap)[n]
  BY HeldFacts, RemarkedContents
<1> QED BY <1>1, HeldFacts, OpenedAgree

LEMMA LoadImplements ==
  ASSUME Inv, NEW address \in Vectors, NEW big_endian \in BOOLEAN, NEW size \in LoadSizes,
         Load(address, size, big_endian)
  PROVE  Promise!Load(address, size, big_endian)
<1> DEFINE load == LoadWord(heap, memory, address, size, big_endian)
           at(k) == LoadAt(address, size, big_endian, k)
           offset(k) == IF big_endian THEN size - k ELSE k - 1
<1>1. /\ heap' = load.heap /\ loaded'.bytes = load.bytes
      /\ UNCHANGED <<memory, branch_error, frames>>
  BY DEF Load
<1>2. address \in [Valuation -> Address] /\ size \in Nat
  BY SymbolicMemoryAssumption
<1>3. Remarked(heap', heap)
  BY <1>1, <1>2, HeldFacts, LoadWordRemarks
<1>4. /\ Contents(heap')[memory'] = Contents(heap)[memory]
      /\ Opened(heap', frames') = Opened(heap, frames)
  BY <1>1, <1>3, RemarkedImplements
<1>5. load.bytes = [k \in 1 .. size |-> ReadVector(heap, memory, at(k))]
  BY <1>2, HeldFacts, LoadWordReads DEF LoadReads
<1>6. \A k : ReadVector(heap, memory, at(k)) =
               [v \in Valuation |-> Promise!Contents(v, Promise!At(address, v, offset(k)))]
  <2> TAKE k
  <2> HIDE DEF offset
  <2>1. at(k) = [v \in Valuation |-> Promise!At(address, v, offset(k))]
    BY DEF LoadAt, vec_plus, Promise!At, offset
  <2> HIDE DEF at
  <2>2. \A v \in Valuation : AsRead(Contents(heap)[memory][v][at(k)[v]]) =
                               Promise!Contents(v, Promise!At(address, v, offset(k)))
    BY <2>1 DEF AsRead, Promise!Contents, Memory
  <2> QED BY ONLY <2>2 DEF ReadVector
<1>7. load.bytes = [k \in 1 .. size |-> [v \in Valuation |->
                      Promise!Contents(v, Promise!At(address, v, offset(k)))]]
  <2> HIDE DEF load, at, offset
  <2> QED BY ONLY <1>5, <1>6
<1> HIDE DEF load
<1> QED BY <1>1, <1>4, <1>7 DEF Promise!Load, Memory, Opened, OpenedFrame

\* A sequence of frames with one more, one changed and one less.
LEMMA OpenedAppend ==
  ASSUME NEW h, NEW fs \in Seq(Frame), NEW x \in Frame
  PROVE  Opened(h, Append(fs, x)) = Append(Opened(h, fs), OpenedFrame(h, x))
<1> DEFINE n == Len(fs)
           gs == Append(fs, x)
           seen(y) == OpenedFrame(h, y)
           T == {seen(y) : y \in Frame}
           s == [k \in 1 .. n |-> seen(fs[k])]
<1>1. n \in Nat /\ Len(gs) = n + 1 /\ gs[n + 1] = x /\ \A k \in 1 .. n : gs[k] = fs[k]
  BY AppendFrame
<1>2. \A k \in 1 .. n : fs[k] \in Frame
  OBVIOUS
<1> HIDE DEF n, gs, seen
<1>3. s \in Seq(T) /\ seen(x) \in T /\ Len(s) = n /\ \A k \in 1 .. n : s[k] = seen(fs[k])
  BY <1>1, <1>2
<1> HIDE DEF s, T
<1>4. /\ Append(s, seen(x)) \in Seq(T) /\ Len(Append(s, seen(x))) = n + 1
      /\ Append(s, seen(x))[n + 1] = seen(x)
      /\ \A k \in 1 .. n : Append(s, seen(x))[k] = s[k]
  BY <1>1, <1>3
<1> DEFINE t == Append(s, seen(x))
<1> HIDE DEF t
<1>5. \A k \in 1 .. n + 1 : t[k] = seen(gs[k])
  <2> TAKE k \in 1 .. n + 1
  <2>1. CASE k = n + 1
    BY <1>1, <1>4, <2>1 DEF t
  <2>2. CASE k # n + 1
    <3>1. k \in 1 .. n
      BY <1>1, <2>2
    <3> QED BY <1>1, <1>3, <1>4, <3>1 DEF t
  <2> QED BY <2>1, <2>2
<1>6. t = [k \in 1 .. n + 1 |-> t[k]]
  <2>1. t \in Seq(T) /\ Len(t) = n + 1
    BY <1>4 DEF t
  <2>2. t = [k \in 1 .. Len(t) |-> t[k]]
    BY <2>1
  <2> QED BY ONLY <2>1, <2>2
<1>7. t = [k \in 1 .. n + 1 |-> seen(gs[k])]
  BY ONLY <1>5, <1>6
<1> QED BY <1>1, <1>7 DEF t, s, n, gs, seen, Opened

Updates(c, side, o, p, b, new, q, d) ==
  [[c |-> c, side |-> side, orig |-> o, other |-> p, t_failed |-> b]
     EXCEPT !.side = new, !.other = q, !.t_failed = d] =
  [c |-> c, side |-> new, orig |-> o, other |-> q, t_failed |-> d]

LEMMA FrameUpdate ==
  ASSUME NEW c, NEW side, NEW o, NEW p, NEW b, NEW new, NEW q, NEW d
  PROVE  Updates(c, side, o, p, b, new, q, d)
<1> DEFINE R == [c : {c}, side : {side, new}, orig : {o}, other : {p, q}, t_failed : {b, d}]
           r == [c |-> c, side |-> side, orig |-> o, other |-> p, t_failed |-> b]
           w == [r EXCEPT !.side = new, !.other = q, !.t_failed = d]
<1>1. r \in R
  OBVIOUS
<1>2. w \in R
  BY <1>1
<1>3. w.c = c /\ w.side = new /\ w.orig = o /\ w.other = q /\ w.t_failed = d
  BY <1>1
<1> HIDE DEF w, r
<1>4. w = [c |-> w.c, side |-> w.side, orig |-> w.orig, other |-> w.other, t_failed |-> w.t_failed]
  BY <1>2
<1> QED BY <1>3, <1>4 DEF w, r, Updates

Switched(fs, m, error) ==
  [fs EXCEPT ![Len(fs)] = [@ EXCEPT !.side = FALSE, !.other = m, !.t_error = error]]

SwitchSeen(h, fs, m, error) ==
  Opened(h, Switched(fs, m, error)) =
    [Opened(h, fs) EXCEPT ![Len(Opened(h, fs))] =
       [@ EXCEPT !.side = FALSE, !.other = Contents(h)[m], !.t_failed = (error = 1)]]

LEMMA OpenedSwitch ==
  ASSUME NEW h, NEW fs \in Seq(Frame), fs # <<>>, NEW m \in Node, NEW error \in {0, 1}
  PROVE  SwitchSeen(h, fs, m, error)
<1> DEFINE n == Len(fs)
           gs == Switched(fs, m, error)
           x == fs[n]
           y == [x EXCEPT !.side = FALSE, !.other = m, !.t_error = error]
           seen(z) == OpenedFrame(h, z)
           w == [seen(x) EXCEPT !.side = FALSE, !.other = Contents(h)[m], !.t_failed = (error = 1)]
           s == Opened(h, fs)
<1>1. n \in Nat /\ n \in 1 .. n /\ x \in Frame
  OBVIOUS
<1>2. gs = [fs EXCEPT ![n] = y]
  BY DEF Switched
<1>3. y.c = x.c /\ y.side = FALSE /\ y.orig = x.orig /\ y.other = m /\ y.t_error = error
  BY <1>1 DEF Frame
<1>4. seen(y) = w
  <2> HIDE DEF x, y
  <2>1. seen(y) = [c |-> x.c, side |-> FALSE, orig |-> Contents(h)[x.orig],
                   other |-> Contents(h)[m], t_failed |-> (error = 1)]
    BY <1>3 DEF OpenedFrame
  <2> DEFINE o == Contents(h)[x.orig]
             p == Contents(h)[x.other]
             q == Contents(h)[m]
             b == x.t_error = 1
             d == error = 1
  <2>2. seen(x) = [c |-> x.c, side |-> x.side, orig |-> o, other |-> p, t_failed |-> b]
    BY DEF OpenedFrame
  <2>3. w = [seen(x) EXCEPT !.side = FALSE, !.other = q, !.t_failed = d]
    OBVIOUS
  <2>4. seen(y) = [c |-> x.c, side |-> FALSE, orig |-> o, other |-> q, t_failed |-> d]
    BY <2>1
  <2> HIDE DEF o, p, q, b, d, w, seen
  <2>5. w = [c |-> x.c, side |-> FALSE, orig |-> o, other |-> q, t_failed |-> d]
    <3>1. Updates(x.c, x.side, o, p, b, FALSE, q, d)
      BY FrameUpdate
    <3> QED BY ONLY <2>2, <2>3, <3>1 DEF Updates
  <2> QED BY ONLY <2>4, <2>5
<1> HIDE DEF x, y, w, seen, gs
<1>5. Len(gs) = n /\ \A k \in 1 .. n : gs[k] = IF k = n THEN y ELSE fs[k]
  BY <1>1, <1>2 DEF n
<1>6. s = [k \in 1 .. n |-> seen(fs[k])]
  BY DEF Opened, seen
<1>7. Len(s) = n
  BY <1>1, <1>6
<1>8. [s EXCEPT ![n] = w] = [k \in 1 .. n |-> IF k = n THEN w ELSE seen(fs[k])]
  BY ONLY <1>1, <1>6
<1>9. \A k \in 1 .. n : seen(gs[k]) = IF k = n THEN w ELSE seen(fs[k])
  BY ONLY <1>4, <1>5
<1>10. Opened(h, gs) = [k \in 1 .. n |-> seen(gs[k])]
  BY ONLY <1>5 DEF Opened, seen
<1>11. Opened(h, gs) = [s EXCEPT ![n] = w]
  BY ONLY <1>8, <1>9, <1>10
<1>12. s[n] = seen(x)
  BY <1>1, <1>6 DEF x
<1> HIDE DEF s
<1> QED BY ONLY <1>7, <1>11, <1>12 DEF w, s, gs, SwitchSeen

LEMMA OpenedRest ==
  ASSUME NEW h, NEW fs \in Seq(Frame), fs # <<>>
  PROVE  Opened(h, SubSeq(fs, 1, Len(fs) - 1)) =
           SubSeq(Opened(h, fs), 1, Len(Opened(h, fs)) - 1)
<1> DEFINE n == Len(fs)
           rest == SubSeq(fs, 1, n - 1)
           seen(y) == OpenedFrame(h, y)
           s == [k \in 1 .. n |-> seen(fs[k])]
<1>1. n \in Nat /\ n >= 1 /\ Len(rest) = n - 1 /\ \A k \in 1 .. n - 1 : rest[k] = fs[k]
  <2>1. n \in Nat /\ n >= 1
    OBVIOUS
  <2>2. /\ Len(rest) = IF 1 <= n - 1 THEN (n - 1) - 1 + 1 ELSE 0
        /\ \A k \in 1 .. (n - 1) - 1 + 1 : rest[k] = fs[1 + k - 1]
    <3>1. 1 \in Int /\ n - 1 \in Int /\ \A k \in 1 .. n - 1 : fs[k] \in Frame
      BY <2>1
    <3> QED BY <3>1, SubSeqProperties
  <2>3. \A k \in 1 .. n - 1 : k \in 1 .. (n - 1) - 1 + 1 /\ 1 + k - 1 = k
    BY <2>1
  <2> HIDE DEF rest, n
  <2> QED BY <2>1, <2>2, <2>3
<1> HIDE DEF n, rest, seen
<1>2. Len(s) = n
  BY <1>1
<1>3. SubSeq(s, 1, n - 1) = [k \in 1 .. n - 1 |-> seen(fs[k])]
  <2> DEFINE T == {seen(fs[k]) : k \in 1 .. n}
             t == SubSeq(s, 1, n - 1)
  <2>1. 1 \in Int /\ n - 1 \in Int /\ \A k \in 1 .. n - 1 : s[k] \in T /\ s[k] = seen(fs[k])
    BY <1>1
  <2> HIDE DEF T, s
  <2>2. /\ t \in Seq(T)
        /\ Len(t) = IF 1 <= n - 1 THEN (n - 1) - 1 + 1 ELSE 0
        /\ \A k \in 1 .. (n - 1) - 1 + 1 : t[k] = s[1 + k - 1]
    BY <2>1, SubSeqProperties
  <2> HIDE DEF t
  <2>3. \A k \in 1 .. n - 1 : k \in 1 .. (n - 1) - 1 + 1 /\ 1 + k - 1 = k
    BY <1>1
  <2>4. Len(t) = n - 1 /\ \A k \in 1 .. n - 1 : t[k] = seen(fs[k])
    BY <1>1, <2>1, <2>2, <2>3
  <2>5. t = [k \in 1 .. n - 1 |-> t[k]]
    BY <2>2, <2>4
  <2>6. t = [k \in 1 .. n - 1 |-> seen(fs[k])]
    BY ONLY <2>4, <2>5
  <2> QED BY <2>6 DEF t
<1>4. Opened(h, rest) = [k \in 1 .. n - 1 |-> seen(fs[k])]
  BY ONLY <1>1 DEF Opened, seen
<1>5. Opened(h, fs) = s
  BY DEF Opened, seen, n
<1> HIDE DEF s
<1> QED BY <1>2, <1>3, <1>4, <1>5 DEF n, rest

LEMMA CopiesContents ==
  ASSUME NEW h, HeapInv(h), NEW m \in Live(h), NEW t, NEW g, NEW f, NEW e,
         Copied(h, m, t, g, f, e)
  PROVE  /\ \A n \in Live(h) : Contents(e)[n] = Contents(h)[n]
         /\ Contents(e)[t] = Contents(h)[m]
<1>1. /\ HeapInv(g) /\ HeapInv(e) /\ PartOf(h, g) /\ PartOf(g, e)
      /\ Live(g) = Live(h) \cup {t}
      /\ g.nodes[t].sMemT = m /\ g.nodes[t].sMemF = NULL /\ g.nodes[t].cells = <<>>
  BY DEF Copied
<1>2. \A n \in Live(h) : Contents(g)[n] = Contents(h)[n]
  BY <1>1, ContentsOfPart
<1>3. \A n \in Live(g) : Contents(e)[n] = Contents(g)[n]
  BY <1>1, ContentsOfPart
<1>4. m # NULL
  BY SymbolicMemoryAssumption DEF Live
<1>5. Contents(g)[t] = Contents(g)[m]
  <2>1. t \in Live(g)
    BY <1>1
  <2> QED BY <1>1, <1>4, <2>1, CopyContents
<1> QED BY <1>1, <1>2, <1>3, <1>5

LEMMA ForkImplements ==
  ASSUME Inv, NEW c \in Condition, Fork(c)
  PROVE  Promise!Fork(c)
<1> DEFINE t == NewNode(heap)
           g == sMemory_copy(heap, memory)
           f == NewNode(g)
           x == ForkFrame(c, memory, t, f)
           current == Contents(heap)[memory]
<1>1. /\ heap' = sMemory_copy(g, memory) /\ memory' = t /\ frames' = Append(frames, x)
      /\ UNCHANGED <<branch_error, loaded>>
      /\ branch_error = 0 /\ Cardinality(Node \ Live(heap)) >= 2
  BY DEF Fork, ForkFrame
<1>2. Copied(heap, memory, t, g, f, heap')
  <2>1. Copied(heap, memory, t, g, f, sMemory_copy(g, memory))
    BY <1>1, HeldFacts, TwoCopies
  <2> QED BY <1>1, <2>1
<1>3. t \in Node /\ f \in Node
  <2> HIDE DEF t, g, f
  <2> QED BY <1>2 DEF Copied
<1> HIDE DEF t, g, f
<1>4. /\ \A n \in Live(heap) : Contents(heap')[n] = Contents(heap)[n]
      /\ Contents(heap')[memory'] = current
  BY <1>1, <1>2, HeldFacts, CopiesContents
<1>5. x \in Frame
  <2>1. memory \in Node
    BY HeldFacts, HeapFacts
  <2> QED BY <1>3, <2>1 DEF ForkFrame, Frame
<1>6. /\ x.c = c /\ x.side = TRUE /\ x.orig = memory /\ x.other = f /\ x.t_error = 0
  BY DEF ForkFrame
<1>7. Contents(heap')[f] = current
  <2>1. /\ HeapInv(heap') /\ f \in Live(heap')
        /\ heap'.nodes[f].sMemT = memory /\ heap'.nodes[f].sMemF = NULL
        /\ heap'.nodes[f].cells = <<>>
    BY <1>2 DEF Copied
  <2>2. memory # NULL
    BY HeldFacts, SymbolicMemoryAssumption DEF Live
  <2>3. Contents(heap')[f] = Contents(heap')[memory]
    BY <2>1, <2>2, CopyContents
  <2> QED BY <1>4, <2>3, HeldFacts
<1> HIDE DEF x
<1>8. Opened(heap', frames') = Append(Opened(heap', frames), OpenedFrame(heap', x))
  BY <1>1, <1>5, HeldFacts, OpenedAppend
<1>9. Opened(heap', frames) = Opened(heap, frames)
  BY <1>4, HeldFacts, OpenedAgree
<1>10. OpenedFrame(heap', x) =
         [c |-> c, side |-> TRUE, orig |-> current, other |-> current, t_failed |-> FALSE]
  <2>1. Contents(heap')[x.orig] = current /\ Contents(heap')[x.other] = current
    BY <1>4, <1>6, <1>7, HeldFacts
  <2>2. (x.t_error = 1) = FALSE
    BY <1>6
  <2> HIDE DEF current
  <2> QED BY <1>6, <2>1, <2>2 DEF OpenedFrame
<1>11. Opened(heap', frames') =
         Append(Opened(heap, frames),
                [c |-> c, side |-> TRUE, orig |-> current, other |-> current, t_failed |-> FALSE])
  BY ONLY <1>8, <1>9, <1>10
<1>12. /\ (Memory[memory])' = Memory[memory]
       /\ (branch_error = 1)' = (branch_error = 1)
       /\ (loaded.bytes)' = loaded.bytes
       /\ ~ (branch_error = 1)
  BY <1>1, <1>4 DEF Memory
<1> HIDE DEF current
<1> QED BY ONLY <1>11, <1>12 DEF Promise!Fork, Memory, Opened, OpenedFrame, current

LEMMA TopIs ==
  ASSUME Inv, frames # <<>>
  PROVE  /\ Top \in Frame
         /\ Len(Opened(heap, frames)) = Len(frames)
         /\ Opened(heap, frames) # <<>>
         /\ Promise!Top = OpenedFrame(heap, Top)
<1>1. Len(frames) \in Nat /\ Len(frames) \in 1 .. Len(frames) /\ Top \in Frame
  BY HeldFacts DEF Top
<1>2. Len(Opened(heap, frames)) = Len(frames)
  BY <1>1 DEF Opened
<1>3. Opened(heap, frames) # <<>>
  BY <1>1, <1>2
<1>4. Opened(heap, frames)[Len(Opened(heap, frames))] = OpenedFrame(heap, Top)
  BY <1>1, <1>2 DEF Opened, Top
<1> QED BY <1>1, <1>2, <1>3, <1>4 DEF Promise!Top, Opened, OpenedFrame, Memory

LEMMA SwitchImplements ==
  ASSUME Inv, TrueSideDone
  PROVE  Promise!Switch
<1> DEFINE open == Opened(heap, frames)
           current == Contents(heap)[memory]
           gs == Switched(frames, memory, branch_error)
<1>1. /\ frames # <<>> /\ Top.side /\ memory' = Top.other /\ frames' = gs
      /\ branch_error' = 0 /\ UNCHANGED <<heap, loaded>>
  BY DEF TrueSideDone, Switched
<1>2. Top \in Frame /\ open # <<>> /\ Promise!Top = OpenedFrame(heap, Top)
  BY <1>1, TopIs
<1>3. Promise!Top.side /\ Promise!Top.other = Contents(heap)[Top.other]
  BY <1>1, <1>2 DEF OpenedFrame
<1>4. Opened(heap, gs) = [open EXCEPT ![Len(open)] =
        [@ EXCEPT !.side = FALSE, !.other = current, !.t_failed = (branch_error = 1)]]
  <2>1. frames \in Seq(Frame) /\ memory \in Node /\ branch_error \in {0, 1}
    BY HeldFacts, HeapFacts DEF Inv
  <2>2. SwitchSeen(heap, frames, memory, branch_error)
    BY <1>1, <2>1, OpenedSwitch
  <2> QED BY ONLY <2>2 DEF SwitchSeen
<1>5. Opened(heap', frames') = [open EXCEPT ![Len(open)] =
        [@ EXCEPT !.side = FALSE, !.other = current, !.t_failed = (branch_error = 1)]]
  <2> HIDE DEF gs, open, current
  <2> QED BY <1>1, <1>4
<1>6. Contents(heap')[memory'] = Promise!Top.other
  BY <1>1, <1>3
<1>7. (branch_error' = 1) = FALSE
  BY <1>1
<1> QED BY <1>1, <1>2, <1>3, <1>5, <1>6, <1>7
        DEF Promise!Switch, Memory, Opened, OpenedFrame

\* What is held after two memories were freed holds what it did.
LEMMA KeptContents ==
  ASSUME NEW h, HeapInv(h), NEW g, NEW a, NEW b, Without(g, h, a, b)
  PROVE  \A n \in h.sMemInitStack \ {a, b} : Contents(g)[n] = Contents(h)[n]
<1>1. HeapInv(g) /\ PartOf(g, h) /\ g.sMemInitStack = h.sMemInitStack \ {a, b}
  BY DEF Without
<1>2. g.sMemInitStack \subseteq Live(g)
  BY <1>1, HeapFacts
<1> QED BY <1>1, <1>2, ContentsOfPart

MergeSeen(h, o, c, t, m) ==
  LET e == sMemory_free(h, o)
      d == sMemory_ite(e, c, t, m)
  IN  /\ \A n \in h.sMemInitStack \ {o, t, m} : Contents(d)[n] = Contents(h)[n]
      /\ Contents(d)[IteNode(e, c, t, m)] =
           [v \in Valuation |-> IF v \in c THEN Contents(h)[t][v] ELSE Contents(h)[m][v]]

LEMMA MergedContents ==
  ASSUME NEW h, HeapInv(h), NEW o \in h.sMemInitStack, NEW t \in h.sMemInitStack,
         NEW m \in h.sMemInitStack, o # t, o # m, t # m, NEW c \in Literal,
         Live(sMemory_free(h, o)) # Node
  PROVE  MergeSeen(h, o, c, t, m)
<1> DEFINE e == sMemory_free(h, o)
           d == sMemory_ite(e, c, t, m)
           node == IteNode(e, c, t, m)
           chosen(v) == IF v \in c THEN Contents(h)[t][v] ELSE Contents(h)[m][v]
<1>1. Const0 # Const1
  BY SymbolicMemoryAssumption DEF Const0, Const1
<1>2. /\ Contents(h)[t] \in [Valuation -> [Address -> ByteOrNothing]]
      /\ Contents(h)[m] \in [Valuation -> [Address -> ByteOrNothing]]
  <2>1. t \in Live(h) /\ m \in Live(h)
    BY HeapFacts
  <2> QED BY <2>1, ContentsEquation DEF Array
<1>3. CASE c = Const0
  <2>1. d = sMemory_free(e, t) /\ node = m
    BY <1>1, <1>3 DEF sMemory_ite, IteNode
  <2>2. Without(d, h, o, t)
    BY <2>1, FreeBoth
  <2> HIDE DEF d, node, e
  <2>3. \A n \in h.sMemInitStack \ {o, t} : Contents(d)[n] = Contents(h)[n]
    BY <2>2, KeptContents
  <2>4. [v \in Valuation |-> chosen(v)] = Contents(h)[m]
    <3>1. \A v \in Valuation : chosen(v) = Contents(h)[m][v]
      BY <1>3 DEF Const0
    <3> HIDE DEF chosen
    <3> QED BY <1>2, <3>1
  <2> QED BY <2>1, <2>3, <2>4 DEF MergeSeen, d, e, node, chosen
<1>4. CASE c = Const1
  <2>1. d = sMemory_free(e, m) /\ node = t
    BY <1>1, <1>4 DEF sMemory_ite, IteNode
  <2>2. Without(d, h, o, m)
    BY <2>1, FreeBoth
  <2> HIDE DEF d, node, e
  <2>3. \A n \in h.sMemInitStack \ {o, m} : Contents(d)[n] = Contents(h)[n]
    BY <2>2, KeptContents
  <2>4. [v \in Valuation |-> chosen(v)] = Contents(h)[t]
    <3>1. \A v \in Valuation : chosen(v) = Contents(h)[t][v]
      BY <1>4 DEF Const1
    <3> HIDE DEF chosen
    <3> QED BY <1>2, <3>1
  <2> QED BY <2>1, <2>3, <2>4 DEF MergeSeen, d, e, node, chosen
<1>5. CASE c # Const0 /\ c # Const1
  <2> DEFINE g == sMemory_init(e, c, t, m)
             new == NewNode(e)
  <2>1. d = sMemory_free(sMemory_free(g, t), m) /\ node = new
    BY <1>5 DEF sMemory_ite, IteNode
  <2>2. HeapInv(e) /\ PartOf(e, h) /\ e.sMemInitStack = h.sMemInitStack \ {o}
    BY FreeKeepsOthers
  <2>3. Node \ Live(e) # {}
    BY DEF Live
  <2> HIDE DEF e, d
  <2>4. /\ t \in e.sMemInitStack /\ m \in e.sMemInitStack
        /\ e.sMemInitStack \subseteq Live(e)
    BY <2>2, HeapFacts
  <2>5. /\ HeapInv(g) /\ PartOf(e, g)
        /\ new \in Node /\ new \notin Live(e) /\ Live(g) = Live(e) \cup {new}
        /\ g.sMemInitStack = e.sMemInitStack \cup {new}
        /\ g.nodes[new].cells = <<>> /\ g.nodes[new].c = c
        /\ g.nodes[new].sMemT = t /\ g.nodes[new].sMemF = m
    BY <2>2, <2>3, <2>4, InitAddsNode
  <2> HIDE DEF g, new
  <2>6. Without(d, g, t, m)
    BY <2>1, <2>4, <2>5, FreeBoth
  <2>7. \A n \in g.sMemInitStack \ {t, m} : Contents(d)[n] = Contents(g)[n]
    BY <2>5, <2>6, KeptContents
  <2>8. \A n \in Live(e) : Contents(g)[n] = Contents(e)[n] /\ Contents(e)[n] = Contents(h)[n]
    BY <2>2, <2>5, ContentsOfPart
  <2>9. \A n \in h.sMemInitStack \ {o, t, m} : Contents(d)[n] = Contents(h)[n]
    BY <2>2, <2>4, <2>5, <2>7, <2>8
  <2>10. Contents(d)[new] = Contents(g)[new]
    BY <2>4, <2>5, <2>7
  <2>11. Contents(g)[new] =
           [v \in Valuation |-> IF v \in c THEN Contents(g)[t][v] ELSE Contents(g)[m][v]]
    <3>1. new \in Live(g) /\ t # NULL /\ m # NULL
      BY <2>4, <2>5, SymbolicMemoryAssumption DEF Live
    <3>2. HoldsMerge(g, new)
      BY <2>5, <3>1, MergeContents
    <3> QED BY ONLY <2>5, <3>2 DEF HoldsMerge
  <2>12. Contents(g)[t] = Contents(h)[t] /\ Contents(g)[m] = Contents(h)[m]
    BY <2>4, <2>8
  <2>13. Contents(d)[node] = [v \in Valuation |-> chosen(v)]
    BY <2>1, <2>10, <2>11, <2>12
  <2> HIDE DEF node
  <2> QED BY <2>9, <2>13 DEF MergeSeen, d, e, node, chosen
<1> QED BY <1>3, <1>4, <1>5

\* What the promise makes of the memory when a conditional is done.
Joined ==
  IF Top.t_error = 1
    THEN IF branch_error = 1 THEN Contents(heap)[Top.orig] ELSE Contents(heap)[memory]
    ELSE IF branch_error = 1 THEN Contents(heap)[Top.other]
         ELSE [v \in Valuation |-> IF v \in Top.c THEN Contents(heap)[Top.other][v]
                                   ELSE Contents(heap)[memory][v]]

Resting == heap.sMemInitStack \ {memory, Top.orig, Top.other}

LEMMA JoinImplements ==
  ASSUME Inv, FalseSideDone,
         \A n \in Resting : Contents(heap')[n] = Contents(heap)[n],
         Contents(heap')[memory'] = Joined,
         branch_error' = 1 <=> Top.t_error = 1 /\ branch_error = 1
  PROVE  Promise!Join
<1> DEFINE open == Opened(heap, frames)
<1>1. frames # <<>> /\ ~ Top.side /\ frames' = SubSeq(frames, 1, Len(frames) - 1)
      /\ loaded' = loaded
  BY DEF FalseSideDone
<1>2. Top \in Frame /\ open # <<>> /\ Promise!Top = OpenedFrame(heap, Top)
  BY <1>1, TopIs
<1>3. /\ ~ Promise!Top.side
      /\ Promise!Top.c = Top.c
      /\ Promise!Top.orig = Contents(heap)[Top.orig]
      /\ Promise!Top.other = Contents(heap)[Top.other]
      /\ Promise!Top.t_failed = (Top.t_error = 1)
  BY <1>1, <1>2 DEF OpenedFrame
<1>4. Opened(heap', frames') = SubSeq(open, 1, Len(open) - 1)
  <2>1. Under(heap, memory, frames, frames', Top)
    BY <1>1, RestOfFrames DEF Top, Inv
  <2>2. frames' \in Seq(Frame) /\ WaitingFor(frames') = Resting
    BY <2>1 DEF Under, Resting
  <2>3. Len(frames') \in Nat
    BY <2>2
  <2>4. Opened(heap', frames') = Opened(heap, frames')
    BY <2>2, <2>3, OpenedAgree
  <2>5. Opened(heap, SubSeq(frames, 1, Len(frames) - 1)) = SubSeq(open, 1, Len(open) - 1)
    BY <1>1, HeldFacts, OpenedRest
  <2> HIDE DEF open
  <2> QED BY <1>1, <2>4, <2>5
<1>5. (Memory[memory])' =
        CASE Promise!Top.t_failed /\ branch_error = 1 -> Promise!Top.orig
          [] Promise!Top.t_failed /\ ~ (branch_error = 1) -> Memory[memory]
          [] ~ Promise!Top.t_failed /\ branch_error = 1 -> Promise!Top.other
          [] OTHER -> [v \in Valuation |->
                         IF v \in Promise!Top.c THEN Promise!Top.other[v] ELSE Memory[memory][v]]
  <2>1. (Memory[memory])' = Joined /\ Memory[memory] = Contents(heap)[memory]
    BY DEF Memory
  <2> HIDE DEF Promise!Top
  <2> QED BY <1>3, <2>1 DEF Joined
<1>6. (branch_error = 1)' = (Promise!Top.t_failed /\ branch_error = 1)
  <2> HIDE DEF Promise!Top
  <2> QED BY <1>3
<1>7. (loaded.bytes)' = loaded.bytes
  BY <1>1
<1> QED BY ONLY <1>2, <1>3, <1>4, <1>5, <1>6, <1>7
        DEF Promise!Join, Memory, Opened, OpenedFrame

LEMMA KeepImplements ==
  ASSUME Inv, KeepNeither \/ KeepFalse \/ KeepTrue
  PROVE  Promise!Join
<1> DEFINE o == Top.orig
           t == Top.other
<1>1. FalseSideDone
  BY DEF KeepNeither, KeepFalse, KeepTrue
<1>2. HeapInv(heap) /\ {memory, o, t} \subseteq heap.sMemInitStack
      /\ memory # o /\ memory # t /\ o # t
  <2>1. Under(heap, memory, frames, frames', Top)
    BY <1>1, RestOfFrames DEF Top, Inv, FalseSideDone
  <2> QED BY <2>1, HeldFacts DEF Under
<1> DEFINE Kept(a, b, r) == heap' = sMemory_free(sMemory_free(heap, a), b) /\ memory' = r
<1>3. ASSUME NEW a \in {memory, o, t}, NEW b \in {memory, o, t}, NEW r \in {memory, o, t},
             a # b, r # a, r # b, Kept(a, b, r)
      PROVE  /\ \A n \in Resting : Contents(heap')[n] = Contents(heap)[n]
             /\ Contents(heap')[memory'] = Contents(heap)[r]
  <2> HIDE DEF o, t
  <2>1. a \in heap.sMemInitStack /\ b \in heap.sMemInitStack /\ r \in heap.sMemInitStack
    BY <1>2
  <2>2. Without(heap', heap, a, b)
    BY <1>2, <1>3, <2>1, FreeBoth
  <2>3. \A n \in heap.sMemInitStack \ {a, b} : Contents(heap')[n] = Contents(heap)[n]
    BY <1>2, <2>2, KeptContents
  <2>4. Resting \subseteq heap.sMemInitStack \ {a, b}
    BY DEF Resting, o, t
  <2> QED BY <1>3, <2>1, <2>3, <2>4
<1>4. CASE KeepNeither
  <2>1. Kept(t, memory, o) /\ branch_error = 1 /\ Top.t_error = 1 /\ branch_error' = branch_error
    BY <1>4 DEF KeepNeither
  <2>2. /\ \A n \in Resting : Contents(heap')[n] = Contents(heap)[n]
        /\ Contents(heap')[memory'] = Contents(heap)[o]
    <3> HIDE DEF o, t, Kept
    <3> QED BY <1>2, <1>3, <2>1
  <2> QED BY <1>1, <2>1, <2>2, JoinImplements DEF Joined
<1>5. CASE KeepFalse
  <2>1. Kept(o, t, memory) /\ branch_error = 0 /\ Top.t_error = 1 /\ branch_error' = branch_error
    BY <1>5 DEF KeepFalse
  <2>2. /\ \A n \in Resting : Contents(heap')[n] = Contents(heap)[n]
        /\ Contents(heap')[memory'] = Contents(heap)[memory]
    <3> HIDE DEF o, t, Kept
    <3> QED BY <1>2, <1>3, <2>1
  <2> QED BY <1>1, <2>1, <2>2, JoinImplements DEF Joined
<1>6. CASE KeepTrue
  <2>1. Kept(o, memory, t) /\ branch_error = 1 /\ Top.t_error = 0 /\ branch_error' = 0
    BY <1>6 DEF KeepTrue
  <2>2. /\ \A n \in Resting : Contents(heap')[n] = Contents(heap)[n]
        /\ Contents(heap')[memory'] = Contents(heap)[t]
    <3> HIDE DEF o, t, Kept
    <3> QED BY <1>2, <1>3, <2>1
  <2> QED BY <1>1, <2>1, <2>2, JoinImplements DEF Joined
<1> QED BY <1>4, <1>5, <1>6

LEMMA MergeImplements ==
  ASSUME Inv, Merge
  PROVE  Promise!Join
<1> DEFINE o == Top.orig
           t == Top.other
           e == sMemory_free(heap, o)
<1>1. /\ FalseSideDone /\ branch_error = 0 /\ Top.t_error = 0 /\ branch_error' = branch_error
      /\ Live(e) # Node
      /\ heap' = sMemory_ite(e, Top.c, t, memory) /\ memory' = IteNode(e, Top.c, t, memory)
  BY DEF Merge
<1>2. HeapInv(heap) /\ {memory, o, t} \subseteq heap.sMemInitStack
      /\ memory # o /\ memory # t /\ o # t /\ Top \in Frame
  <2>1. Under(heap, memory, frames, frames', Top)
    BY <1>1, RestOfFrames DEF Top, Inv, FalseSideDone
  <2> QED BY <2>1, HeldFacts DEF Under
<1>3. Top.c \in Literal
  BY <1>2, SymbolicMemoryAssumption DEF Frame
<1>4. MergeSeen(heap, o, Top.c, t, memory)
  <2> HIDE DEF o, t
  <2> QED BY <1>1, <1>2, <1>3, MergedContents
<1>5. /\ \A n \in Resting : Contents(heap')[n] = Contents(heap)[n]
      /\ Contents(heap')[memory'] =
           [v \in Valuation |-> IF v \in Top.c THEN Contents(heap)[t][v] ELSE Contents(heap)[memory][v]]
  <2>1. Resting = heap.sMemInitStack \ {o, t, memory}
    BY DEF Resting
  <2> QED BY ONLY <1>1, <1>4, <2>1 DEF MergeSeen
<1> QED BY <1>1, <1>5, JoinImplements DEF Joined

LEMMA InitImplements == Init => Promise!Init
<1> SUFFICES ASSUME Init PROVE Promise!Init
  OBVIOUS
<1> DEFINE h == [nodes |-> [n \in Node |-> Gone], sMemInitStack |-> {}, CurrsMemFlag |-> 0]
<1>1. /\ heap = sMemory_init(h, Const1, NULL, NULL) /\ memory = 1 /\ frames = <<>>
      /\ branch_error = 0 /\ loaded.bytes = <<>>
  BY DEF Init
<1>2. Inv
  BY InitInv
<1>3. NewNode(h) = 1
  BY FirstNode DEF Live
<1>4. 1 \in Node
  BY SymbolicMemoryAssumption DEF Node
<1>5. heap.nodes[1].cells = <<>> /\ heap.nodes[1].sMemT = NULL
  BY <1>1, <1>3, <1>4 DEF sMemory_init
<1>6. Contents(heap)[1] = ArrayOf(heap, Contents(heap), 1) /\ heap.nodes[1] # Gone
  BY <1>1, <1>2, HeldFacts, ContentsEquation DEF Live
<1> DEFINE x == heap.nodes[1]
<1>7. Contents(heap)[1] = [v \in Valuation |-> [a \in Address |->
                             Newest(x.cells, v, a, Beneath(x, Contents(heap), v, a))]]
  BY ONLY <1>6, ArrayOfIs
<1>8. \A v \in Valuation, a \in Address : Newest(x.cells, v, a, Beneath(x, Contents(heap), v, a)) = Nothing
  BY <1>5 DEF Newest, Hits, Beneath
<1> HIDE DEF x
<1>9. Contents(heap)[1] = [v \in Valuation |-> [a \in Address |-> Nothing]]
  BY ONLY <1>7, <1>8
<1>10. Memory[memory] = Promise!Empty
  BY <1>1, <1>9 DEF Memory, Promise!Empty, Promise!Address, Address
<1>11. (branch_error = 1) = FALSE
  BY <1>1
<1>12. [k \in 1 .. Len(frames) |-> OpenedFrame(heap, frames[k])] = <<>>
  BY <1>1
<1> QED BY ONLY <1>1, <1>10, <1>11, <1>12 DEF Promise!Init, OpenedFrame, Memory

\* Each step of the memory is a step of the arrays, or leaves them as they are.
LEMMA StepImplements ==
  Inv /\ [Next]_vars =>
    [Promise!Next]_<<Memory[memory], branch_error = 1,
                     [k \in 1 .. Len(frames) |->
                        [c |-> frames[k].c, side |-> frames[k].side,
                         orig |-> Memory[frames[k].orig], other |-> Memory[frames[k].other],
                         t_failed |-> frames[k].t_error = 1]],
                     loaded.bytes>>
<1> DEFINE open == [k \in 1 .. Len(frames) |->
                      [c |-> frames[k].c, side |-> frames[k].side,
                       orig |-> Memory[frames[k].orig], other |-> Memory[frames[k].other],
                       t_failed |-> frames[k].t_error = 1]]
           mapped == <<Memory[memory], branch_error = 1, open, loaded.bytes>>
<1> SUFFICES ASSUME Inv, [Next]_vars PROVE [Promise!Next]_mapped
  OBVIOUS
<1>1. ASSUME NEW address \in Vectors, NEW big_endian \in BOOLEAN, NEW word \in Words,
             Store(address, word, big_endian)
      PROVE  Promise!Next
  BY <1>1, StoreImplements DEF Promise!Next
<1>2. ASSUME NEW address \in Vectors, NEW big_endian \in BOOLEAN, NEW size \in LoadSizes,
             Load(address, size, big_endian)
      PROVE  Promise!Next
  BY <1>2, LoadImplements DEF Promise!Next
<1>3. CASE Fail
  <2>1. /\ branch_error' = 1 /\ heap' = heap /\ memory' = memory
        /\ frames' = frames /\ loaded' = loaded
    BY <1>3 DEF Fail
  <2>2. (Memory[memory])' = Memory[memory] /\ open' = open /\ (loaded.bytes)' = loaded.bytes
    BY <2>1 DEF Memory
  <2>3. (branch_error = 1)' = TRUE
    BY <2>1
  <2>4. Promise!Fail
    BY <2>2, <2>3 DEF Promise!Fail
  <2> QED BY <2>4 DEF Promise!Next
<1>4. ASSUME NEW c \in Condition, Fork(c)
      PROVE  Promise!Next
  BY <1>4, ForkImplements DEF Promise!Next
<1>5. CASE TrueSideDone
  BY <1>5, SwitchImplements DEF Promise!Next
<1>6. CASE KeepNeither \/ KeepFalse \/ KeepTrue
  BY <1>6, KeepImplements DEF Promise!Next
<1>7. CASE Merge
  BY <1>7, MergeImplements DEF Promise!Next
<1>8. CASE CollectGarbage
  <2>1. Remarked(heap', heap) /\ UNCHANGED <<memory, branch_error, frames, loaded>>
    BY <1>8, HeldFacts, CollectRemarks DEF CollectGarbage
  <2>2. /\ Contents(heap')[memory'] = Contents(heap)[memory]
        /\ Opened(heap', frames') = Opened(heap, frames)
    BY <2>1, RemarkedImplements
  <2>3. (Memory[memory])' = Memory[memory] /\ open' = open
    BY <2>2 DEF Memory, Opened, OpenedFrame
  <2>4. (branch_error = 1)' = (branch_error = 1) /\ (loaded.bytes)' = loaded.bytes
    BY <2>1
  <2> HIDE DEF open
  <2> QED BY <2>3, <2>4
<1>9. CASE UNCHANGED vars
  <2>1. /\ branch_error' = branch_error /\ heap' = heap /\ memory' = memory
        /\ frames' = frames /\ loaded' = loaded
    BY <1>9 DEF vars
  <2>2. (Memory[memory])' = Memory[memory] /\ open' = open
    BY <2>1 DEF Memory
  <2>3. (branch_error = 1)' = (branch_error = 1) /\ (loaded.bytes)' = loaded.bytes
    BY <2>1
  <2> HIDE DEF open
  <2> QED BY <2>2, <2>3
<1> HIDE DEF mapped
<1> QED BY <1>1, <1>2, <1>3, <1>4, <1>5, <1>6, <1>7, <1>8, <1>9 DEF Next

\* Loads and stores on shared, lazily merged and memoized nodes are loads and
\* stores on arrays that are copied at a fork and merged by value.
THEOREM SharedNodesAreArrays == Spec => BehavesAsArrays
<1>1. Inv /\ [Next]_vars =>
        [Promise!Next]_<<Memory[memory], branch_error = 1,
                         [k \in 1 .. Len(frames) |->
                            [c |-> frames[k].c, side |-> frames[k].side,
                             orig |-> Memory[frames[k].orig], other |-> Memory[frames[k].other],
                             t_failed |-> frames[k].t_error = 1]],
                         loaded.bytes>>
  BY StepImplements
<1> QED BY <1>1, InitImplements, MemoryIsWellFormed, PTL
        DEF Spec, BehavesAsArrays, Promise!Spec

\* A step that loads says of each byte that was stored that it was.
LEMMA StepReports ==
  Inv /\ [Next]_vars =>
    [loaded' # loaded => StoredAt(memory, loaded'.address) \subseteq loaded'.writtenTo]_vars
<1> SUFFICES ASSUME Inv, Next, loaded' # loaded
             PROVE  StoredAt(memory, loaded'.address) \subseteq loaded'.writtenTo
  OBVIOUS
<1>1. PICK address \in Vectors, big_endian \in BOOLEAN, size \in LoadSizes :
             Load(address, size, big_endian)
  BY DEF Next, Store, Fail, Fork, TrueSideDone, FalseSideDone, KeepNeither, KeepFalse,
         KeepTrue, Merge, CollectGarbage
<1> DEFINE load == LoadWord(heap, memory, address, size, big_endian)
           last == LoadAt(address, size, big_endian, size)
<1>2. loaded'.address = load.last /\ loaded'.writtenTo = load.heap.nodes[memory].writtenTo
  BY <1>1 DEF Load
<1>3. address \in [Valuation -> Address] /\ size \in Nat /\ size # 0
  BY SymbolicMemoryAssumption
<1>4. load.last = last
  BY <1>3, HeldFacts, LoadWordRemarks
<1>5. StoredIn(heap, memory, last) \subseteq load.heap.nodes[memory].writtenTo
  BY <1>3, HeldFacts, LoadWordReads DEF LoadReads
<1>6. StoredAt(memory, last) = StoredIn(heap, memory, last)
  BY DEF StoredAt, StoredIn, Memory
<1> QED BY <1>2, <1>4, <1>5, <1>6

\* A load never raises a false alarm: writtenTo admits every byte that was stored.
THEOREM StoredBytesAreReported == Spec => WritesAreReported
<1> QED BY StepReports, MemoryIsWellFormed, PTL DEF Spec, WritesAreReported
=============================================================================
