------------------------ MODULE SymbolicMemory_proofs ------------------------
(***************************************************************************)
(* Proofs about SymbolicMemory, for any number of nodes, any valuations,   *)
(* words and addresses and any nesting of forks.                           *)
(*                                                                         *)
(* Induction over the graph of nodes is the statement that the graph is    *)
(* well-founded: every set of nodes in use has one without a child in it.  *)
(* The graph of sMemory keeps it because a new node refers only to nodes   *)
(* that are there, and a node's children never change.                     *)
(***************************************************************************)
EXTENDS SymbolicMemory, FiniteSetTheorems, SequenceTheorems, WellFoundedInduction, TLAPS

WellFounded(h) ==
  \A T \in SUBSET Live(h) : T # {} => \E n \in T : Children(h, n) \cap T = {}

Graph(h) ==
  /\ \A n \in Live(h) : Children(h, n) \subseteq Live(h)
  /\ WellFounded(h)

\* The sets of nodes that have the children of their members.
Closed(h, S) == \A m \in S \cap Live(h) : Children(h, m) \subseteq S

\* What can be reached from n, as the least closed set with it.
Reach(h, n) ==
  {m \in Node : \A S \in SUBSET Node : n \in S /\ Closed(h, S) => m \in S}

LEMMA ReachIsLeast ==
  ASSUME NEW h, NEW n \in Node, \A m \in Live(h) : Children(h, m) \subseteq Node
  PROVE  /\ Reach(h, n) \subseteq Node
         /\ n \in Reach(h, n)
         /\ Closed(h, Reach(h, n))
         /\ \A S \in SUBSET Node : n \in S /\ Closed(h, S) => Reach(h, n) \subseteq S
<1>1. \A S \in SUBSET Node : n \in S /\ Closed(h, S) => Reach(h, n) \subseteq S
  BY DEF Reach
<1>2. Reach(h, n) \subseteq Node /\ n \in Reach(h, n)
  BY DEF Reach
<1>3. ASSUME NEW m \in Reach(h, n) \cap Live(h), NEW c \in Children(h, m)
      PROVE  c \in Reach(h, n)
  <2>1. c \in Node
    OBVIOUS
  <2>2. ASSUME NEW S \in SUBSET Node, n \in S, Closed(h, S)
        PROVE  c \in S
    <3>1. m \in S
      BY <1>1, <2>2
    <3> QED BY <2>2, <3>1 DEF Closed
  <2> QED BY <2>1, <2>2 DEF Reach
<1> QED BY <1>1, <1>2, <1>3 DEF Closed

Kids(h, n) == IF n \in Live(h) THEN Children(h, n) ELSE {}

LEMMA ReachEquation ==
  ASSUME NEW h, NEW n \in Node, \A m \in Live(h) : Children(h, m) \subseteq Node
  PROVE  Reach(h, n) = {n} \cup UNION {Reach(h, m) : m \in Kids(h, n)}
<1> DEFINE R == {n} \cup UNION {Reach(h, m) : m \in Kids(h, n)}
<1>1. Kids(h, n) \subseteq Node
  BY DEF Kids
<1>2. \A m \in Kids(h, n) : /\ Reach(h, m) \subseteq Node
                            /\ m \in Reach(h, m)
                            /\ Closed(h, Reach(h, m))
  BY <1>1, ReachIsLeast
<1>3. R \in SUBSET Node /\ n \in R
  BY <1>2
<1>4. Closed(h, R)
  <2> SUFFICES ASSUME NEW m \in R \cap Live(h)
               PROVE  Children(h, m) \subseteq R
    BY DEF Closed
  <2>1. CASE m = n
    BY <1>2, <2>1 DEF Kids
  <2>2. CASE \E k \in Kids(h, n) : m \in Reach(h, k)
    BY <1>2, <2>2 DEF Closed
  <2> QED BY <2>1, <2>2
<1>5. Reach(h, n) \subseteq R
  <2> HIDE DEF R
  <2> QED BY <1>3, <1>4, ReachIsLeast
<1>6. n \in Reach(h, n) /\ Kids(h, n) \subseteq Reach(h, n) /\ Closed(h, Reach(h, n))
  BY ReachIsLeast DEF Closed, Kids
<1>7. \A m \in Kids(h, n) : Reach(h, m) \subseteq Reach(h, n)
  <2> TAKE m \in Kids(h, n)
  <2>1. m \in Node /\ Reach(h, n) \in SUBSET Node
    BY <1>1, ReachIsLeast
  <2> QED BY <1>6, <2>1, ReachIsLeast
<1> QED BY <1>5, <1>6, <1>7

\* The recursive definition of the module is reachability.
LEMMA BelowIsReach ==
  ASSUME NEW h, Graph(h), NEW n \in Node
  PROVE  Below(h)[n] = Reach(h, n)
<1> DEFINE IsBelow(b) == b = [k \in Node |-> {k} \cup UNION {b[m] : m \in Kids(h, k)}]
           r == [k \in Node |-> Reach(h, k)]
           b == Below(h)
<1>1. \A m \in Live(h) : Children(h, m) \subseteq Node /\ m \in Node
  BY DEF Graph, Live
<1>2. IsBelow(r)
  <2>1. \A k \in Node : Kids(h, k) \subseteq Node
    BY <1>1 DEF Kids
  <2>2. \A k \in Node : r[k] = {k} \cup UNION {r[m] : m \in Kids(h, k)}
    <3> TAKE k \in Node
    <3>1. {Reach(h, m) : m \in Kids(h, k)} = {r[m] : m \in Kids(h, k)}
      BY <2>1
    <3> QED BY <1>1, <3>1, ReachEquation
  <2> QED BY <2>2
<1>3. b = CHOOSE f : IsBelow(f)
  BY DEF Below, Kids
<1>4. IsBelow(b)
  <2> HIDE DEF IsBelow, r, b
  <2> QED BY <1>2, <1>3
<1>5. \A k \in Node : b[k] = {k} \cup UNION {b[m] : m \in Kids(h, k)}
  <2> HIDE DEF b
  <2> QED BY <1>4
<1> HIDE DEF IsBelow, b
<1>6. \A k \in Node : r[k] = {k} \cup UNION {r[m] : m \in Kids(h, k)}
  BY <1>2 DEF IsBelow
<1> HIDE DEF r
<1>7. \A k \in Node : (\A m \in Kids(h, k) : b[m] = r[m]) => b[k] = r[k]
  <2> TAKE k \in Node
  <2> HAVE \A m \in Kids(h, k) : b[m] = r[m]
  <2>1. {b[m] : m \in Kids(h, k)} = {r[m] : m \in Kids(h, k)}
    OBVIOUS
  <2> QED BY <1>5, <1>6, <2>1
<1> DEFINE T == {k \in Live(h) : b[k] # r[k]}
<1>8. T = {}
  <2> SUFFICES ASSUME T # {} PROVE FALSE
    OBVIOUS
  <2>1. PICK k \in T : Children(h, k) \cap T = {}
    BY DEF Graph, WellFounded
  <2>2. \A m \in Kids(h, k) : b[m] = r[m]
    BY <2>1 DEF Graph, Kids
  <2> QED BY <1>1, <1>7, <2>2
<1>9. b[n] = r[n]
  <2>1. \A m \in Kids(h, n) : b[m] = r[m]
    BY <1>8 DEF Graph, Kids
  <2> QED BY <1>7, <2>1
<1> QED BY <1>9 DEF b, r

\* What is reached from a node in use is in use.
LEMMA ReachIsLive ==
  ASSUME NEW h, Graph(h), NEW n \in Live(h)
  PROVE  Reach(h, n) \subseteq Live(h)
<1>1. n \in Node /\ Live(h) \in SUBSET Node /\ Closed(h, Live(h))
  BY DEF Graph, Live, Closed
<1>2. \A m \in Live(h) : Children(h, m) \subseteq Node
  BY DEF Graph, Live
<1> QED BY <1>1, <1>2, ReachIsLeast
-----------------------------------------------------------------------------
(***************************************************************************)
(* A heap as a part of another: the same nodes, as far as it has them.     *)
(***************************************************************************)
SameNode(a, b) ==
  a.cells = b.cells /\ a.c = b.c /\ a.sMemT = b.sMemT /\ a.sMemF = b.sMemF

PartOf(g, h) ==
  /\ Live(g) \subseteq Live(h)
  /\ \A n \in Live(g) : SameNode(g.nodes[n], h.nodes[n])

LEMMA PartHasChildren ==
  ASSUME NEW g, NEW h, PartOf(g, h), NEW n \in Live(g)
  PROVE  Children(g, n) = Children(h, n)
BY DEF PartOf, SameNode, Children

\* The children of the nodes of a part are in it, so nothing else is reached.
LEMMA PartReaches ==
  ASSUME NEW g, NEW h, Graph(g), Graph(h), PartOf(g, h), NEW n \in Live(g)
  PROVE  Reach(g, n) = Reach(h, n)
<1>1. /\ Live(g) \subseteq Live(h) /\ Live(g) \in SUBSET Node
      /\ n \in Node /\ n \in Live(h)
      /\ \A m \in Live(g) : Children(g, m) = Children(h, m)
  BY PartHasChildren DEF PartOf, Live
<1>2. /\ \A m \in Live(g) : Children(g, m) \subseteq Node
      /\ \A m \in Live(h) : Children(h, m) \subseteq Node
  BY DEF Graph, Live
<1>3. /\ Reach(g, n) \in SUBSET Node /\ n \in Reach(g, n) /\ Closed(g, Reach(g, n))
      /\ Reach(h, n) \in SUBSET Node /\ n \in Reach(h, n) /\ Closed(h, Reach(h, n))
      /\ Reach(g, n) \subseteq Live(g)
  BY <1>1, <1>2, ReachIsLeast, ReachIsLive
<1>4. Closed(g, Reach(h, n))
  BY <1>1, <1>3 DEF Closed
<1>5. Closed(h, Reach(g, n))
  BY <1>1, <1>3 DEF Closed
<1> QED BY <1>1, <1>2, <1>3, <1>4, <1>5, ReachIsLeast

\* A graph stays one when nodes go that no other node refers to.
LEMMA PartIsGraph ==
  ASSUME NEW g, NEW h, Graph(h), PartOf(g, h),
         \A n \in Live(g) : Children(h, n) \subseteq Live(g)
  PROVE  Graph(g)
<1>1. \A n \in Live(g) : Children(g, n) = Children(h, n)
  BY PartHasChildren
<1>2. ASSUME NEW T \in SUBSET Live(g), T # {}
      PROVE  \E n \in T : Children(g, n) \cap T = {}
  <2>1. T \in SUBSET Live(h)
    BY DEF PartOf
  <2>2. PICK n \in T : Children(h, n) \cap T = {}
    BY <1>2, <2>1 DEF Graph, WellFounded
  <2> QED BY <1>1, <2>2
<1> QED BY <1>1, <1>2 DEF Graph, WellFounded
-----------------------------------------------------------------------------
(***************************************************************************)
(* The heap between two calls of the library, for the set of memories that *)
(* its users hold.                                                         *)
(***************************************************************************)
HeapType(h) ==
  h \in [nodes : [Node -> sMemory \cup {Gone}], sMemInitStack : SUBSET Node,
         CurrsMemFlag : Nat]

\* What the memories in a set are made of.
Parts(h, S) == UNION {Reach(h, r) : r \in S}

HeapInv(h) ==
  /\ HeapType(h)
  /\ Graph(h)
  /\ \A n \in Live(h) : h.nodes[n].memoized_flag <= h.CurrsMemFlag
  /\ h.sMemInitStack \subseteq Live(h)
  /\ Live(h) = Parts(h, h.sMemInitStack)

LEMMA HeapFacts ==
  ASSUME NEW h, HeapInv(h)
  PROVE  /\ Live(h) \subseteq Node
         /\ h.sMemInitStack \subseteq Live(h)
         /\ h.CurrsMemFlag \in Nat
         /\ \A n \in Node : n \in Live(h) <=> h.nodes[n] # Gone
         /\ \A n \in Live(h) : /\ h.nodes[n] \in sMemory
                               /\ Children(h, n) \subseteq Live(h)
                               /\ h.nodes[n].memoized_flag \in Nat
                               /\ h.nodes[n].memoized_flag <= h.CurrsMemFlag
<1>1. h.nodes \in [Node -> sMemory \cup {Gone}] /\ h.CurrsMemFlag \in Nat
  BY DEF HeapInv, HeapType
<1>2. \A n \in Live(h) : h.nodes[n] \in sMemory
  BY <1>1 DEF Live
<1>3. \A n \in Live(h) : h.nodes[n].memoized_flag \in Nat
  BY <1>2 DEF sMemory
<1> QED BY <1>1, <1>2, <1>3 DEF HeapInv, Live, Graph

LEMMA LeastElement ==
  ASSUME NEW S, S \subseteq Nat, S # {}
  PROVE  \E m \in S : \A k \in S : m <= k
<1> DEFINE Less == {pair \in Nat \X Nat : pair[1] < pair[2]}
<1>1. IsWellFoundedOn(Less, Nat)
  BY NatLessThanWellFounded DEF OpToRel
<1>2. \E m \in S : \A k \in S : <<k, m>> \notin Less
  <2> HIDE DEF Less
  <2> QED BY <1>1, WFMin, Zenon
<1>3. PICK m \in S : \A k \in S : <<k, m>> \notin Less
  BY <1>2
<1>4. \A k \in S : ~ (k < m)
  <2> TAKE k \in S
  <2>1. <<k, m>> \in Nat \X Nat
    OBVIOUS
  <2> QED BY <1>3, <2>1
<1> QED BY <1>4

LEMMA NewNodeIsFree ==
  ASSUME NEW h, Node \ Live(h) # {}
  PROVE  NewNode(h) \in Node /\ NewNode(h) \notin Live(h)
<1> DEFINE F == Node \ Live(h)
<1>1. F \subseteq Nat /\ F # {}
  BY DEF Node
<1>2. \E m \in F : \A k \in F : m <= k
  <2> HIDE DEF F
  <2> QED BY <1>1, LeastElement, Zenon
<1>3. Min(F) \in F
  <2> HIDE DEF F
  <2> QED BY <1>2 DEF Min
<1> QED BY <1>3 DEF NewNode

\* sMemory_init and what its callers set: one more node, on nodes in use.
LEMMA InitAddsNode ==
  ASSUME NEW h, HeapInv(h), Node \ Live(h) # {}, NEW c \in Literal,
         NEW t \in Live(h) \cup {NULL}, NEW f \in Live(h) \cup {NULL}
  PROVE  LET g == sMemory_init(h, c, t, f)
             new == NewNode(h)
         IN  /\ HeapInv(g)
             /\ new \in Node /\ new \notin Live(h)
             /\ Live(g) = Live(h) \cup {new}
             /\ PartOf(h, g)
             /\ g.sMemInitStack = h.sMemInitStack \cup {new}
             /\ g.nodes[new].cells = <<>> /\ g.nodes[new].c = c
             /\ g.nodes[new].sMemT = t /\ g.nodes[new].sMemF = f
<1> DEFINE g == sMemory_init(h, c, t, f)
           new == NewNode(h)
           node == [cells |-> <<>>, c |-> c, sMemT |-> t, sMemF |-> f,
                    memoized_flag |-> 0, memoized_value |-> vec_zero_byte,
                    writtenTo |-> Const0]
<1>1. new \in Node /\ new \notin Live(h)
  BY NewNodeIsFree
<1>2. node \in sMemory /\ node # Gone
  <2>1. vec_zero_byte \in [Valuation -> Byte]
    BY SymbolicMemoryAssumption DEF vec_zero_byte, vec_getConstant, Byte
  <2>2. t \in Node \cup {NULL} /\ f \in Node \cup {NULL}
    BY DEF Live
  <2>3. Const0 \in Literal /\ <<>> \in Seq(Cell)
    BY DEF Const0, Literal
  <2>4. node \in sMemory
    BY <2>1, <2>2, <2>3 DEF sMemory
  <2> QED BY <2>4, SymbolicMemoryAssumption
<1> HIDE DEF new
<1>3. g = [h EXCEPT !.nodes[new] = node, !.sMemInitStack = @ \cup {new}]
  BY DEF sMemory_init, new
<1>4. /\ HeapType(h)
      /\ h.nodes \in [Node -> sMemory \cup {Gone}]
      /\ h.sMemInitStack \in SUBSET Node /\ h.CurrsMemFlag \in Nat
  BY DEF HeapInv, HeapType
<1> HIDE DEF g, node
<1>5. /\ g.nodes = [h.nodes EXCEPT ![new] = node]
      /\ g.sMemInitStack = h.sMemInitStack \cup {new}
      /\ g.CurrsMemFlag = h.CurrsMemFlag
      /\ HeapType(g)
  BY <1>1, <1>2, <1>3, <1>4 DEF HeapType
<1>6. /\ g.nodes[new] = node
      /\ \A n \in Node \ {new} : g.nodes[n] = h.nodes[n]
  BY <1>1, <1>4, <1>5
<1>7. Live(g) = Live(h) \cup {new}
  BY <1>1, <1>2, <1>6 DEF Live
<1>8. PartOf(h, g)
  BY <1>1, <1>6, <1>7 DEF PartOf, SameNode, Live
<1>9. /\ g.nodes[new].cells = <<>> /\ g.nodes[new].c = c
      /\ g.nodes[new].sMemT = t /\ g.nodes[new].sMemF = f
      /\ g.nodes[new].memoized_flag = 0
  BY <1>6 DEF node
<1>10. Children(g, new) \subseteq Live(h)
  BY <1>9 DEF Children
<1>11. \A n \in Live(h) : Children(g, n) = Children(h, n) /\ Children(h, n) \subseteq Live(h)
  BY <1>8, PartHasChildren DEF HeapInv, Graph
<1>12. Graph(g)
  <2>1. ASSUME NEW T \in SUBSET Live(g), T # {}
        PROVE  \E n \in T : Children(g, n) \cap T = {}
    <3>1. CASE T \cap Live(h) # {}
      <4>1. PICK n \in T \cap Live(h) : Children(h, n) \cap (T \cap Live(h)) = {}
        BY <3>1 DEF HeapInv, Graph, WellFounded
      <4> QED BY <1>11, <4>1
    <3>2. CASE T \cap Live(h) = {}
      BY <1>7, <1>10, <2>1, <3>2
    <3> QED BY <3>1, <3>2
  <2> QED BY <1>7, <1>10, <1>11, <2>1 DEF Graph, WellFounded
<1>13. \A n \in Live(g) : g.nodes[n].memoized_flag <= g.CurrsMemFlag
  BY <1>4, <1>5, <1>6, <1>7, <1>9, <1>1 DEF HeapInv, Live
<1>14. Live(g) = Parts(g, g.sMemInitStack)
  <2>1. \A n \in Live(h) : Reach(g, n) = Reach(h, n)
    BY <1>8, <1>12, PartReaches DEF HeapInv
  <2>2. Reach(g, new) \subseteq Live(g) /\ new \in Reach(g, new)
    <3>1. \A m \in Live(g) : Children(g, m) \subseteq Node
      BY <1>12 DEF Graph, Live
    <3> QED BY <1>1, <1>7, <1>12, <3>1, ReachIsLive, ReachIsLeast
  <2>3. h.sMemInitStack \subseteq Live(h) /\ Live(h) = Parts(h, h.sMemInitStack)
    BY DEF HeapInv
  <2>4. Parts(g, h.sMemInitStack) = Live(h)
    BY <2>1, <2>3 DEF Parts
  <2>5. Parts(g, g.sMemInitStack) = Parts(g, h.sMemInitStack) \cup Reach(g, new)
    BY <1>5 DEF Parts
  <2> QED BY <1>7, <2>2, <2>4, <2>5
<1>15. HeapInv(g)
  BY <1>5, <1>7, <1>12, <1>13, <1>14 DEF HeapInv
<1> QED BY <1>1, <1>5, <1>7, <1>8, <1>9, <1>15 DEF g, new

\* sMemory_free: exactly what only m was made of goes.
LEMMA FreeKeepsOthers ==
  ASSUME NEW h, HeapInv(h), NEW m \in h.sMemInitStack
  PROVE  LET g == sMemory_free(h, m)
         IN  /\ HeapInv(g)
             /\ PartOf(g, h)
             /\ g.sMemInitStack = h.sMemInitStack \ {m}
             /\ Live(g) = Parts(h, h.sMemInitStack \ {m})
<1> DEFINE g == sMemory_free(h, m)
           others == h.sMemInitStack \ {m}
           used == UNION {Below(h)[r] : r \in others}
           deleted == Below(h)[m] \ used
           flag == h.CurrsMemFlag + 1
<1>1. /\ HeapType(h) /\ Graph(h)
      /\ h.nodes \in [Node -> sMemory \cup {Gone}]
      /\ h.sMemInitStack \subseteq Live(h) /\ h.CurrsMemFlag \in Nat
      /\ Live(h) = Parts(h, h.sMemInitStack)
      /\ \A n \in Live(h) : h.nodes[n] \in sMemory /\ n \in Node
  BY HeapFacts DEF HeapInv, HeapType, Live
<1>2. \A r \in h.sMemInitStack : Below(h)[r] = Reach(h, r) /\ Reach(h, r) \subseteq Live(h)
  <2> TAKE r \in h.sMemInitStack
  <2>1. r \in Live(h) /\ r \in Node
    BY <1>1
  <2> QED BY <1>1, <2>1, BelowIsReach, ReachIsLive
<1>3. used = Parts(h, others) /\ used \subseteq Live(h)
  BY <1>2 DEF Parts
<1>4. deleted = Live(h) \ used
  BY <1>1, <1>2, <1>3 DEF Parts
<1>5. g = [nodes |-> [n \in Node |->
                        IF n \in deleted THEN Gone
                        ELSE IF n \in used \cap Live(h)
                          THEN [h.nodes[n] EXCEPT !.memoized_flag = flag]
                        ELSE h.nodes[n]],
           sMemInitStack |-> others,
           CurrsMemFlag  |-> flag]
  BY DEF sMemory_free
<1> HIDE DEF g, used, deleted
<1>6. /\ g.sMemInitStack = others /\ g.CurrsMemFlag = flag
      /\ DOMAIN g.nodes = Node
      /\ \A n \in deleted : g.nodes[n] = Gone
      /\ \A n \in used : g.nodes[n] = [h.nodes[n] EXCEPT !.memoized_flag = flag]
      /\ \A n \in Node \ Live(h) : g.nodes[n] = Gone
  <2>1. \A n \in Node \ Live(h) : h.nodes[n] = Gone
    BY DEF Live
  <2> QED BY <1>1, <1>3, <1>4, <1>5, <2>1
<1>7. \A n \in used : /\ g.nodes[n] \in sMemory
                      /\ SameNode(g.nodes[n], h.nodes[n])
                      /\ g.nodes[n].memoized_flag = flag
  <2> TAKE n \in used
  <2>1. n \in Live(h) /\ flag \in Nat
    BY <1>1, <1>3
  <2>3. h.nodes[n] \in sMemory
    BY <1>1, <2>1
  <2>2. g.nodes[n] = [h.nodes[n] EXCEPT !.memoized_flag = flag]
    BY <1>6
  <2> QED BY <2>1, <2>2, <2>3 DEF sMemory, SameNode
<1>8. Live(g) = used
  <2>1. \A n \in Node : n \in used \/ n \in deleted \/ n \notin Live(h)
    BY <1>4
  <2>2. \A n \in used : n \in Node /\ g.nodes[n] # Gone
    BY <1>1, <1>3, <1>7, SymbolicMemoryAssumption
  <2> QED BY <1>4, <1>6, <2>1, <2>2 DEF Live
<1>9. HeapType(g)
  <2>1. \A n \in Node : g.nodes[n] \in sMemory \cup {Gone}
    BY <1>4, <1>6, <1>7
  <2>2. others \in SUBSET Node /\ flag \in Nat
    BY <1>1
  <2>3. g.nodes \in [Node -> sMemory \cup {Gone}]
    BY <1>5, <2>1
  <2> QED BY <1>5, <2>2, <2>3 DEF HeapType
<1>10. PartOf(g, h)
  BY <1>3, <1>7, <1>8 DEF PartOf
<1>11. \A n \in used : Children(h, n) \subseteq used
  <2>1. \A r \in others : Closed(h, Reach(h, r))
    BY <1>1, ReachIsLeast DEF Graph, Live
  <2> QED BY <1>3, <2>1 DEF Parts, Closed
<1>12. Graph(g)
  BY <1>1, <1>8, <1>10, <1>11, PartIsGraph
<1>13. \A n \in Live(g) : g.nodes[n].memoized_flag <= g.CurrsMemFlag
  BY <1>1, <1>6, <1>7, <1>8
<1>14. others \subseteq Live(g)
  BY <1>1, <1>3, <1>8, ReachIsLeast DEF Parts, Graph, Live
<1>15. Live(g) = Parts(g, others)
  <2>1. \A r \in others : Reach(g, r) = Reach(h, r)
    BY <1>1, <1>10, <1>12, <1>14, PartReaches
  <2> QED BY <1>3, <1>8, <2>1 DEF Parts
<1> QED BY <1>3, <1>6, <1>8, <1>9, <1>10, <1>12, <1>13, <1>14, <1>15 DEF HeapInv, g
-----------------------------------------------------------------------------
(***************************************************************************)
(* Recursion over the graph.  A definition by recursion over the nodes in  *)
(* use, whose step looks at the values of a node's children only, has a    *)
(* solution, and the function TLA+ chooses for it is one.                  *)
(***************************************************************************)
ClosedIn(h, D) == D \subseteq Live(h) /\ \A n \in D : Children(h, n) \subseteq D

Local(h, V, step) ==
  \A n \in Live(h), f, g \in [Live(h) -> V] :
    (\A c \in Children(h, n) : f[c] = g[c]) => step[n][f] = step[n][g]

Solves(h, V, step, D, f) ==
  f \in [Live(h) -> V] /\ \A n \in D : f[n] = step[n][f]

Steps(h, V) == [Live(h) -> [[Live(h) -> V] -> V]]

Solvable(h, V, step) ==
  \E f \in [Live(h) -> V] : \A n \in Live(h) : f[n] = step[n][f]

LEMMA SolutionsAgree ==
  ASSUME NEW h, Graph(h), NEW V, NEW step, Local(h, V, step),
         NEW D, ClosedIn(h, D), NEW f, Solves(h, V, step, D, f),
         NEW E, ClosedIn(h, E), NEW g, Solves(h, V, step, E, g)
  PROVE  \A n \in D \cap E : f[n] = g[n]
<1> DEFINE T == {n \in D \cap E : f[n] # g[n]}
<1> SUFFICES ASSUME T # {} PROVE FALSE
  OBVIOUS
<1>1. T \in SUBSET Live(h)
  BY DEF ClosedIn
<1>2. PICK n \in T : Children(h, n) \cap T = {}
  BY <1>1 DEF Graph, WellFounded
<1>3. n \in D /\ n \in E /\ n \in Live(h) /\ f[n] # g[n]
  BY <1>1
<1>4. Children(h, n) \subseteq D \cap E
  BY <1>3 DEF ClosedIn
<1>5. \A c \in Children(h, n) : f[c] = g[c]
  BY <1>2, <1>4
<1>6. step[n][f] = step[n][g]
  BY <1>3, <1>5 DEF Local, Solves
<1> QED BY <1>3, <1>6 DEF Solves

LEMMA GraphRecursion ==
  ASSUME NEW h, Graph(h), NEW V, NEW v \in V,
         NEW step \in Steps(h, V), Local(h, V, step)
  PROVE  Solvable(h, V, step)
<1> DEFINE Has(n, f) == \E D \in SUBSET Live(h) :
                          n \in D /\ ClosedIn(h, D) /\ Solves(h, V, step, D, f)
           S == {n \in Live(h) : \E f : Has(n, f)}
           F == [n \in Live(h) |-> IF n \in S THEN (CHOOSE f : Has(n, f))[n] ELSE v]
<1>1. \A n \in S : Has(n, CHOOSE f : Has(n, f))
  OBVIOUS
<1>2. ASSUME NEW D \in SUBSET Live(h), ClosedIn(h, D), NEW f, Solves(h, V, step, D, f)
      PROVE  \A n \in D : n \in S /\ F[n] = f[n]
  <2> TAKE n \in D
  <2>1. n \in S
    BY <1>2
  <2> DEFINE g == CHOOSE f_1 : Has(n, f_1)
  <2>2. PICK E \in SUBSET Live(h) : n \in E /\ ClosedIn(h, E) /\ Solves(h, V, step, E, g)
    BY <1>1, <2>1
  <2>3. F[n] = g[n]
    BY <2>1
  <2> HIDE DEF g, F, S, Has
  <2>4. g[n] = f[n]
    BY <1>2, <2>2, SolutionsAgree
  <2> QED BY <2>1, <2>3, <2>4
<1>3. F \in [Live(h) -> V]
  <2>1. ASSUME NEW n \in S PROVE (CHOOSE f : Has(n, f))[n] \in V
    <3>1. Has(n, CHOOSE f : Has(n, f))
      BY <1>1
    <3> QED BY <3>1 DEF Solves
  <2> QED BY <2>1
<1>4. \A n \in S : \E D \in SUBSET Live(h) : \E f :
                     n \in D /\ ClosedIn(h, D) /\ Solves(h, V, step, D, f)
  OBVIOUS
<1>5. S \subseteq Live(h)
  OBVIOUS
<1> HIDE DEF F, S, Has
<1>6. ASSUME NEW n \in S
      PROVE  Children(h, n) \subseteq S /\ F[n] = step[n][F]
  <2>1. PICK D \in SUBSET Live(h) :
               \E f : n \in D /\ ClosedIn(h, D) /\ Solves(h, V, step, D, f)
    BY <1>4
  <2>2. PICK f : n \in D /\ ClosedIn(h, D) /\ Solves(h, V, step, D, f)
    BY <2>1
  <2>3. \A m \in D : m \in S /\ F[m] = f[m]
    BY <1>2, <2>2
  <2>4. Children(h, n) \subseteq D /\ f[n] = step[n][f] /\ f \in [Live(h) -> V]
    BY <2>2 DEF ClosedIn, Solves
  <2>5. step[n][F] = step[n][f]
    BY <1>3, <2>2, <2>3, <2>4 DEF Local
  <2> QED BY <2>2, <2>3, <2>4, <2>5
<1>7. Live(h) \subseteq S
  <2> SUFFICES ASSUME Live(h) \ S # {} PROVE FALSE
    OBVIOUS
  <2>1. PICK n \in Live(h) \ S : Children(h, n) \cap (Live(h) \ S) = {}
    BY DEF Graph, WellFounded
  <2>2. Children(h, n) \subseteq S /\ n \notin S /\ n \in Live(h)
    BY <2>1 DEF Graph
  <2> DEFINE f == [F EXCEPT ![n] = step[n][F]]
             D == S \cup {n}
  <2>3. step[n][F] \in V
    BY <1>3, <2>2 DEF Steps
  <2>4. f \in [Live(h) -> V] /\ f[n] = step[n][F] /\ \A m \in S : f[m] = F[m]
    BY <1>3, <1>5, <2>2, <2>3
  <2>5. D \in SUBSET Live(h) /\ ClosedIn(h, D) /\ n \in D
    BY <1>5, <1>6, <2>2 DEF ClosedIn
  <2> HIDE DEF f
  <2>6. \A m \in D : step[m][f] = step[m][F]
    <3> TAKE m \in D
    <3>1. m \in Live(h) /\ \A c \in Children(h, m) : f[c] = F[c]
      BY <1>6, <2>2, <2>4, <2>5
    <3> QED BY <1>3, <2>4, <3>1 DEF Local
  <2>7. \A m \in D : f[m] = step[m][f]
    BY <1>6, <2>2, <2>4, <2>6
  <2>8. Solves(h, V, step, D, f)
    BY <2>4, <2>7 DEF Solves
  <2> HIDE DEF D
  <2>9. n \in S
    BY <1>2, <2>5, <2>8
  <2> QED BY <2>2, <2>9
<1> QED BY <1>3, <1>6, <1>7 DEF Solvable
-----------------------------------------------------------------------------
(***************************************************************************)
(* The types of cells and of what a load computes from them.               *)
(***************************************************************************)
ByteVector == [Valuation -> Byte]

LEMMA GreatestElement ==
  ASSUME NEW n \in Nat, NEW S, S \subseteq 0 .. n, S # {}
  PROVE  Max(S) \in S /\ \A k \in S : k <= Max(S)
<1> DEFINE T == {n - k : k \in S}
<1>1. T \subseteq Nat /\ T # {}
  <2>1. \A k \in S : n - k \in Nat
    OBVIOUS
  <2> QED BY <2>1
<1>2. PICK m \in T : \A k \in T : m <= k
  <2> HIDE DEF T
  <2> QED BY <1>1, LeastElement, Zenon
<1>3. PICK g \in S : m = n - g
  OBVIOUS
<1>4. \A k \in S : n - k \in T
  OBVIOUS
<1>5. \A k \in S : k <= g
  BY <1>2, <1>3, <1>4
<1>6. \E x \in S : \A y \in S : x >= y
  BY <1>5
<1>7. Max(S) \in S /\ \A y \in S : Max(S) >= y
  BY <1>6 DEF Max
<1> QED BY <1>7

LEMMA MergeType ==
  ASSUME NEW cells \in Seq(Cell), NEW address \in [Valuation -> Address],
         NEW base \in ByteVector
  PROVE  stackMerge(cells, address, base) \in ByteVector
<1> SUFFICES ASSUME NEW v \in Valuation,
                    NEW hits, hits = {i \in DOMAIN cells : cells[i].address[v] = address[v]}
             PROVE  (IF hits = {} THEN base[v] ELSE cells[Max(hits)].value[v]) \in Byte
  BY DEF stackMerge, ByteVector
<1>1. CASE hits = {}
  BY <1>1 DEF ByteVector
<1>2. CASE hits # {}
  <2>1. hits \subseteq 0 .. Len(cells) /\ Len(cells) \in Nat
    OBVIOUS
  <2>2. Max(hits) \in hits
    BY <1>2, <2>1, GreatestElement
  <2>3. cells[Max(hits)] \in Cell
    BY <2>2
  <2> QED BY <1>2, <2>3 DEF Cell
<1> QED BY <1>1, <1>2

\* The steps of the recursions of a load, as the module writes them.
ValueOf(h, address, val, n) ==
  LET m == h.nodes[n]
  IN  IF Memoized(h, n)
        THEN m.memoized_value
        ELSE stackMerge(m.cells, address,
               CASE Perfect(m.cells, address) -> vec_zero_byte
                 [] ~Perfect(m.cells, address) /\ m.sMemT = NULL -> vec_zero_byte
                 [] ~Perfect(m.cells, address) /\ m.sMemT # NULL /\ m.sMemF = NULL
                      -> val[m.sMemT]
                 [] OTHER -> vec_ite(m.c, val[m.sMemT], val[m.sMemF]))

LEMMA ValueOfType ==
  ASSUME NEW h, HeapInv(h), NEW address \in [Valuation -> Address], NEW n \in Live(h),
         NEW val, \A c \in Children(h, n) : val[c] \in ByteVector
  PROVE  ValueOf(h, address, val, n) \in ByteVector
<1> DEFINE m == h.nodes[n]
           base == CASE Perfect(m.cells, address) -> vec_zero_byte
                     [] ~Perfect(m.cells, address) /\ m.sMemT = NULL -> vec_zero_byte
                     [] ~Perfect(m.cells, address) /\ m.sMemT # NULL /\ m.sMemF = NULL
                          -> val[m.sMemT]
                     [] OTHER -> vec_ite(m.c, val[m.sMemT], val[m.sMemF])
<1>1. m \in sMemory
  BY HeapFacts
<1>2. m.cells \in Seq(Cell) /\ m.memoized_value \in ByteVector
  BY <1>1 DEF sMemory, ByteVector
<1>3. vec_zero_byte \in ByteVector
  BY SymbolicMemoryAssumption DEF vec_zero_byte, vec_getConstant, Byte, ByteVector
<1>4. Children(h, n) = {m.sMemT, m.sMemF} \ {NULL}
  BY DEF Children
<1> HIDE DEF m
<1>5. base \in ByteVector
  <2>1. CASE Perfect(m.cells, address)
    BY <1>3, <2>1
  <2>2. CASE ~Perfect(m.cells, address) /\ m.sMemT = NULL
    BY <1>3, <2>2
  <2>3. CASE ~Perfect(m.cells, address) /\ m.sMemT # NULL /\ m.sMemF = NULL
    BY <1>4, <2>3
  <2>4. CASE ~Perfect(m.cells, address) /\ m.sMemT # NULL /\ m.sMemF # NULL
    <3>1. val[m.sMemT] \in ByteVector /\ val[m.sMemF] \in ByteVector
      BY <1>4, <2>4
    <3>2. vec_ite(m.c, val[m.sMemT], val[m.sMemF]) \in ByteVector
      BY <3>1 DEF vec_ite, ByteVector
    <3> QED BY <2>4, <3>2
  <2> QED BY <2>1, <2>2, <2>3, <2>4
<1> HIDE DEF base
<1>6. stackMerge(m.cells, address, base) \in ByteVector
  BY <1>2, <1>5, MergeType
<1> QED BY <1>2, <1>6 DEF ValueOf, m, base
LEMMA ByteValues ==
  ASSUME NEW h, HeapInv(h), NEW address \in [Valuation -> Address]
  PROVE  LET val == ByteValue(h, address)
         IN  /\ val \in [Live(h) -> ByteVector]
             /\ \A n \in Live(h) : val[n] = ValueOf(h, address, val, n)
<1> DEFINE val == ByteValue(h, address)
           step == [n \in Live(h) |->
                      [f \in [Live(h) -> ByteVector] |-> ValueOf(h, address, f, n)]]
           Is(f) == f = [n \in Live(h) |-> ValueOf(h, address, f, n)]
<1>1. Graph(h)
  BY DEF HeapInv
<1>2. step \in Steps(h, ByteVector)
  <2>1. \A n \in Live(h), f \in [Live(h) -> ByteVector] :
          ValueOf(h, address, f, n) \in ByteVector
    BY ValueOfType DEF HeapInv, Graph
  <2> QED BY <2>1 DEF Steps
<1>3. Local(h, ByteVector, step)
  <2>1. ASSUME NEW n \in Live(h), NEW f \in [Live(h) -> ByteVector],
               NEW g \in [Live(h) -> ByteVector], \A c \in Children(h, n) : f[c] = g[c]
        PROVE  ValueOf(h, address, f, n) = ValueOf(h, address, g, n)
    <3> DEFINE m == h.nodes[n]
    <3>1. m.sMemT # NULL => f[m.sMemT] = g[m.sMemT]
      BY <2>1 DEF Children
    <3>2. m.sMemF # NULL => f[m.sMemF] = g[m.sMemF]
      BY <2>1 DEF Children
    <3> QED BY <3>1, <3>2 DEF ValueOf
  <2> QED BY <2>1 DEF Local
<1>4. vec_zero_byte \in ByteVector
  BY SymbolicMemoryAssumption DEF vec_zero_byte, vec_getConstant, Byte, ByteVector
<1>5. Solvable(h, ByteVector, step)
  <2> HIDE DEF step
  <2> QED BY <1>1, <1>2, <1>3, <1>4, GraphRecursion
<1>6. \E f : Is(f)
  BY <1>5 DEF Solvable
<1>7. val = CHOOSE f_1 : Is(f_1)
  BY DEF ByteValue, ValueOf
<1>8. Is(val)
  <2> HIDE DEF Is, val
  <2> QED BY <1>6, <1>7
<1>9. /\ DOMAIN val = Live(h)
      /\ \A n \in Live(h) : val[n] = ValueOf(h, address, val, n)
      /\ val = [n \in Live(h) |-> val[n]]
  <2> HIDE DEF val
  <2> QED BY <1>8
<1> HIDE DEF val
<1>10. \A n \in Live(h) : val[n] \in ByteVector
  <2> DEFINE T == {n \in Live(h) : val[n] \notin ByteVector}
  <2> SUFFICES ASSUME T # {} PROVE FALSE
    OBVIOUS
  <2>1. PICK n \in T : Children(h, n) \cap T = {}
    BY <1>1 DEF Graph, WellFounded
  <2>2. \A c \in Children(h, n) : val[c] \in ByteVector
    BY <1>1, <2>1 DEF Graph
  <2> QED BY <1>9, <2>1, <2>2, ValueOfType
<1> QED BY <1>9, <1>10 DEF val

WrittenOf(h, address, written, n) ==
  LET m == h.nodes[n]
      local == Matching(m.cells, address)
  IN  CASE Memoized(h, n) -> m.writtenTo
        [] ~Memoized(h, n) /\ Perfect(m.cells, address) -> Const1
        [] ~Memoized(h, n) /\ ~Perfect(m.cells, address) /\ m.sMemT = NULL -> local
        [] ~Memoized(h, n) /\ ~Perfect(m.cells, address)
             /\ m.sMemT # NULL /\ m.sMemF = NULL
             -> HashOr(local, written[m.sMemT])
        [] OTHER -> HashOr(HashMux(m.c, written[m.sMemT], written[m.sMemF]),
                           HashOr(m.c, local))

LEMMA WrittenOfType ==
  ASSUME NEW h, HeapInv(h), NEW address \in [Valuation -> Address], NEW n \in Live(h),
         NEW written, \A c \in Children(h, n) : written[c] \in Literal
  PROVE  WrittenOf(h, address, written, n) \in Literal
<1> DEFINE m == h.nodes[n]
           local == Matching(m.cells, address)
<1>1. m \in sMemory
  BY HeapFacts
<1>2. m.c \in Literal /\ m.writtenTo \in Literal
  BY <1>1 DEF sMemory
<1>3. Const1 \in Literal /\ local \in Literal
  BY DEF Const1, Literal, Matching, vec_equal
<1>4. Children(h, n) = {m.sMemT, m.sMemF} \ {NULL}
  BY DEF Children
<1>5. m.sMemT # NULL => written[m.sMemT] \in Literal
  BY <1>4
<1>6. m.sMemF # NULL => written[m.sMemF] \in Literal
  BY <1>4
<1>7. \A k, l \in Literal : HashOr(k, l) \in Literal
  BY DEF HashOr, Literal
<1>8. \A k, l, c \in Literal : HashMux(c, k, l) \in Literal
  BY DEF HashMux, Literal
<1> HIDE DEF m, local
<1>9. WrittenOf(h, address, written, n) =
        CASE Memoized(h, n) -> m.writtenTo
          [] ~Memoized(h, n) /\ Perfect(m.cells, address) -> Const1
          [] ~Memoized(h, n) /\ ~Perfect(m.cells, address) /\ m.sMemT = NULL -> local
          [] ~Memoized(h, n) /\ ~Perfect(m.cells, address)
               /\ m.sMemT # NULL /\ m.sMemF = NULL
               -> HashOr(local, written[m.sMemT])
          [] OTHER -> HashOr(HashMux(m.c, written[m.sMemT], written[m.sMemF]),
                             HashOr(m.c, local))
  BY DEF WrittenOf, m, local
<1> QED BY <1>2, <1>3, <1>5, <1>6, <1>7, <1>8, <1>9

LEMMA BytesWritten ==
  ASSUME NEW h, HeapInv(h), NEW address \in [Valuation -> Address]
  PROVE  LET written == ByteWritten(h, address)
         IN  /\ written \in [Live(h) -> Literal]
             /\ \A n \in Live(h) : written[n] = WrittenOf(h, address, written, n)
<1> DEFINE written == ByteWritten(h, address)
           step == [n \in Live(h) |->
                      [f \in [Live(h) -> Literal] |-> WrittenOf(h, address, f, n)]]
           Is(f) == f = [n \in Live(h) |-> WrittenOf(h, address, f, n)]
<1>1. Graph(h)
  BY DEF HeapInv
<1>2. step \in Steps(h, Literal)
  <2>1. \A n \in Live(h), f \in [Live(h) -> Literal] :
          WrittenOf(h, address, f, n) \in Literal
    BY WrittenOfType DEF HeapInv, Graph
  <2> QED BY <2>1 DEF Steps
<1>3. Local(h, Literal, step)
  <2>1. ASSUME NEW n \in Live(h), NEW f \in [Live(h) -> Literal],
               NEW g \in [Live(h) -> Literal], \A c \in Children(h, n) : f[c] = g[c]
        PROVE  WrittenOf(h, address, f, n) = WrittenOf(h, address, g, n)
    <3> DEFINE m == h.nodes[n]
    <3>1. m.sMemT # NULL => f[m.sMemT] = g[m.sMemT]
      BY <2>1 DEF Children
    <3>2. m.sMemF # NULL => f[m.sMemF] = g[m.sMemF]
      BY <2>1 DEF Children
    <3> QED BY <3>1, <3>2 DEF WrittenOf
  <2> QED BY <2>1 DEF Local
<1>4. Const0 \in Literal
  BY DEF Const0, Literal
<1>5. Solvable(h, Literal, step)
  <2> HIDE DEF step
  <2> QED BY <1>1, <1>2, <1>3, <1>4, GraphRecursion
<1>6. \E f : Is(f)
  BY <1>5 DEF Solvable
<1>7. written = CHOOSE f_1 : Is(f_1)
  BY DEF ByteWritten, WrittenOf
<1>8. Is(written)
  <2> HIDE DEF Is, written
  <2> QED BY <1>6, <1>7
<1>9. /\ DOMAIN written = Live(h)
      /\ \A n \in Live(h) : written[n] = WrittenOf(h, address, written, n)
      /\ written = [n \in Live(h) |-> written[n]]
  <2> HIDE DEF written
  <2> QED BY <1>8
<1> HIDE DEF written
<1>10. \A n \in Live(h) : written[n] \in Literal
  <2> DEFINE T == {n \in Live(h) : written[n] \notin Literal}
  <2> SUFFICES ASSUME T # {} PROVE FALSE
    OBVIOUS
  <2>1. PICK n \in T : Children(h, n) \cap T = {}
    BY <1>1 DEF Graph, WellFounded
  <2>2. \A c \in Children(h, n) : written[c] \in Literal
    BY <1>1, <2>1 DEF Graph
  <2> QED BY <1>9, <2>1, <2>2, WrittenOfType
<1> QED BY <1>9, <1>10 DEF written

\* The memoized nodes are not entered.
VisitedFrom(h, address, visited, n) ==
  CASE Memoized(h, n) -> {}
    [] ~Memoized(h, n) /\ Perfect(h.nodes[n].cells, address) -> {n}
    [] OTHER -> {n} \cup UNION {visited[m] : m \in Children(h, n)}

LEMMA VisitedFromType ==
  ASSUME NEW h, NEW address, NEW n \in Live(h),
         NEW visited, \A c \in Children(h, n) : visited[c] \in SUBSET Live(h)
  PROVE  VisitedFrom(h, address, visited, n) \in SUBSET Live(h)
<1>1. UNION {visited[m] : m \in Children(h, n)} \in SUBSET Live(h)
  OBVIOUS
<1> QED BY <1>1 DEF VisitedFrom

LEMMA NodesVisited ==
  ASSUME NEW h, Graph(h), NEW address
  PROVE  LET visited == Visited(h, address)
         IN  /\ visited \in [Live(h) -> SUBSET Live(h)]
             /\ \A n \in Live(h) : visited[n] = VisitedFrom(h, address, visited, n)
<1> DEFINE visited == Visited(h, address)
           V == SUBSET Live(h)
           step == [n \in Live(h) |->
                      [f \in [Live(h) -> V] |-> VisitedFrom(h, address, f, n)]]
           Is(f) == f = [n \in Live(h) |-> VisitedFrom(h, address, f, n)]
<1>2. step \in Steps(h, V)
  <2>1. \A n \in Live(h), f \in [Live(h) -> V] : VisitedFrom(h, address, f, n) \in V
    BY VisitedFromType DEF Graph
  <2> QED BY <2>1 DEF Steps
<1>3. Local(h, V, step)
  <2>1. ASSUME NEW n \in Live(h), NEW f \in [Live(h) -> V],
               NEW g \in [Live(h) -> V], \A c \in Children(h, n) : f[c] = g[c]
        PROVE  VisitedFrom(h, address, f, n) = VisitedFrom(h, address, g, n)
    <3>1. {f[m] : m \in Children(h, n)} = {g[m] : m \in Children(h, n)}
      BY <2>1
    <3> QED BY <3>1 DEF VisitedFrom
  <2> QED BY <2>1 DEF Local
<1>5. Solvable(h, V, step)
  <2>1. {} \in V
    OBVIOUS
  <2> HIDE DEF step, V
  <2> QED BY <1>2, <1>3, <2>1, GraphRecursion
<1>6. \E f : Is(f)
  BY <1>5 DEF Solvable
<1>7. visited = CHOOSE f_1 : Is(f_1)
  BY DEF Visited, VisitedFrom
<1>8. Is(visited)
  <2> HIDE DEF Is, visited
  <2> QED BY <1>6, <1>7
<1>9. /\ DOMAIN visited = Live(h)
      /\ \A n \in Live(h) : visited[n] = VisitedFrom(h, address, visited, n)
      /\ visited = [n \in Live(h) |-> visited[n]]
  <2> HIDE DEF visited
  <2> QED BY <1>8
<1> HIDE DEF visited
<1>10. \A n \in Live(h) : visited[n] \in V
  <2> DEFINE T == {n \in Live(h) : visited[n] \notin V}
  <2> SUFFICES ASSUME T # {} PROVE FALSE
    OBVIOUS
  <2>1. PICK n \in T : Children(h, n) \cap T = {}
    BY DEF Graph, WellFounded
  <2>2. \A c \in Children(h, n) : visited[c] \in V
    BY <2>1 DEF Graph
  <2> QED BY <1>9, <2>1, <2>2, VisitedFromType
<1> QED BY <1>9, <1>10 DEF visited
-----------------------------------------------------------------------------
(***************************************************************************)
(* Changes that leave the graph as it is.                                  *)
(***************************************************************************)
SameShape(g, h) ==
  /\ Live(g) = Live(h)
  /\ \A n \in Live(h) : /\ g.nodes[n].sMemT = h.nodes[n].sMemT
                        /\ g.nodes[n].sMemF = h.nodes[n].sMemF
  /\ g.sMemInitStack = h.sMemInitStack

LEMMA ShapeReaches ==
  ASSUME NEW g, NEW h, SameShape(g, h)
  PROVE  /\ \A n \in Live(h) : Children(g, n) = Children(h, n)
         /\ \A n \in Node : Reach(g, n) = Reach(h, n)
         /\ Graph(h) => Graph(g)
<1>1. \A n \in Live(h) : Children(g, n) = Children(h, n)
  BY DEF SameShape, Children
<1>2. Live(g) = Live(h)
  BY DEF SameShape
<1>3. \A S \in SUBSET Node : Closed(g, S) <=> Closed(h, S)
  BY <1>1, <1>2 DEF Closed
<1>4. \A n \in Node : Reach(g, n) = Reach(h, n)
  BY <1>3 DEF Reach
<1>5. WellFounded(h) => WellFounded(g)
  BY <1>1, <1>2 DEF WellFounded
<1> QED BY <1>1, <1>2, <1>4, <1>5 DEF Graph

LEMMA ShapeKeepsHeap ==
  ASSUME NEW g, NEW h, HeapInv(h), SameShape(g, h), HeapType(g),
         \A n \in Live(g) : g.nodes[n].memoized_flag <= g.CurrsMemFlag
  PROVE  HeapInv(g)
<1>1. \A n \in h.sMemInitStack : n \in Node /\ Reach(g, n) = Reach(h, n)
  BY HeapFacts, ShapeReaches
<1>2. Parts(g, h.sMemInitStack) = Parts(h, h.sMemInitStack)
  BY <1>1 DEF Parts
<1> QED BY <1>2, ShapeReaches DEF HeapInv, SameShape

LEMMA SameShapeIsTransitive ==
  ASSUME NEW f, NEW g, NEW h, SameShape(f, g), SameShape(g, h)
  PROVE  SameShape(f, h)
BY DEF SameShape

\* What a load may do to the heap: memos and flags change, nothing else.
Remarked(g, h) ==
  /\ HeapInv(g)
  /\ SameShape(g, h)
  /\ \A n \in Live(h) : SameNode(g.nodes[n], h.nodes[n])

LEMMA RemarkedIsTransitive ==
  ASSUME NEW f, NEW g, NEW h, Remarked(f, g), Remarked(g, h)
  PROVE  Remarked(f, h)
BY DEF Remarked, SameShape, SameNode

LEMMA NextFlagRemarks ==
  ASSUME NEW h, HeapInv(h)
  PROVE  Remarked(NextFlag(h), h) /\ NextFlag(h).CurrsMemFlag = h.CurrsMemFlag + 1
<1> DEFINE g == NextFlag(h)
<1>1. /\ h \in [nodes : [Node -> sMemory \cup {Gone}], sMemInitStack : SUBSET Node,
                CurrsMemFlag : Nat]
  BY DEF HeapInv, HeapType
<1>2. /\ g.nodes = h.nodes /\ g.sMemInitStack = h.sMemInitStack
      /\ g.CurrsMemFlag = h.CurrsMemFlag + 1
      /\ HeapType(g)
  BY <1>1 DEF NextFlag, HeapType
<1> HIDE DEF g
<1>3. SameShape(g, h) /\ \A n \in Live(h) : SameNode(g.nodes[n], h.nodes[n])
  BY <1>2 DEF SameShape, Live, SameNode
<1>4. \A n \in Live(g) : g.nodes[n].memoized_flag <= g.CurrsMemFlag
  BY <1>2, <1>3, HeapFacts DEF SameShape
<1>5. HeapInv(g)
  BY <1>2, <1>3, <1>4, ShapeKeepsHeap
<1> QED BY <1>2, <1>3, <1>5 DEF Remarked, g

LEMMA LoadByteRemarks ==
  ASSUME NEW h, HeapInv(h), NEW m \in Live(h), NEW address \in [Valuation -> Address]
  PROVE  Remarked(loadByte(h, m, address), h)
<1> DEFINE val == ByteValue(h, address)
           written == ByteWritten(h, address)
           visited == Visited(h, address)[m]
           g == loadByte(h, m, address)
           memo(n) == [h.nodes[n] EXCEPT !.memoized_flag = h.CurrsMemFlag,
                                         !.memoized_value = val[n],
                                         !.writtenTo = written[n]]
<1>1. /\ \A n \in Live(h) : val[n] \in ByteVector /\ written[n] \in Literal
      /\ visited \subseteq Live(h)
  BY ByteValues, BytesWritten, NodesVisited DEF HeapInv
<1>2. /\ h \in [nodes : [Node -> sMemory \cup {Gone}], sMemInitStack : SUBSET Node,
                CurrsMemFlag : Nat]
      /\ Live(h) \subseteq Node
      /\ \A n \in Live(h) : h.nodes[n] \in sMemory
      /\ \A n \in Node : n \in Live(h) <=> h.nodes[n] # Gone
      /\ \A n \in Live(h) : h.nodes[n].memoized_flag <= h.CurrsMemFlag
  BY HeapFacts DEF HeapInv, HeapType
<1>3. g = [h EXCEPT !.nodes = [n \in Node |-> IF n \in visited THEN memo(n) ELSE h.nodes[n]]]
  BY DEF loadByte
<1> HIDE DEF val, written, visited, g
<1>4. /\ g.sMemInitStack = h.sMemInitStack /\ g.CurrsMemFlag = h.CurrsMemFlag
      /\ g.nodes = [n \in Node |-> IF n \in visited THEN memo(n) ELSE h.nodes[n]]
  BY <1>2, <1>3
<1>5. \A n \in visited : /\ g.nodes[n] \in sMemory
                         /\ SameNode(g.nodes[n], h.nodes[n])
                         /\ g.nodes[n].memoized_flag = h.CurrsMemFlag
  <2> TAKE n \in visited
  <2>1. n \in Node /\ n \in Live(h)
    BY <1>1, <1>2
  <2>2. g.nodes[n] = memo(n)
    BY <1>4, <2>1
  <2>3. h.nodes[n] \in sMemory /\ h.CurrsMemFlag \in Nat
    BY <1>2, <2>1
  <2>4. val[n] \in [Valuation -> Byte] /\ written[n] \in Literal
    BY <1>1, <2>1 DEF ByteVector
  <2> QED BY <2>2, <2>3, <2>4 DEF sMemory, SameNode
<1>6. \A n \in Node \ visited : g.nodes[n] = h.nodes[n]
  BY <1>4
<1>7. Live(g) = Live(h)
  BY <1>1, <1>2, <1>5, <1>6, SymbolicMemoryAssumption DEF Live
<1>8. \A n \in Live(h) : SameNode(g.nodes[n], h.nodes[n])
  BY <1>2, <1>5, <1>6 DEF SameNode
<1>9. SameShape(g, h)
  BY <1>4, <1>7, <1>8 DEF SameShape, SameNode
<1>10. HeapType(g)
  <2>1. \A n \in Node : g.nodes[n] \in sMemory \cup {Gone}
    BY <1>2, <1>5, <1>6
  <2>2. g.nodes \in [Node -> sMemory \cup {Gone}]
    BY <1>4, <2>1
  <2> QED BY <1>2, <1>3, <1>4, <2>2 DEF HeapType
<1>11. \A n \in Live(g) : g.nodes[n].memoized_flag <= g.CurrsMemFlag
  <2>1. h.CurrsMemFlag \in Nat
    BY HeapFacts
  <2>2. \A n \in Live(g) : n \in visited \/ n \in Node \ visited
    BY <1>2, <1>7
  <2>3. g.CurrsMemFlag = h.CurrsMemFlag
    BY <1>4
  <2>4. \A n \in Live(g) : h.nodes[n].memoized_flag <= h.CurrsMemFlag
    BY <1>2, <1>7
  <2>5. \A n \in visited : g.nodes[n].memoized_flag = h.CurrsMemFlag
    BY <1>5
  <2> QED BY ONLY <2>1, <2>2, <2>3, <2>4, <2>5, <1>6
<1> QED BY <1>8, <1>9, <1>10, <1>11, ShapeKeepsHeap DEF Remarked, g
-----------------------------------------------------------------------------
(***************************************************************************)
(* Recursion over the bytes of a word.                                     *)
(***************************************************************************)
LEMMA UpTo ==
  ASSUME NEW n \in Nat, NEW G, 0 \in G, \A k \in 1 .. n : k - 1 \in G => k \in G
  PROVE  0 .. n \subseteq G
<1> DEFINE T == (0 .. n) \ G
<1> SUFFICES ASSUME T # {} PROVE FALSE
  OBVIOUS
<1>1. T \subseteq Nat
  OBVIOUS
<1>2. PICK m \in T : \A k \in T : m <= k
  <2> HIDE DEF T
  <2> QED BY <1>1, LeastElement, Zenon
<1>3. m \in 1 .. n
  OBVIOUS
<1>4. m - 1 \in 0 .. n /\ ~ (m <= m - 1)
  BY <1>3
<1> QED BY <1>2, <1>3, <1>4

WordSteps(n, S) == [1 .. n -> [S -> S]]

ByteAfterByte(n, S, base, step) ==
  \E f \in [0 .. n -> S] : f[0] = base /\ \A k \in 1 .. n : f[k] = step[k][f[k - 1]]

LEMMA WordRecursion ==
  ASSUME NEW n \in Nat, NEW S, NEW base \in S, NEW step \in WordSteps(n, S)
  PROVE  ByteAfterByte(n, S, base, step)
<1> DEFINE Has(j) == \E f \in [0 .. n -> S] :
                       f[0] = base /\ \A k \in 1 .. j : f[k] = step[k][f[k - 1]]
           G == {j \in 0 .. n : Has(j)}
<1>1. 0 \in G
  <2> DEFINE f == [k \in 0 .. n |-> base]
  <2>1. f \in [0 .. n -> S] /\ f[0] = base
    OBVIOUS
  <2> HIDE DEF f
  <2>2. \A k \in 1 .. 0 : f[k] = step[k][f[k - 1]]
    OBVIOUS
  <2>3. Has(0)
    BY <2>1, <2>2
  <2> QED BY <2>3
<1>2. ASSUME NEW j \in 1 .. n, j - 1 \in G
      PROVE  j \in G
  <2>1. PICK f \in [0 .. n -> S] :
               f[0] = base /\ \A k \in 1 .. (j - 1) : f[k] = step[k][f[k - 1]]
    BY <1>2
  <2> DEFINE g == [f EXCEPT ![j] = step[j][f[j - 1]]]
  <2>2. step[j][f[j - 1]] \in S
    BY DEF WordSteps
  <2>3. g \in [0 .. n -> S] /\ g[j] = step[j][f[j - 1]] /\ \A k \in 0 .. (j - 1) : g[k] = f[k]
    BY <2>2
  <2> HIDE DEF g
  <2>4. g[0] = base
    BY <2>1, <2>3
  <2>5. ASSUME NEW k \in 1 .. j PROVE g[k] = step[k][g[k - 1]]
    <3>1. k - 1 \in 0 .. (j - 1)
      OBVIOUS
    <3>2. CASE k = j
      BY <2>3, <3>1, <3>2
    <3>3. CASE k # j
      <4>1. k \in 1 .. (j - 1) /\ k \in 0 .. (j - 1)
        BY <3>3
      <4> QED BY <2>1, <2>3, <3>1, <4>1
    <3> QED BY <3>2, <3>3
  <2>6. Has(j)
    BY <2>3, <2>4, <2>5
  <2> QED BY <2>6
<1>3. 0 .. n \subseteq G
  <2> HIDE DEF G
  <2> QED BY <1>1, <1>2, UpTo
<1>4. Has(n)
  BY <1>3
<1> QED BY <1>4 DEF ByteAfterByte
\* sMemory_load_le and sMemory_load_be: only memos and flags change.
LoadAt(address, size, big_endian, k) ==
  vec_plus(address, IF big_endian THEN size - k ELSE k - 1)

LoadStep(m, at, d) ==
  LET g == NextFlag(d.heap)
  IN  [heap |-> loadByte(g, m, at), bytes |-> Append(d.bytes, ByteValue(g, at)[m])]

Heaps ==
  [nodes : [Node -> sMemory \cup {Gone}], sMemInitStack : SUBSET Node, CurrsMemFlag : Nat]

Loading(h) == [heap : {g \in Heaps : Remarked(g, h)}, bytes : Seq(ByteVector)]

LEMMA PlusType ==
  ASSUME NEW address \in [Valuation -> Address], NEW k \in Int
  PROVE  vec_plus(address, k) \in [Valuation -> Address]
<1>1. AddressModulus \in Nat \ {0}
  BY SymbolicMemoryAssumption
<1>2. \A v \in Valuation : (address[v] + k) % AddressModulus \in 0 .. AddressModulus - 1
  <2> TAKE v \in Valuation
  <2>1. address[v] \in Int
    BY DEF Address
  <2> QED BY <1>1, <2>1
<1> QED BY <1>2 DEF vec_plus, Address

LEMMA LoadStepType ==
  ASSUME NEW h, HeapInv(h), NEW m \in Live(h), NEW at \in [Valuation -> Address],
         NEW d \in Loading(h)
  PROVE  LoadStep(m, at, d) \in Loading(h)
<1> DEFINE g == NextFlag(d.heap)
           l == loadByte(g, m, at)
           byte == ByteValue(g, at)[m]
<1>1. Remarked(d.heap, h) /\ d.bytes \in Seq(ByteVector)
  BY DEF Loading
<1>2. Remarked(g, d.heap)
  BY <1>1, NextFlagRemarks DEF Remarked
<1>3. Remarked(g, h)
  BY <1>1, <1>2, RemarkedIsTransitive
<1>4. HeapInv(g) /\ m \in Live(g)
  BY <1>3 DEF Remarked, SameShape
<1>5. Remarked(l, g)
  BY <1>4, LoadByteRemarks
<1>6. Remarked(l, h)
  BY <1>3, <1>5, RemarkedIsTransitive
<1>7. l \in Heaps
  BY <1>6 DEF Remarked, HeapInv, HeapType, Heaps
<1>8. byte \in ByteVector
  BY <1>4, ByteValues
<1>9. LoadStep(m, at, d) = [heap |-> l, bytes |-> Append(d.bytes, byte)]
  BY DEF LoadStep
<1> HIDE DEF g, l, byte
<1>10. Append(d.bytes, byte) \in Seq(ByteVector)
  BY <1>1, <1>8
<1> QED BY <1>6, <1>7, <1>9, <1>10 DEF Loading

\* The heaps and bytes after each byte of a load.
LoadsWord(h, m, address, size, big_endian, done) ==
  /\ done[0] = [heap |-> h, bytes |-> <<>>]
  /\ \A k \in 1 .. size :
       done[k] = LoadStep(m, LoadAt(address, size, big_endian, k), done[k - 1])
  /\ LoadWord(h, m, address, size, big_endian) =
       [heap |-> done[size].heap, bytes |-> done[size].bytes,
        last |-> LoadAt(address, size, big_endian, size)]

LEMMA LoadWordIs ==
  ASSUME NEW h, HeapInv(h), NEW m \in Live(h), NEW address \in [Valuation -> Address],
         NEW size \in Nat, NEW big_endian \in BOOLEAN
  PROVE  \E done \in [0 .. size -> Loading(h)] :
           LoadsWord(h, m, address, size, big_endian, done)
<1> DEFINE S == Loading(h)
           base == [heap |-> h, bytes |-> <<>>]
           at(k) == LoadAt(address, size, big_endian, k)
           step == [k \in 1 .. size |-> [d \in S |-> LoadStep(m, at(k), d)]]
           Is(f) == f = [k \in 0 .. size |->
                           IF k = 0 THEN base ELSE LoadStep(m, at(k), f[k - 1])]
           done == CHOOSE f : Is(f)
<1>1. base \in S
  <2>1. Remarked(h, h) /\ h \in Heaps
    BY DEF Remarked, SameShape, SameNode, HeapInv, HeapType, Heaps
  <2> QED BY <2>1 DEF Loading
<1>2. \A k \in 0 .. size : at(k) \in [Valuation -> Address]
  BY PlusType DEF LoadAt
<1>3. step \in WordSteps(size, S)
  <2>1. \A k \in 1 .. size, d \in S : LoadStep(m, at(k), d) \in S
    <3> HIDE DEF S, at
    <3>1. \A k \in 1 .. size : at(k) \in [Valuation -> Address]
      BY <1>2
    <3> QED BY <3>1, LoadStepType DEF S
  <2> HIDE DEF S, at
  <2> QED BY <2>1 DEF WordSteps
<1>4. ByteAfterByte(size, S, base, step)
  <2> HIDE DEF S, base, step
  <2> QED BY <1>1, <1>3, WordRecursion
<1>5. \E f : Is(f)
  <2>1. PICK f \in [0 .. size -> S] :
               f[0] = base /\ \A k \in 1 .. size : f[k] = step[k][f[k - 1]]
    <3> HIDE DEF S, base, step
    <3> QED BY <1>4 DEF ByteAfterByte
  <2>2. \A k \in 1 .. size : f[k] = LoadStep(m, at(k), f[k - 1])
    <3> HIDE DEF S, at
    <3>1. \A k \in 1 .. size, d \in S : step[k][d] = LoadStep(m, at(k), d)
      OBVIOUS
    <3>2. \A k \in 1 .. size : f[k - 1] \in S
      BY <2>1
    <3> HIDE DEF step
    <3> QED BY <2>1, <3>1, <3>2
  <2>3. \A k \in 0 .. size : f[k] = IF k = 0 THEN base ELSE LoadStep(m, at(k), f[k - 1])
    <3> HIDE DEF S, base, at
    <3> QED BY <2>1, <2>2
  <2>4. f = [k \in 0 .. size |-> IF k = 0 THEN base ELSE LoadStep(m, at(k), f[k - 1])]
    <3> HIDE DEF S, base, at
    <3> QED BY <2>1, <2>3
  <2> QED BY <2>4
<1>6. Is(done)
  <2> HIDE DEF Is
  <2> QED BY <1>5
<1>11. done = [k \in 0 .. size |-> done[k]]
  <2> HIDE DEF done, base, at
  <2> QED BY <1>6
<1>7. LoadWord(h, m, address, size, big_endian) =
        [heap |-> done[size].heap, bytes |-> done[size].bytes, last |-> at(size)]
  BY DEF LoadWord, LoadStep, LoadAt
<1>8. /\ done[0] = base
      /\ \A k \in 1 .. size : done[k] = LoadStep(m, at(k), done[k - 1])
  <2> HIDE DEF done, base, at
  <2> QED BY <1>6
<1> HIDE DEF done
<1>9. \A k \in 0 .. size : done[k] \in S
  <2> DEFINE G == {k \in 0 .. size : done[k] \in S}
  <2>1. 0 \in G
    BY <1>1, <1>8
  <2>2. \A k \in 1 .. size : k - 1 \in G => k \in G
    BY <1>2, <1>8, LoadStepType
  <2>3. 0 .. size \subseteq G
    <3> HIDE DEF G
    <3> QED BY <2>1, <2>2, UpTo
  <2> QED BY <2>3
<1>10. done \in [0 .. size -> S]
  <2> HIDE DEF S
  <2> QED BY <1>9, <1>11
<1>12. LoadsWord(h, m, address, size, big_endian, done)
  <2> HIDE DEF done
  <2> QED BY <1>7, <1>8 DEF LoadsWord
<1> QED BY <1>10, <1>12

LEMMA LoadWordRemarks ==
  ASSUME NEW h, HeapInv(h), NEW m \in Live(h), NEW address \in [Valuation -> Address],
         NEW size \in Nat, NEW big_endian \in BOOLEAN
  PROVE  LET load == LoadWord(h, m, address, size, big_endian)
         IN  /\ Remarked(load.heap, h)
             /\ load.bytes \in Seq(ByteVector)
             /\ load.last = LoadAt(address, size, big_endian, size)
<1>1. PICK done \in [0 .. size -> Loading(h)] :
             LoadsWord(h, m, address, size, big_endian, done)
  BY LoadWordIs
<1>2. done[size] \in Loading(h)
  OBVIOUS
<1> QED BY <1>1, <1>2 DEF Loading, LoadsWord
-----------------------------------------------------------------------------
(***************************************************************************)
(* Stores.                                                                 *)
(***************************************************************************)
LEMMA RemoveByteType ==
  ASSUME NEW cells \in Seq(Cell), NEW address
  PROVE  removeByte(cells, address) \in Seq(Cell)
<1> DEFINE same == {i \in DOMAIN cells : cells[i].address = address}
<1>1. CASE same = {}
  BY <1>1 DEF removeByte
<1>2. CASE same # {}
  <2>1. same \subseteq 0 .. Len(cells) /\ Len(cells) \in Nat
    OBVIOUS
  <2>2. Max(same) \in 1 .. Len(cells)
    <3>1. Max(same) \in same
      <4> HIDE DEF same
      <4> QED BY <1>2, <2>1, GreatestElement
    <3> QED BY <3>1
  <2> DEFINE i == Max(same)
  <2>3. removeByte(cells, address) = RemoveAt(cells, i)
    BY <1>2 DEF removeByte
  <2> HIDE DEF i
  <2>4. RemoveAt(cells, i) = SubSeq(cells, 1, i - 1) \o SubSeq(cells, i + 1, Len(cells))
    BY DEF RemoveAt
  <2>5. SubSeq(cells, 1, i - 1) \in Seq(Cell) /\ SubSeq(cells, i + 1, Len(cells)) \in Seq(Cell)
    <3>1. i \in 1 .. Len(cells) /\ Len(cells) \in Nat
      BY <2>2 DEF i
    <3>2. /\ 1 \in 1 .. Len(cells) + 1 /\ i - 1 \in 1 - 1 .. Len(cells)
          /\ i + 1 \in 1 .. Len(cells) + 1 /\ Len(cells) \in (i + 1) - 1 .. Len(cells)
      BY <3>1
    <3> QED BY <3>2, SubSeqProperties
  <2> QED BY <2>3, <2>4, <2>5
<1> QED BY <1>1, <1>2

LEMMA StoreByteType ==
  ASSUME NEW cells \in Seq(Cell), NEW address \in [Valuation -> Address],
         NEW byte \in ByteVector
  PROVE  storeByte(cells, address, byte) \in Seq(Cell)
<1>1. removeByte(cells, address) \in Seq(Cell)
  BY RemoveByteType
<1>2. [address |-> address, value |-> byte] \in Cell
  BY DEF Cell, ByteVector
<1> QED BY <1>1, <1>2 DEF storeByte

StoreStep(address, word, big_endian, k, cells) ==
  storeByte(cells, vec_plus(address, k - 1), ByteAt(word, big_endian, k - 1))

LEMMA StoreStepType ==
  ASSUME NEW cells \in Seq(Cell), NEW address \in [Valuation -> Address],
         NEW word \in Seq(ByteVector), NEW big_endian \in BOOLEAN, NEW k \in 1 .. Len(word)
  PROVE  StoreStep(address, word, big_endian, k, cells) \in Seq(Cell)
<1>1. ByteAt(word, big_endian, k - 1) \in ByteVector
  <2>1. Len(word) - (k - 1) \in 1 .. Len(word) /\ (k - 1) + 1 \in 1 .. Len(word)
    OBVIOUS
  <2>2. \A i \in 1 .. Len(word) : word[i] \in ByteVector
    OBVIOUS
  <2> QED BY <2>1, <2>2 DEF ByteAt
<1>2. vec_plus(address, k - 1) \in [Valuation -> Address]
  BY PlusType
<1> QED BY <1>1, <1>2, StoreByteType DEF StoreStep

\* The cells after each byte of a store.
StoresWord(cells, address, word, big_endian, stored) ==
  /\ stored[0] = cells
  /\ \A k \in 1 .. Len(word) :
       stored[k] = StoreStep(address, word, big_endian, k, stored[k - 1])
  /\ StoreWord(cells, address, word, big_endian) = stored[Len(word)]

LEMMA StoreWordIs ==
  ASSUME NEW cells \in Seq(Cell), NEW address \in [Valuation -> Address],
         NEW word \in Seq(ByteVector), NEW big_endian \in BOOLEAN
  PROVE  \E stored \in [0 .. Len(word) -> Seq(Cell)] :
           StoresWord(cells, address, word, big_endian, stored)
<1> DEFINE n == Len(word)
           S == Seq(Cell)
           Step(k, d) == StoreStep(address, word, big_endian, k, d)
           step == [k \in 1 .. n |-> [d \in S |-> Step(k, d)]]
           Is(f) == f = [k \in 0 .. n |-> IF k = 0 THEN cells ELSE Step(k, f[k - 1])]
           stored == CHOOSE f : Is(f)
<1>1. n \in Nat
  OBVIOUS
<1>2. \A k \in 1 .. n, d \in S : Step(k, d) \in S
  BY StoreStepType
<1>3. StoreWord(cells, address, word, big_endian) = stored[n]
  BY DEF StoreWord, StoreStep
<1>4. cells \in S
  OBVIOUS
<1> HIDE DEF n, S, Step
<1>5. step \in WordSteps(n, S)
  BY <1>2 DEF WordSteps
<1>6. ByteAfterByte(n, S, cells, step)
  <2> HIDE DEF step
  <2> QED BY <1>1, <1>4, <1>5, WordRecursion
<1>7. \E f : Is(f)
  <2>1. PICK f \in [0 .. n -> S] :
               f[0] = cells /\ \A k \in 1 .. n : f[k] = step[k][f[k - 1]]
    <3> HIDE DEF step
    <3> QED BY <1>6 DEF ByteAfterByte
  <2>2. \A k \in 1 .. n : f[k] = Step(k, f[k - 1])
    <3>1. \A k \in 1 .. n, d \in S : step[k][d] = Step(k, d)
      OBVIOUS
    <3>2. \A k \in 1 .. n : f[k - 1] \in S
      BY <1>1, <2>1
    <3> HIDE DEF step
    <3> QED BY <2>1, <3>1, <3>2
  <2>3. \A k \in 0 .. n : f[k] = IF k = 0 THEN cells ELSE Step(k, f[k - 1])
    BY <1>1, <2>1, <2>2
  <2>4. f = [k \in 0 .. n |-> IF k = 0 THEN cells ELSE Step(k, f[k - 1])]
    BY <2>1, <2>3
  <2> QED BY <2>4
<1>8. Is(stored)
  <2> HIDE DEF Is
  <2> QED BY <1>7
<1>12. stored = [k \in 0 .. n |-> stored[k]]
  <2> HIDE DEF stored
  <2> QED BY <1>8
<1>9. /\ stored[0] = cells
      /\ \A k \in 1 .. n : stored[k] = Step(k, stored[k - 1])
  <2> HIDE DEF stored
  <2> QED BY <1>1, <1>8
<1> HIDE DEF stored
<1>10. \A k \in 0 .. n : stored[k] \in S
  <2> DEFINE G == {k \in 0 .. n : stored[k] \in S}
  <2>1. 0 \in G
    BY <1>1, <1>4, <1>9
  <2>2. \A k \in 1 .. n : k - 1 \in G => k \in G
    BY <1>1, <1>2, <1>9
  <2>3. 0 .. n \subseteq G
    <3> HIDE DEF G
    <3> QED BY <1>1, <2>1, <2>2, UpTo
  <2> QED BY <2>3
<1>11. stored \in [0 .. n -> S]
  BY <1>10, <1>12
<1> QED BY <1>3, <1>9, <1>11 DEF S, n, Step, StoresWord

LEMMA StoreWordType ==
  ASSUME NEW cells \in Seq(Cell), NEW address \in [Valuation -> Address],
         NEW word \in Seq(ByteVector), NEW big_endian \in BOOLEAN
  PROVE  StoreWord(cells, address, word, big_endian) \in Seq(Cell)
<1>1. Len(word) \in 0 .. Len(word)
  OBVIOUS
<1> QED BY <1>1, StoreWordIs DEF StoresWord

\* What a store may do to the heap: the cells of one node change.
LEMMA StoreKeepsHeap ==
  ASSUME NEW h, HeapInv(h), NEW m \in Live(h), NEW cells \in Seq(Cell)
  PROVE  LET g == [h EXCEPT !.nodes[m].cells = cells]
         IN  /\ HeapInv(g)
             /\ SameShape(g, h)
<1> DEFINE node == [h.nodes[m] EXCEPT !.cells = cells]
           g == [h EXCEPT !.nodes[m].cells = cells]
<1>1. /\ HeapType(h) /\ m \in Node /\ h.nodes[m] \in sMemory
      /\ h.nodes \in [Node -> sMemory \cup {Gone}]
      /\ h.sMemInitStack \in SUBSET Node /\ h.CurrsMemFlag \in Nat
  BY HeapFacts DEF HeapInv, HeapType
<1>2. /\ node \in sMemory /\ node # Gone
      /\ node.sMemT = h.nodes[m].sMemT /\ node.sMemF = h.nodes[m].sMemF
      /\ node.memoized_flag = h.nodes[m].memoized_flag
  <2>1. /\ node \in sMemory
        /\ node.sMemT = h.nodes[m].sMemT /\ node.sMemF = h.nodes[m].sMemF
        /\ node.memoized_flag = h.nodes[m].memoized_flag
    BY <1>1 DEF sMemory
  <2> QED BY <2>1, SymbolicMemoryAssumption
<1>3. g = [h EXCEPT !.nodes[m] = node]
  BY <1>1 DEF HeapType
<1> HIDE DEF g, node
<1>4. /\ g.nodes = [h.nodes EXCEPT ![m] = node]
      /\ g.sMemInitStack = h.sMemInitStack
      /\ g.CurrsMemFlag = h.CurrsMemFlag
      /\ HeapType(g)
  BY <1>1, <1>2, <1>3 DEF HeapType
<1>5. g.nodes[m] = node /\ \A n \in Node \ {m} : g.nodes[n] = h.nodes[n]
  BY <1>1, <1>4
<1>6. Live(g) = Live(h)
  BY <1>1, <1>2, <1>5 DEF Live
<1>7. SameShape(g, h)
  <2>1. \A n \in Live(h) : g.nodes[n].sMemT = h.nodes[n].sMemT
                           /\ g.nodes[n].sMemF = h.nodes[n].sMemF
    BY <1>2, <1>5 DEF Live
  <2> QED BY <1>4, <1>6, <2>1 DEF SameShape
<1>8. \A n \in Live(g) : g.nodes[n].memoized_flag = h.nodes[n].memoized_flag
  BY <1>2, <1>5, <1>6 DEF Live
<1>9. \A n \in Live(g) : g.nodes[n].memoized_flag <= g.CurrsMemFlag
  BY <1>4, <1>6, <1>8, HeapFacts
<1> QED BY <1>4, <1>7, <1>9, ShapeKeepsHeap DEF g
-----------------------------------------------------------------------------
(***************************************************************************)
(* The memories that are held.  Those of the open forks wait: a copy or a  *)
(* result in other, which is a part of no memory, and under them orig,     *)
(* which is a part of what forked from it but of nothing older.            *)
(***************************************************************************)
Frame ==
  [c : Condition, side : BOOLEAN, orig : Node, copy_t : Node, other : Node, t_error : {0, 1}]

WaitingFor(fs) == UNION {{fs[k].orig, fs[k].other} : k \in 1 .. Len(fs)}

HeldBy(m, fs) == {m} \cup WaitingFor(fs)

Distinct(m, fs) ==
  /\ \A k \in 1 .. Len(fs) : fs[k].orig # m /\ fs[k].other # m
  /\ \A j, k \in 1 .. Len(fs) :
       /\ fs[k].orig # fs[j].other
       /\ j # k => fs[k].orig # fs[j].orig /\ fs[k].other # fs[j].other

Unshared(h, m) == \A n \in Live(h) : m \notin Children(h, n)

Older(fs, k) == {fs[k].orig} \cup UNION {{fs[j].orig, fs[j].other} : j \in 1 .. k - 1}

Waiting(h, fs) ==
  \A k \in 1 .. Len(fs) :
    /\ Unshared(h, fs[k].other)
    /\ \A n \in Parts(h, Older(fs, k)) : fs[k].orig \notin Children(h, n)

Structure(h, m, fs) ==
  /\ HeapInv(h)
  /\ fs \in Seq(Frame)
  /\ h.sMemInitStack = HeldBy(m, fs)
  /\ Distinct(m, fs)
  /\ Unshared(h, m)
  /\ Waiting(h, fs)

LEMMA OlderWaits ==
  ASSUME NEW fs, NEW k \in 1 .. Len(fs), Len(fs) \in Nat
  PROVE  Older(fs, k) \subseteq WaitingFor(fs)
<1>1. \A j \in 1 .. k - 1 : j \in 1 .. Len(fs)
  OBVIOUS
<1> QED BY <1>1 DEF Older, WaitingFor

LEMMA StructureFacts ==
  ASSUME NEW h, NEW m, NEW fs, Structure(h, m, fs)
  PROVE  /\ HeapInv(h) /\ Graph(h) /\ Len(fs) \in Nat
         /\ m \in h.sMemInitStack /\ m \in Live(h) /\ m \in Node
         /\ WaitingFor(fs) \subseteq h.sMemInitStack
         /\ WaitingFor(fs) \subseteq Live(h)
<1>1. HeapInv(h) /\ fs \in Seq(Frame) /\ h.sMemInitStack = HeldBy(m, fs)
  BY DEF Structure
<1>2. Len(fs) \in Nat
  BY <1>1
<1>3. m \in h.sMemInitStack /\ WaitingFor(fs) \subseteq h.sMemInitStack
  BY <1>1 DEF HeldBy
<1>4. Live(h) \subseteq Node /\ h.sMemInitStack \subseteq Live(h)
  BY <1>1, HeapFacts
<1>5. Graph(h)
  BY <1>1 DEF HeapInv
<1> QED BY <1>1, <1>2, <1>3, <1>4, <1>5

LEMMA SameShapeKeepsStructure ==
  ASSUME NEW g, NEW h, NEW m, NEW fs, Structure(h, m, fs), HeapInv(g), SameShape(g, h)
  PROVE  Structure(g, m, fs)
<1>1. /\ \A n \in Live(h) : Children(g, n) = Children(h, n)
      /\ \A n \in Node : Reach(g, n) = Reach(h, n)
      /\ Live(g) = Live(h) /\ g.sMemInitStack = h.sMemInitStack
  BY ShapeReaches DEF SameShape
<1>2. \A n : Unshared(h, n) => Unshared(g, n)
  BY <1>1 DEF Unshared
<1>3. \A k \in 1 .. Len(fs) : /\ Parts(g, Older(fs, k)) = Parts(h, Older(fs, k))
                              /\ Parts(h, Older(fs, k)) \subseteq Live(h)
  <2> TAKE k \in 1 .. Len(fs)
  <2>1. Older(fs, k) \subseteq Live(h)
    BY OlderWaits, StructureFacts
  <2>2. \A n \in Older(fs, k) : Reach(g, n) = Reach(h, n) /\ Reach(h, n) \subseteq Live(h)
    BY <1>1, <2>1, ReachIsLive, StructureFacts DEF Live
  <2> QED BY <2>2 DEF Parts
<1>4. Waiting(g, fs)
  BY <1>1, <1>2, <1>3 DEF Structure, Waiting
<1> QED BY <1>1, <1>2, <1>4 DEF Structure

\* What waits keeps waiting when other nodes go,
LEMMA WaitingInPart ==
  ASSUME NEW g, NEW h, HeapInv(g), HeapInv(h), PartOf(g, h),
         NEW fs \in Seq(Frame), Waiting(h, fs), WaitingFor(fs) \subseteq Live(g)
  PROVE  Waiting(g, fs)
<1>1. Graph(g) /\ Graph(h)
  BY DEF HeapInv
<1>2. \A n \in Live(g) : Children(g, n) = Children(h, n) /\ n \in Live(h)
  BY PartHasChildren DEF PartOf
<1>3. \A n : Unshared(h, n) => Unshared(g, n)
  BY <1>2 DEF Unshared
<1>4. ASSUME NEW k \in 1 .. Len(fs), NEW n \in Parts(g, Older(fs, k))
      PROVE  fs[k].orig \notin Children(g, n)
  <2>1. Older(fs, k) \subseteq Live(g)
    BY OlderWaits
  <2>2. \A r \in Older(fs, k) : Reach(g, r) = Reach(h, r) /\ Reach(g, r) \subseteq Live(g)
    BY <1>1, <2>1, PartReaches, ReachIsLive
  <2>3. n \in Parts(h, Older(fs, k)) /\ n \in Live(g)
    BY <2>2 DEF Parts
  <2> QED BY <1>2, <2>3 DEF Waiting
<1> QED BY <1>3, <1>4 DEF Waiting

\* and when a node is added that does not refer to a memory in other.
LEMMA WaitingWithNewNode ==
  ASSUME NEW g, NEW h, HeapInv(g), HeapInv(h), PartOf(h, g), NEW new,
         Live(g) = Live(h) \cup {new},
         NEW fs \in Seq(Frame), Waiting(h, fs), WaitingFor(fs) \subseteq Live(h),
         \A k \in 1 .. Len(fs) : fs[k].other \notin Children(g, new)
  PROVE  Waiting(g, fs)
<1>1. Graph(g) /\ Graph(h)
  BY DEF HeapInv
<1>2. \A n \in Live(h) : Children(g, n) = Children(h, n)
  BY PartHasChildren
<1>3. \A k \in 1 .. Len(fs) : Unshared(g, fs[k].other)
  BY <1>2 DEF Unshared, Waiting
<1>4. ASSUME NEW k \in 1 .. Len(fs), NEW n \in Parts(g, Older(fs, k))
      PROVE  fs[k].orig \notin Children(g, n)
  <2>1. Older(fs, k) \subseteq Live(h)
    BY OlderWaits
  <2>2. \A r \in Older(fs, k) : Reach(g, r) = Reach(h, r) /\ Reach(h, r) \subseteq Live(h)
    BY <1>1, <2>1, PartReaches, ReachIsLive
  <2>3. n \in Parts(h, Older(fs, k)) /\ n \in Live(h)
    BY <2>2 DEF Parts
  <2> QED BY <1>2, <2>3 DEF Waiting
<1> QED BY <1>3, <1>4 DEF Waiting
-----------------------------------------------------------------------------
(***************************************************************************)
(* The steps of conditional_branch.                                        *)
(***************************************************************************)
ForkFrame(c, m, t, f) ==
  [c |-> c, side |-> TRUE, orig |-> m, copy_t |-> t, other |-> f, t_error |-> 0]

LEMMA AppendFrame ==
  ASSUME NEW fs \in Seq(Frame), NEW x \in Frame
  PROVE  /\ Append(fs, x) \in Seq(Frame)
         /\ Len(Append(fs, x)) = Len(fs) + 1
         /\ \A k \in 1 .. Len(fs) : Append(fs, x)[k] = fs[k]
         /\ Append(fs, x)[Len(fs) + 1] = x
         /\ WaitingFor(Append(fs, x)) = WaitingFor(fs) \cup {x.orig, x.other}
<1> DEFINE gs == Append(fs, x)
<1>1. /\ gs \in Seq(Frame)
      /\ Len(gs) = Len(fs) + 1
      /\ \A k \in 1 .. Len(fs) : gs[k] = fs[k]
      /\ gs[Len(fs) + 1] = x
  OBVIOUS
<1> HIDE DEF gs
<1>2. Len(fs) \in Nat /\ 1 .. Len(gs) = (1 .. Len(fs)) \cup {Len(fs) + 1}
  BY <1>1
<1>3. WaitingFor(gs) = WaitingFor(fs) \cup {x.orig, x.other}
  <2>1. \A y : y \in WaitingFor(gs) <=>
                 \E k \in 1 .. Len(gs) : y = gs[k].orig \/ y = gs[k].other
    BY DEF WaitingFor
  <2>2. \A y : y \in WaitingFor(fs) <=>
                 \E k \in 1 .. Len(fs) : y = fs[k].orig \/ y = fs[k].other
    BY DEF WaitingFor
  <2> QED BY <1>1, <1>2, <2>1, <2>2
<1> QED BY <1>1, <1>3 DEF gs

\* conditional_branch takes two copies, one after the other.
Copied(h, m, t, g, f, e) ==
  /\ HeapInv(g) /\ HeapInv(e)
  /\ t \in Node /\ t \notin Live(h) /\ f \in Node /\ f \notin Live(g)
  /\ Live(g) = Live(h) \cup {t} /\ Live(e) = Live(g) \cup {f}
  /\ PartOf(h, g) /\ PartOf(g, e)
  /\ g.sMemInitStack = h.sMemInitStack \cup {t}
  /\ e.sMemInitStack = g.sMemInitStack \cup {f}
  /\ g.nodes[t].sMemT = m /\ g.nodes[t].sMemF = NULL /\ g.nodes[t].cells = <<>>
  /\ e.nodes[f].sMemT = m /\ e.nodes[f].sMemF = NULL /\ e.nodes[f].cells = <<>>

LEMMA TwoCopies ==
  ASSUME NEW h, HeapInv(h), NEW m \in Live(h), Cardinality(Node \ Live(h)) >= 2
  PROVE  LET g == sMemory_copy(h, m)
         IN  Copied(h, m, NewNode(h), g, NewNode(g), sMemory_copy(g, m))
<1> DEFINE t == NewNode(h)
           g == sMemory_copy(h, m)
           f == NewNode(g)
           e == sMemory_copy(g, m)
<1>1. IsFiniteSet(Node \ Live(h))
  <2>1. MaxNodes \in Int
    BY SymbolicMemoryAssumption
  <2>2. IsFiniteSet(Node)
    BY <2>1, FS_Interval DEF Node
  <2> QED BY <2>2, FS_Subset
<1>2. Node \ Live(h) # {}
  BY FS_EmptySet
<1>3. Const1 \in Literal
  BY DEF Const1, Literal
<1>4. /\ HeapInv(g)
      /\ t \in Node /\ t \notin Live(h)
      /\ Live(g) = Live(h) \cup {t}
      /\ PartOf(h, g)
      /\ g.sMemInitStack = h.sMemInitStack \cup {t}
      /\ g.nodes[t].sMemT = m /\ g.nodes[t].sMemF = NULL /\ g.nodes[t].cells = <<>>
  BY <1>2, <1>3, InitAddsNode DEF sMemory_copy
<1>5. Node \ Live(g) # {}
  <2>1. Node \ Live(g) = (Node \ Live(h)) \ {t}
    BY <1>4
  <2>2. Cardinality((Node \ Live(h)) \ {t}) = Cardinality(Node \ Live(h)) - 1
    BY <1>1, <1>4, FS_RemoveElement
  <2>3. Cardinality(Node \ Live(h)) \in Nat
    BY <1>1, FS_CardinalityType
  <2>4. Cardinality({}) = 0
    BY FS_EmptySet
  <2> HIDE DEF g
  <2>5. Cardinality(Node \ Live(g)) = Cardinality(Node \ Live(h)) - 1
    BY ONLY <2>1, <2>2
  <2> QED BY <2>3, <2>4, <2>5
<1>6. /\ HeapInv(e)
      /\ f \in Node /\ f \notin Live(g)
      /\ Live(e) = Live(g) \cup {f}
      /\ PartOf(g, e)
      /\ e.sMemInitStack = g.sMemInitStack \cup {f}
      /\ e.nodes[f].sMemT = m /\ e.nodes[f].sMemF = NULL /\ e.nodes[f].cells = <<>>
  <2>1. m \in Live(g)
    BY <1>4
  <2> HIDE DEF g
  <2> QED BY <1>3, <1>4, <1>5, <2>1, InitAddsNode DEF sMemory_copy
<1> QED BY <1>4, <1>6 DEF Copied

LEMMA ForkKeepsStructure ==
  ASSUME NEW h, NEW m, NEW fs, Structure(h, m, fs), NEW c \in Condition,
         Cardinality(Node \ Live(h)) >= 2
  PROVE  LET t == NewNode(h)
             g == sMemory_copy(h, m)
             f == NewNode(g)
         IN  Structure(sMemory_copy(g, m), t, Append(fs, ForkFrame(c, m, t, f)))
<1> DEFINE t == NewNode(h)
           g == sMemory_copy(h, m)
           f == NewNode(g)
           e == sMemory_copy(g, m)
           x == ForkFrame(c, m, t, f)
           gs == Append(fs, x)
<1>1. /\ HeapInv(h) /\ Graph(h) /\ Len(fs) \in Nat
      /\ m \in h.sMemInitStack /\ m \in Live(h) /\ m \in Node
      /\ WaitingFor(fs) \subseteq Live(h)
      /\ fs \in Seq(Frame)
      /\ h.sMemInitStack = HeldBy(m, fs)
      /\ Distinct(m, fs) /\ Unshared(h, m) /\ Waiting(h, fs)
  BY StructureFacts DEF Structure
<1>2. /\ HeapInv(g)
      /\ t \in Node /\ t \notin Live(h)
      /\ Live(g) = Live(h) \cup {t}
      /\ PartOf(h, g)
      /\ g.sMemInitStack = h.sMemInitStack \cup {t}
      /\ g.nodes[t].sMemT = m /\ g.nodes[t].sMemF = NULL
      /\ HeapInv(e)
      /\ f \in Node /\ f \notin Live(g)
      /\ Live(e) = Live(g) \cup {f}
      /\ PartOf(g, e)
      /\ e.sMemInitStack = g.sMemInitStack \cup {f}
      /\ e.nodes[f].sMemT = m /\ e.nodes[f].sMemF = NULL
  <2>1. Copied(h, m, t, g, f, e)
    BY <1>1, TwoCopies
  <2> HIDE DEF t, f, g, e
  <2> QED BY <2>1 DEF Copied
<1> HIDE DEF t, f, g, e
<1>3. /\ Children(g, t) \subseteq {m} /\ Children(e, f) \subseteq {m}
      /\ Children(e, t) \subseteq {m}
      /\ \A n \in Live(h) : Children(g, n) = Children(h, n) /\ Children(e, n) = Children(h, n)
      /\ \A n \in Live(h) : Children(h, n) \subseteq Live(h)
  <2>1. Children(g, t) \subseteq {m} /\ Children(e, f) \subseteq {m}
    BY <1>2 DEF Children
  <2>2. \A n \in Live(g) : Children(e, n) = Children(g, n)
    BY <1>2, PartHasChildren
  <2>3. \A n \in Live(h) : Children(g, n) = Children(h, n)
    BY <1>2, PartHasChildren
  <2>4. \A n \in Live(h) : Children(h, n) \subseteq Live(h)
    BY <1>1 DEF Graph
  <2> QED BY <1>2, <2>1, <2>2, <2>3, <2>4
<1>4. x \in Frame /\ x.orig = m /\ x.other = f
  BY <1>1, <1>2 DEF ForkFrame, Frame
<1> HIDE DEF x
<1>5. /\ gs \in Seq(Frame)
      /\ Len(gs) = Len(fs) + 1
      /\ \A k \in 1 .. Len(fs) : gs[k] = fs[k]
      /\ gs[Len(fs) + 1] = x
      /\ WaitingFor(gs) = WaitingFor(fs) \cup {m, f}
  BY <1>1, <1>4, AppendFrame
<1> HIDE DEF gs
<1>6. 1 .. Len(gs) = (1 .. Len(fs)) \cup {Len(fs) + 1}
  BY <1>1, <1>5
<1>7. e.sMemInitStack = HeldBy(t, gs)
  BY <1>1, <1>2, <1>5 DEF HeldBy
<1>8. \A k \in 1 .. Len(fs) : /\ fs[k].orig \in Live(h) /\ fs[k].other \in Live(h)
                              /\ fs[k].orig # m /\ fs[k].other # m
  BY <1>1 DEF WaitingFor, Distinct
<1>9. Distinct(t, gs)
  <2>1. \A k \in 1 .. Len(gs) : gs[k].orig # t /\ gs[k].other # t
    BY <1>1, <1>2, <1>4, <1>5, <1>6, <1>8
  <2>2. \A j, k \in 1 .. Len(fs) :
          /\ gs[k].orig # gs[j].other
          /\ j # k => gs[k].orig # gs[j].orig /\ gs[k].other # gs[j].other
    BY <1>1, <1>5 DEF Distinct
  <2>3. gs[Len(fs) + 1].orig = m /\ gs[Len(fs) + 1].other = f /\ m # f
    BY <1>1, <1>2, <1>4, <1>5
  <2>4. \A k \in 1 .. Len(fs) : /\ gs[k].orig # m /\ gs[k].other # m
                                /\ gs[k].orig # f /\ gs[k].other # f
    BY <1>2, <1>5, <1>8
  <2>5. \A j, k \in 1 .. Len(gs) :
          /\ gs[k].orig # gs[j].other
          /\ j # k => gs[k].orig # gs[j].orig /\ gs[k].other # gs[j].other
    BY <1>6, <2>2, <2>3, <2>4
  <2> QED BY <2>1, <2>5 DEF Distinct
<1>10. Unshared(e, t) /\ Unshared(e, f)
  BY <1>1, <1>2, <1>3 DEF Unshared
<1>11. Waiting(e, fs)
  <2>1. Waiting(g, fs)
    BY <1>1, <1>2, <1>3, <1>8, WaitingWithNewNode
  <2>2. WaitingFor(fs) \subseteq Live(g)
    BY <1>1, <1>2
  <2>3. \A k \in 1 .. Len(fs) : fs[k].other \notin Children(e, f)
    BY <1>3, <1>8
  <2> QED BY <1>1, <1>2, <2>1, <2>2, <2>3, WaitingWithNewNode
<1>12. Waiting(e, gs)
  <2>1. ASSUME NEW k \in 1 .. Len(fs)
        PROVE  Older(gs, k) = Older(fs, k)
    <3>1. \A j \in 1 .. k - 1 : gs[j] = fs[j]
      BY <1>5
    <3>2. gs[k] = fs[k]
      BY <1>5
    <3>3. {{gs[j].orig, gs[j].other} : j \in 1 .. k - 1} =
          {{fs[j].orig, fs[j].other} : j \in 1 .. k - 1}
      BY <3>1
    <3> QED BY <3>2, <3>3 DEF Older
  <2>2. \A k \in 1 .. Len(fs) :
          /\ Unshared(e, gs[k].other)
          /\ \A n \in Parts(e, Older(gs, k)) : gs[k].orig \notin Children(e, n)
    BY <1>5, <1>11, <2>1 DEF Waiting
  <2>3. Parts(e, Older(gs, Len(fs) + 1)) \subseteq Live(h)
    <3>1. Older(gs, Len(fs) + 1) \subseteq Live(h)
      <4>1. \A j \in 1 .. Len(fs) : gs[j].orig \in Live(h) /\ gs[j].other \in Live(h)
        BY <1>5, <1>8
      <4>2. (Len(fs) + 1) - 1 = Len(fs)
        BY <1>1
      <4> QED BY <1>1, <1>4, <1>5, <4>1, <4>2 DEF Older
    <3>2. PartOf(h, e)
      BY <1>2 DEF PartOf, SameNode
    <3>3. \A r \in Live(h) : Reach(e, r) = Reach(h, r) /\ Reach(h, r) \subseteq Live(h)
      BY <1>1, <1>2, <3>2, PartReaches, ReachIsLive DEF HeapInv
    <3> QED BY <3>1, <3>3 DEF Parts
  <2>4. \A n \in Parts(e, Older(gs, Len(fs) + 1)) : m \notin Children(e, n)
    BY <1>1, <1>3, <2>3 DEF Unshared
  <2> QED BY <1>4, <1>5, <1>6, <1>10, <2>2, <2>4 DEF Waiting
<1> QED BY <1>2, <1>5, <1>7, <1>9, <1>10, <1>12 DEF Structure, t, f, g, e, gs, x

\* The memory and the copy or result that waits change places.
LEMMA SwitchKeepsStructure ==
  ASSUME NEW h, NEW m, NEW fs, Structure(h, m, fs), fs # <<>>, NEW error \in {0, 1},
         NEW gs, gs = [fs EXCEPT ![Len(fs)] =
                         [@ EXCEPT !.side = FALSE, !.other = m, !.t_error = error]]
  PROVE  Structure(h, fs[Len(fs)].other, gs)
<1> DEFINE n == Len(fs)
           top == fs[n]
           x == [top EXCEPT !.side = FALSE, !.other = m, !.t_error = error]
<1>1. /\ HeapInv(h) /\ m \in Node /\ fs \in Seq(Frame)
      /\ h.sMemInitStack = HeldBy(m, fs)
      /\ Distinct(m, fs) /\ Unshared(h, m) /\ Waiting(h, fs)
  BY StructureFacts DEF Structure
<1>2. n \in Nat /\ n \in 1 .. n /\ 1 .. n = (1 .. n - 1) \cup {n}
  BY <1>1
<1>3. top \in Frame
  BY <1>1, <1>2
<1>4. x \in Frame /\ x.orig = top.orig /\ x.other = m
  BY <1>1, <1>3 DEF Frame
<1>5. gs = [fs EXCEPT ![n] = x]
  OBVIOUS
<1> HIDE DEF x
<1>6. /\ gs \in Seq(Frame) /\ Len(gs) = n /\ gs[n] = x
      /\ \A k \in 1 .. n - 1 : gs[k] = fs[k]
  <2>1. fs \in Seq(Frame) /\ Len(fs) = n
    BY <1>1
  <2> HIDE DEF n
  <2> QED BY ONLY <2>1, <1>2, <1>4, <1>5
<1> HIDE DEF n, top
<1>7. HeldBy(top.other, gs) = HeldBy(m, fs)
  <2>1. \A y : y \in HeldBy(top.other, gs) <=>
                 y = top.other \/ \E k \in 1 .. n : y = gs[k].orig \/ y = gs[k].other
    BY <1>6 DEF HeldBy, WaitingFor
  <2>2. \A y : y \in HeldBy(m, fs) <=>
                 y = m \/ \E k \in 1 .. n : y = fs[k].orig \/ y = fs[k].other
    BY DEF HeldBy, WaitingFor, n
  <2>3. \A k \in 1 .. n : /\ gs[k].orig = fs[k].orig
                          /\ gs[k].other = IF k = n THEN m ELSE fs[k].other
    BY <1>2, <1>4, <1>6 DEF top
  <2>4. n \in 1 .. n /\ fs[n].other = top.other
    BY <1>2 DEF top
  <2>5. \A y : y \in HeldBy(top.other, gs) <=> y \in HeldBy(m, fs)
    BY ONLY <2>1, <2>2, <2>3, <2>4
  <2> QED BY <2>5
<1>8. Distinct(top.other, gs)
  <2>1. /\ \A k \in 1 .. n : fs[k].orig # m /\ fs[k].other # m
        /\ \A j, k \in 1 .. n :
             /\ fs[k].orig # fs[j].other
             /\ j # k => fs[k].orig # fs[j].orig /\ fs[k].other # fs[j].other
    BY <1>1 DEF Distinct, n
  <2>2. \A k \in 1 .. n : gs[k].orig = fs[k].orig
    BY <1>2, <1>4, <1>6 DEF top
  <2>3. \A k \in 1 .. n : gs[k].other = IF k = n THEN m ELSE fs[k].other
    BY <1>2, <1>4, <1>6
  <2>4. \A k \in 1 .. n : gs[k].orig # top.other /\ gs[k].other # top.other
    BY <1>2, <2>1, <2>2, <2>3 DEF top
  <2>5. \A j, k \in 1 .. n :
          /\ gs[k].orig # gs[j].other
          /\ j # k => gs[k].orig # gs[j].orig /\ gs[k].other # gs[j].other
    BY <2>1, <2>2, <2>3
  <2> QED BY <1>6, <2>4, <2>5 DEF Distinct
<1>9. Unshared(h, top.other)
  BY <1>1, <1>2 DEF Waiting, top, n
<1>10. Waiting(h, gs)
  <2> SUFFICES ASSUME NEW k \in 1 .. n
               PROVE  /\ Unshared(h, gs[k].other)
                      /\ \A p \in Parts(h, Older(gs, k)) : gs[k].orig \notin Children(h, p)
    BY <1>6 DEF Waiting
  <2>1. gs[k].orig = fs[k].orig
    BY <1>2, <1>4, <1>6 DEF top
  <2>2. Older(gs, k) = Older(fs, k)
    <3>1. \A j \in 1 .. k - 1 : gs[j] = fs[j]
      BY <1>2, <1>6
    <3>2. {{gs[j].orig, gs[j].other} : j \in 1 .. k - 1} =
          {{fs[j].orig, fs[j].other} : j \in 1 .. k - 1}
      BY <3>1
    <3> QED BY <2>1, <3>2 DEF Older
  <2>3. Unshared(h, gs[k].other)
    BY <1>1, <1>2, <1>4, <1>6 DEF Waiting, n
  <2> QED BY <1>1, <2>1, <2>2, <2>3 DEF Waiting, n
<1> QED BY <1>1, <1>6, <1>7, <1>8, <1>9, <1>10 DEF Structure, top, n

\* The forks under the newest one.
Under(h, m, fs, rest, top) ==
  /\ rest \in Seq(Frame)
  /\ Waiting(h, rest)
  /\ WaitingFor(rest) = h.sMemInitStack \ {m, top.orig, top.other}
  /\ WaitingFor(rest) \cup {top.orig} = Older(fs, Len(fs))
  /\ top \in Frame
  /\ m # top.orig /\ m # top.other /\ top.orig # top.other
  /\ {m, top.orig, top.other} \subseteq h.sMemInitStack
  /\ \A k \in 1 .. Len(rest) : rest[k].other \in WaitingFor(rest)
  /\ \A r : r \notin WaitingFor(rest) => Distinct(r, rest)

LEMMA RestOfFrames ==
  ASSUME NEW h, NEW m, NEW fs, Structure(h, m, fs), fs # <<>>,
         NEW rest, rest = SubSeq(fs, 1, Len(fs) - 1)
  PROVE  Under(h, m, fs, rest, fs[Len(fs)])
<1> DEFINE n == Len(fs)
           top == fs[n]
<1>1. /\ fs \in Seq(Frame)
      /\ h.sMemInitStack = HeldBy(m, fs)
      /\ Distinct(m, fs) /\ Waiting(h, fs)
  BY DEF Structure
<1>2. n \in Nat /\ n \in 1 .. n /\ 1 .. n = (1 .. n - 1) \cup {n} /\ n - 1 \in Nat
  BY <1>1
<1>3. /\ rest \in Seq(Frame) /\ Len(rest) = n - 1
      /\ \A k \in 1 .. n - 1 : rest[k] = fs[k]
  <2> DEFINE j == n - 1
  <2>1. j \in Nat /\ \A i \in 1 .. j : fs[i] \in Frame
    BY <1>1, <1>2
  <2>2. rest = SubSeq(fs, 1, j)
    OBVIOUS
  <2> HIDE DEF j
  <2>3. /\ SubSeq(fs, 1, j) \in Seq(Frame)
        /\ Len(SubSeq(fs, 1, j)) = IF 1 <= j THEN j - 1 + 1 ELSE 0
        /\ \A i \in 1 .. j - 1 + 1 : SubSeq(fs, 1, j)[i] = fs[1 + i - 1]
    BY <2>1, SubSeqProperties
  <2>4. rest \in Seq(Frame) /\ Len(rest) = j /\ \A k \in 1 .. j : rest[k] = fs[k]
    BY ONLY <2>1, <2>2, <2>3
  <2> QED BY <2>4 DEF j
<1>4. top \in Frame
  BY <1>1, <1>2
<1>5. /\ \A k \in 1 .. n : fs[k].orig # m /\ fs[k].other # m
      /\ \A j, k \in 1 .. n :
           /\ fs[k].orig # fs[j].other
           /\ j # k => fs[k].orig # fs[j].orig /\ fs[k].other # fs[j].other
  BY <1>1 DEF Distinct
<1> HIDE DEF n, top
<1>6. \A y : y \in WaitingFor(rest) <=>
               \E k \in 1 .. n - 1 : y = fs[k].orig \/ y = fs[k].other
  BY <1>3 DEF WaitingFor
<1>7. \A y : y \in h.sMemInitStack <=>
               y = m \/ \E k \in 1 .. n : y = fs[k].orig \/ y = fs[k].other
  BY <1>1 DEF HeldBy, WaitingFor, n
<1>8. /\ m # top.orig /\ m # top.other /\ top.orig # top.other
      /\ {m, top.orig, top.other} \subseteq h.sMemInitStack
  BY <1>2, <1>5, <1>7 DEF top
<1>9. WaitingFor(rest) = h.sMemInitStack \ {m, top.orig, top.other}
  <2>1. \A k \in 1 .. n - 1 : k \in 1 .. n /\ k # n
    BY <1>2
  <2>2. \A k \in 1 .. n - 1 : /\ fs[k].orig \notin {m, top.orig, top.other}
                              /\ fs[k].other \notin {m, top.orig, top.other}
    BY <1>2, <1>5, <2>1 DEF top
  <2>3. \A y \in WaitingFor(rest) :
          y \in h.sMemInitStack /\ y \notin {m, top.orig, top.other}
    BY <1>6, <1>7, <2>1, <2>2
  <2>4. \A y \in h.sMemInitStack : y \notin {m, top.orig, top.other} => y \in WaitingFor(rest)
    BY <1>2, <1>6, <1>7 DEF top
  <2> QED BY <2>3, <2>4
<1>10. WaitingFor(rest) \cup {top.orig} = Older(fs, n)
  <2>1. \A y : y \in Older(fs, n) <=>
                 y = top.orig \/ \E k \in 1 .. n - 1 : y = fs[k].orig \/ y = fs[k].other
    BY DEF Older, top
  <2> QED BY <1>6, <2>1
<1>11. Waiting(h, rest)
  <2> SUFFICES ASSUME NEW k \in 1 .. n - 1
               PROVE  /\ Unshared(h, rest[k].other)
                      /\ \A p \in Parts(h, Older(rest, k)) : rest[k].orig \notin Children(h, p)
    BY <1>3 DEF Waiting
  <2>1. k \in 1 .. n /\ rest[k] = fs[k]
    BY <1>2, <1>3
  <2>2. Older(rest, k) = Older(fs, k)
    <3>1. \A j \in 1 .. k - 1 : rest[j] = fs[j]
      BY <1>2, <1>3
    <3>2. {{rest[j].orig, rest[j].other} : j \in 1 .. k - 1} =
          {{fs[j].orig, fs[j].other} : j \in 1 .. k - 1}
      BY <3>1
    <3> QED BY <2>1, <3>2 DEF Older
  <2> QED BY <1>1, <2>1, <2>2 DEF Waiting, n
<1>12. \A k \in 1 .. Len(rest) : rest[k].other \in WaitingFor(rest)
  BY <1>3, <1>6
<1>13. \A r : r \notin WaitingFor(rest) => Distinct(r, rest)
  <2> TAKE r
  <2> HAVE r \notin WaitingFor(rest)
  <2>1. \A k \in 1 .. n - 1 : rest[k].orig # r /\ rest[k].other # r
    BY <1>3, <1>6
  <2>2. \A k \in 1 .. n - 1 : k \in 1 .. n
    BY <1>2
  <2>3. \A j, k \in 1 .. n - 1 :
          /\ rest[k].orig # rest[j].other
          /\ j # k => rest[k].orig # rest[j].orig /\ rest[k].other # rest[j].other
    BY <1>3, <1>5, <2>2
  <2> QED BY <1>3, <2>1, <2>3 DEF Distinct
<1> QED BY <1>3, <1>4, <1>8, <1>9, <1>10, <1>11, <1>12, <1>13 DEF n, top, Under

\* Two memories are freed.
Without(g, h, a, b) ==
  /\ HeapInv(g)
  /\ PartOf(g, h)
  /\ g.sMemInitStack = h.sMemInitStack \ {a, b}
  /\ Live(g) = Parts(h, h.sMemInitStack \ {a, b})

LEMMA FreeBoth ==
  ASSUME NEW h, HeapInv(h), NEW a \in h.sMemInitStack, NEW b \in h.sMemInitStack, a # b
  PROVE  Without(sMemory_free(sMemory_free(h, a), b), h, a, b)
<1> DEFINE e == sMemory_free(h, a)
           g == sMemory_free(e, b)
<1>1. HeapInv(e) /\ PartOf(e, h) /\ e.sMemInitStack = h.sMemInitStack \ {a}
  BY FreeKeepsOthers
<1> HIDE DEF e
<1>2. /\ HeapInv(g) /\ PartOf(g, e) /\ g.sMemInitStack = e.sMemInitStack \ {b}
      /\ Live(g) = Parts(e, e.sMemInitStack \ {b})
  BY <1>1, FreeKeepsOthers
<1> HIDE DEF g
<1>3. PartOf(g, h)
  BY <1>1, <1>2 DEF PartOf, SameNode
<1>4. g.sMemInitStack = h.sMemInitStack \ {a, b}
  BY <1>1, <1>2
<1>5. Live(g) = Parts(h, h.sMemInitStack \ {a, b})
  <2>1. h.sMemInitStack \ {a, b} \subseteq Live(e)
    BY <1>1, HeapFacts
  <2>2. \A r \in Live(e) : Reach(e, r) = Reach(h, r)
    BY <1>1, PartReaches DEF HeapInv
  <2> QED BY <1>2, <1>4, <2>1, <2>2 DEF Parts
<1> QED BY <1>2, <1>3, <1>4, <1>5 DEF g, e, Without
\* Of the memories of a fork one stays and becomes the memory.
LEMMA KeepKeepsStructure ==
  ASSUME NEW h, NEW m, NEW fs, Structure(h, m, fs), fs # <<>>,
         NEW rest, rest = SubSeq(fs, 1, Len(fs) - 1),
         NEW a, NEW b, NEW r, a # b, r # a, r # b,
         {a, b, r} = {m, fs[Len(fs)].orig, fs[Len(fs)].other}
  PROVE  Structure(sMemory_free(sMemory_free(h, a), b), r, rest)
<1> DEFINE top == fs[Len(fs)]
           g == sMemory_free(sMemory_free(h, a), b)
<1>1. /\ HeapInv(h) /\ fs \in Seq(Frame)
      /\ Unshared(h, m) /\ Waiting(h, fs)
  BY DEF Structure
<1>2. /\ rest \in Seq(Frame)
      /\ Waiting(h, rest)
      /\ WaitingFor(rest) = h.sMemInitStack \ {m, top.orig, top.other}
      /\ WaitingFor(rest) \cup {top.orig} = Older(fs, Len(fs))
      /\ {m, top.orig, top.other} \subseteq h.sMemInitStack
      /\ \A x : x \notin WaitingFor(rest) => Distinct(x, rest)
  <2>1. Under(h, m, fs, rest, fs[Len(fs)])
    BY ONLY Structure(h, m, fs), fs # <<>>, rest = SubSeq(fs, 1, Len(fs) - 1), RestOfFrames
  <2> QED BY <2>1 DEF Under
<1>3. a \in h.sMemInitStack /\ b \in h.sMemInitStack
  <2>1. a \in {m, top.orig, top.other} /\ b \in {m, top.orig, top.other}
    OBVIOUS
  <2> QED BY <1>2, <2>1
<1>4. /\ HeapInv(g)
      /\ PartOf(g, h)
      /\ g.sMemInitStack = h.sMemInitStack \ {a, b}
      /\ Live(g) = Parts(h, h.sMemInitStack \ {a, b})
  <2>1. Without(g, h, a, b)
    BY <1>1, <1>3, FreeBoth
  <2> QED BY <2>1 DEF Without
<1> HIDE DEF g, top
<1>5. g.sMemInitStack = HeldBy(r, rest)
  BY <1>2, <1>4 DEF HeldBy, top
<1>6. Distinct(r, rest)
  BY <1>2 DEF top
<1>7. WaitingFor(rest) \subseteq Live(g)
  BY <1>4, <1>5, HeapFacts DEF HeldBy
<1>8. Waiting(g, rest)
  BY <1>1, <1>2, <1>4, <1>7, WaitingInPart
<1>9. Len(fs) \in 1 .. Len(fs)
  BY <1>1
<1>10. \A n \in Live(g) : n \in Live(h) /\ Children(g, n) = Children(h, n)
  BY <1>4, PartHasChildren DEF PartOf
<1>11. Unshared(g, r)
  <2>1. CASE r = m
    BY <1>1, <1>10, <2>1 DEF Unshared
  <2>2. CASE r = top.other
    BY <1>1, <1>9, <1>10, <2>2 DEF Unshared, Waiting, top
  <2>3. CASE r = top.orig
    <3>1. h.sMemInitStack \ {a, b} = Older(fs, Len(fs))
      BY <1>2, <2>3 DEF top
    <3>2. \A n \in Live(g) : r \notin Children(h, n)
      BY <1>1, <1>4, <1>9, <2>3, <3>1 DEF Waiting, top
    <3> QED BY <1>10, <3>2 DEF Unshared
  <2> QED BY <2>1, <2>2, <2>3 DEF top
<1> QED BY <1>2, <1>4, <1>5, <1>6, <1>8, <1>11 DEF Structure, g

\* The two results become a part of a new node.
LEMMA MergeKeepsStructure ==
  ASSUME NEW h, NEW m, NEW fs, Structure(h, m, fs), fs # <<>>,
         NEW rest, rest = SubSeq(fs, 1, Len(fs) - 1),
         Live(sMemory_free(h, fs[Len(fs)].orig)) # Node
  PROVE  LET top == fs[Len(fs)]
             e == sMemory_free(h, top.orig)
         IN  Structure(sMemory_ite(e, top.c, top.other, m),
                       IteNode(e, top.c, top.other, m), rest)
<1> DEFINE top == fs[Len(fs)]
           c == top.c
           t == top.other
           e == sMemory_free(h, top.orig)
<1>1. /\ rest \in Seq(Frame)
      /\ Waiting(h, rest)
      /\ WaitingFor(rest) = h.sMemInitStack \ {m, top.orig, t}
      /\ top \in Frame
      /\ m # top.orig /\ m # t /\ top.orig # t
      /\ {m, top.orig, t} \subseteq h.sMemInitStack
      /\ \A k \in 1 .. Len(rest) : rest[k].other \in WaitingFor(rest)
      /\ \A x : x \notin WaitingFor(rest) => Distinct(x, rest)
  <2>1. Under(h, m, fs, rest, fs[Len(fs)])
    BY ONLY Structure(h, m, fs), fs # <<>>, rest = SubSeq(fs, 1, Len(fs) - 1), RestOfFrames
  <2> QED BY <2>1 DEF Under
<1>2. c \in Literal
  BY <1>1, SymbolicMemoryAssumption DEF Frame
<1>3. Const0 # Const1
  BY SymbolicMemoryAssumption DEF Const0, Const1
<1>4. CASE c = Const0
  <2>1. sMemory_ite(e, c, t, m) = sMemory_free(e, t) /\ IteNode(e, c, t, m) = m
    BY <1>3, <1>4 DEF sMemory_ite, IteNode
  <2>2. Structure(sMemory_free(e, t), m, rest)
    BY <1>1, KeepKeepsStructure
  <2> QED BY <2>1, <2>2
<1>5. CASE c = Const1
  <2>1. sMemory_ite(e, c, t, m) = sMemory_free(e, m) /\ IteNode(e, c, t, m) = t
    BY <1>3, <1>5 DEF sMemory_ite, IteNode
  <2>2. Structure(sMemory_free(e, m), t, rest)
    BY <1>1, KeepKeepsStructure
  <2> QED BY <2>1, <2>2
<1>6. CASE c # Const0 /\ c # Const1
  <2> DEFINE g == sMemory_init(e, c, t, m)
             new == NewNode(e)
             d == sMemory_free(sMemory_free(g, t), m)
  <2>1. sMemory_ite(e, c, t, m) = d /\ IteNode(e, c, t, m) = new
    BY <1>6 DEF sMemory_ite, IteNode
  <2>2. /\ HeapInv(h)
        /\ HeapInv(e) /\ PartOf(e, h)
        /\ e.sMemInitStack = h.sMemInitStack \ {top.orig}
    <3>1. HeapInv(h) /\ top.orig \in h.sMemInitStack
      BY <1>1 DEF Structure
    <3> QED BY <3>1, FreeKeepsOthers
  <2>3. Live(e) \subseteq Node /\ Node \ Live(e) # {}
    BY DEF Live
  <2> HIDE DEF e, top
  <2>4. /\ {t, m} \subseteq e.sMemInitStack /\ {t, m} \subseteq Live(e)
        /\ WaitingFor(rest) \subseteq e.sMemInitStack /\ WaitingFor(rest) \subseteq Live(e)
    BY <1>1, <2>2, HeapFacts
  <2>5. /\ HeapInv(g)
        /\ new \in Node /\ new \notin Live(e)
        /\ Live(g) = Live(e) \cup {new}
        /\ PartOf(e, g)
        /\ g.sMemInitStack = e.sMemInitStack \cup {new}
        /\ g.nodes[new].sMemT = t /\ g.nodes[new].sMemF = m
    BY <1>2, <2>2, <2>3, <2>4, InitAddsNode
  <2> HIDE DEF g, new
  <2>6. t \in g.sMemInitStack /\ m \in g.sMemInitStack /\ t # m
    BY <1>1, <2>4, <2>5
  <2>7. /\ HeapInv(d) /\ PartOf(d, g)
        /\ d.sMemInitStack = g.sMemInitStack \ {t, m}
    <3>1. Without(d, g, t, m)
      BY <2>5, <2>6, FreeBoth
    <3> QED BY <3>1 DEF Without
  <2> HIDE DEF d
  <2>8. new \notin {t, m} /\ new \notin WaitingFor(rest)
    BY <2>4, <2>5
  <2>9. d.sMemInitStack = HeldBy(new, rest)
    BY <1>1, <2>2, <2>5, <2>7, <2>8 DEF HeldBy
  <2>10. Children(g, new) \subseteq {t, m}
    BY <2>5 DEF Children
  <2>11. Unshared(d, new)
    <3>1. \A n \in Live(e) : Children(g, n) = Children(e, n) /\ Children(e, n) \subseteq Live(e)
      <4>1. \A n \in Live(e) : Children(e, n) \subseteq Live(e)
        BY <2>2, HeapFacts
      <4>2. \A n \in Live(e) : Children(g, n) = Children(e, n)
        BY ONLY <2>5, PartHasChildren
      <4> QED BY <4>1, <4>2
    <3>2. Unshared(g, new)
      BY <2>5, <2>8, <2>10, <3>1 DEF Unshared
    <3>3. \A n \in Live(d) : n \in Live(g) /\ Children(d, n) = Children(g, n)
      BY <2>7, PartHasChildren DEF PartOf
    <3> QED BY <3>2, <3>3 DEF Unshared
  <2>12. Waiting(d, rest)
    <3>1. Waiting(e, rest)
      BY <1>1, <2>2, <2>4, WaitingInPart
    <3>2. \A k \in 1 .. Len(rest) : rest[k].other \notin Children(g, new)
      BY <1>1, <2>10
    <3>3. Waiting(g, rest)
      BY <1>1, <2>2, <2>4, <2>5, <3>1, <3>2, WaitingWithNewNode
    <3>4. WaitingFor(rest) \subseteq Live(d)
      BY <2>7, <2>9, HeapFacts DEF HeldBy
    <3> QED BY <1>1, <2>5, <2>7, <3>3, <3>4, WaitingInPart
  <2> QED BY <1>1, <2>1, <2>7, <2>8, <2>9, <2>11, <2>12 DEF Structure, e, top
<1> QED BY <1>4, <1>5, <1>6
-----------------------------------------------------------------------------
(***************************************************************************)
(* The program.                                                            *)
(***************************************************************************)
LoadedType ==
  [bytes : Seq(ByteVector), address : [Valuation -> Address] \cup {NULL}, writtenTo : Literal]

Inv ==
  /\ Structure(heap, memory, frames)
  /\ branch_error \in {0, 1}
  /\ loaded \in LoadedType

LEMMA FirstNode ==
  ASSUME NEW h, Live(h) = {}
  PROVE  NewNode(h) = 1
<1>1. MaxNodes \in Nat /\ MaxNodes >= 1
  BY SymbolicMemoryAssumption
<1>2. Node \ Live(h) = 1 .. MaxNodes
  BY DEF Node
<1>3. 1 \in 1 .. MaxNodes /\ \A x \in 1 .. MaxNodes : 1 <= x
  BY <1>1
<1>4. \A y \in 1 .. MaxNodes : (\A x \in 1 .. MaxNodes : y <= x) => y = 1
  BY <1>1, <1>3
<1>5. Min(1 .. MaxNodes) = 1
  BY <1>3, <1>4 DEF Min
<1> QED BY <1>2, <1>5 DEF NewNode

LEMMA InitInv == Init => Inv
<1> SUFFICES ASSUME Init PROVE Inv
  OBVIOUS
<1> DEFINE h == [nodes |-> [n \in Node |-> Gone], sMemInitStack |-> {}, CurrsMemFlag |-> 0]
<1>1. heap = sMemory_init(h, Const1, NULL, NULL) /\ memory = 1 /\ frames = <<>>
      /\ branch_error = 0
      /\ loaded = [bytes |-> <<>>, address |-> NULL, writtenTo |-> Const1]
  BY DEF Init
<1>2. Live(h) = {}
  BY DEF Live
<1>3. HeapInv(h)
  <2>1. HeapType(h)
    BY DEF HeapType
  <2>2. Graph(h)
    BY <1>2 DEF Graph, WellFounded
  <2>3. h.sMemInitStack = {} /\ Parts(h, {}) = {}
    BY DEF Parts
  <2> HIDE DEF h
  <2> QED BY <1>2, <2>1, <2>2, <2>3 DEF HeapInv
<1>4. NewNode(h) = 1
  BY <1>2, FirstNode
<1> HIDE DEF h
<1>5. Const1 \in Literal
  BY DEF Const1, Literal
<1>6. /\ HeapInv(heap) /\ 1 \in Node
      /\ Live(heap) = {1}
      /\ heap.sMemInitStack = h.sMemInitStack \cup {1}
      /\ heap.nodes[1].sMemT = NULL /\ heap.nodes[1].sMemF = NULL
  <2>1. Node \ Live(h) # {}
    BY <1>2, SymbolicMemoryAssumption DEF Node
  <2> QED BY <1>1, <1>2, <1>3, <1>4, <1>5, <2>1, InitAddsNode
<1>7. h.sMemInitStack = {}
  BY DEF h
<1>8. heap.sMemInitStack = HeldBy(memory, frames)
  BY <1>1, <1>6, <1>7 DEF HeldBy, WaitingFor
<1>9. Unshared(heap, memory)
  BY <1>6 DEF Unshared, Children
<1>10. frames \in Seq(Frame) /\ Distinct(memory, frames) /\ Waiting(heap, frames)
  BY <1>1 DEF Distinct, Waiting
<1>11. loaded \in LoadedType
  <2>1. <<>> \in Seq(ByteVector)
    OBVIOUS
  <2> QED BY <1>1, <1>5, <2>1 DEF LoadedType
<1> QED BY <1>1, <1>6, <1>8, <1>9, <1>10, <1>11 DEF Inv, Structure
\* The marking of the nodes that are walked for the probes.
LEMMA MarkingRemarks ==
  ASSUME NEW h, HeapInv(h), NEW seen \in SUBSET Live(h), NEW flag, flag = h.CurrsMemFlag + 1
  PROVE  Remarked([h EXCEPT !.CurrsMemFlag = flag,
                            !.nodes = [n \in Node |->
                                         IF n \in seen
                                           THEN [h.nodes[n] EXCEPT !.memoized_flag = flag]
                                           ELSE h.nodes[n]]], h)
<1> DEFINE nodes == [n \in Node |-> IF n \in seen
                                      THEN [h.nodes[n] EXCEPT !.memoized_flag = flag]
                                      ELSE h.nodes[n]]
           g == [h EXCEPT !.CurrsMemFlag = flag, !.nodes = nodes]
<1>1. /\ h \in [nodes : [Node -> sMemory \cup {Gone}], sMemInitStack : SUBSET Node,
                CurrsMemFlag : Nat]
      /\ Live(h) \subseteq Node
      /\ \A n \in Live(h) : h.nodes[n] \in sMemory
      /\ \A n \in Node : n \in Live(h) <=> h.nodes[n] # Gone
      /\ \A n \in Live(h) : h.nodes[n].memoized_flag <= h.CurrsMemFlag
      /\ \A n \in Live(h) : h.nodes[n].memoized_flag \in Nat
      /\ h.CurrsMemFlag \in Nat
  BY HeapFacts DEF HeapInv, HeapType
<1>2. flag \in Nat /\ h.CurrsMemFlag <= flag
  BY <1>1
<1> HIDE DEF nodes
<1>3. /\ g.sMemInitStack = h.sMemInitStack /\ g.CurrsMemFlag = flag /\ g.nodes = nodes
  BY <1>1
<1>4. \A n \in seen : /\ nodes[n] \in sMemory
                      /\ SameNode(nodes[n], h.nodes[n])
                      /\ nodes[n].memoized_flag = flag
  <2> TAKE n \in seen
  <2>1. n \in Node /\ h.nodes[n] \in sMemory
    BY <1>1
  <2>2. nodes[n] = [h.nodes[n] EXCEPT !.memoized_flag = flag]
    BY <2>1 DEF nodes
  <2> QED BY <1>2, <2>1, <2>2 DEF sMemory, SameNode
<1>5. \A n \in Node \ seen : nodes[n] = h.nodes[n]
  BY DEF nodes
<1>6. nodes \in [Node -> sMemory \cup {Gone}]
  <2>1. \A n \in Node : nodes[n] \in sMemory \cup {Gone}
    BY <1>1, <1>4, <1>5
  <2> QED BY <2>1 DEF nodes
<1>7. HeapType(g)
  BY <1>1, <1>2, <1>6 DEF HeapType
<1> HIDE DEF g
<1>8. Live(g) = Live(h)
  BY <1>1, <1>3, <1>4, <1>5, SymbolicMemoryAssumption DEF Live
<1>9. \A n \in Live(h) : SameNode(g.nodes[n], h.nodes[n])
  BY <1>1, <1>3, <1>4, <1>5 DEF SameNode
<1>10. SameShape(g, h)
  BY <1>3, <1>8, <1>9 DEF SameShape, SameNode
<1>11. \A n \in Live(g) : g.nodes[n].memoized_flag <= g.CurrsMemFlag
  <2>1. \A n \in Live(h) : nodes[n].memoized_flag = flag \/ nodes[n] = h.nodes[n]
    BY <1>1, <1>4, <1>5
  <2> QED BY <1>1, <1>2, <1>3, <1>8, <2>1
<1> QED BY <1>7, <1>9, <1>10, <1>11, ShapeKeepsHeap DEF Remarked, g, nodes

\* Garbage collection only marks nodes.
LEMMA CollectRemarks ==
  ASSUME HeapInv(heap), CollectGarbage
  PROVE  Remarked(heap', heap)
<1> DEFINE seen == UNION {Below(heap)[m] : m \in Walked}
           flag == heap.CurrsMemFlag + 1
<1>1. Walked \subseteq Live(heap)
  BY DEF CollectGarbage
<1>2. heap' = [heap EXCEPT !.CurrsMemFlag = flag,
                           !.nodes = [n \in Node |->
                                        IF n \in seen
                                          THEN [heap.nodes[n] EXCEPT !.memoized_flag = flag]
                                          ELSE heap.nodes[n]]]
  BY DEF CollectGarbage
<1>3. \A m \in Walked : Below(heap)[m] \subseteq Live(heap)
  <2> TAKE m \in Walked
  <2>1. m \in Live(heap) /\ m \in Node /\ Graph(heap)
    BY <1>1 DEF HeapInv, Live
  <2> QED BY <2>1, BelowIsReach, ReachIsLive
<1>4. seen \in SUBSET Live(heap)
  BY <1>3
<1> HIDE DEF seen
<1> QED BY <1>2, <1>4, MarkingRemarks

LEMMA StepInv == Inv /\ [Next]_vars => Inv'
<1> SUFFICES ASSUME Inv, [Next]_vars PROVE Inv'
  OBVIOUS
<1>1. /\ Structure(heap, memory, frames)
      /\ branch_error \in {0, 1}
      /\ loaded \in LoadedType
      /\ HeapInv(heap) /\ memory \in Live(heap) /\ memory \in Node
  BY StructureFacts DEF Inv
<1>2. ASSUME NEW g, Remarked(g, heap)
      PROVE  Structure(g, memory, frames)
  BY <1>1, <1>2, SameShapeKeepsStructure DEF Remarked
<1>3. ASSUME NEW address \in Vectors, NEW big_endian \in BOOLEAN, NEW word \in Words,
             Store(address, word, big_endian)
      PROVE  Inv'
  <2> DEFINE cells == StoreWord(heap.nodes[memory].cells, address, word, big_endian)
             g == [heap EXCEPT !.nodes[memory].cells = cells]
  <2>1. heap' = g /\ UNCHANGED <<memory, branch_error, frames, loaded>>
    BY <1>3 DEF Store
  <2>2. heap.nodes[memory].cells \in Seq(Cell)
    <3>1. heap.nodes[memory] \in sMemory
      BY <1>1, HeapFacts
    <3> QED BY <3>1 DEF sMemory
  <2>3. address \in [Valuation -> Address] /\ word \in Seq(ByteVector)
    BY SymbolicMemoryAssumption DEF ByteVector
  <2>4. cells \in Seq(Cell)
    BY <2>2, <2>3, StoreWordType
  <2> HIDE DEF cells
  <2>5. HeapInv(g) /\ SameShape(g, heap)
    BY <1>1, <2>4, StoreKeepsHeap
  <2> HIDE DEF g
  <2>6. Structure(g, memory, frames)
    BY <1>1, <2>5, SameShapeKeepsStructure
  <2> QED BY <1>1, <2>1, <2>6 DEF Inv
<1>4. ASSUME NEW address \in Vectors, NEW big_endian \in BOOLEAN, NEW size \in LoadSizes,
             Load(address, size, big_endian)
      PROVE  Inv'
  <2> DEFINE load == LoadWord(heap, memory, address, size, big_endian)
  <2>1. /\ heap' = load.heap
        /\ loaded' = [bytes |-> load.bytes, address |-> load.last,
                      writtenTo |-> load.heap.nodes[memory].writtenTo]
        /\ UNCHANGED <<memory, branch_error, frames>>
    BY <1>4 DEF Load
  <2>2. address \in [Valuation -> Address] /\ size \in Nat
    BY SymbolicMemoryAssumption
  <2>3. /\ Remarked(load.heap, heap)
        /\ load.bytes \in Seq(ByteVector)
        /\ load.last = LoadAt(address, size, big_endian, size)
    BY <1>1, <2>2, LoadWordRemarks
  <2> HIDE DEF load
  <2>4. load.last \in [Valuation -> Address]
    BY <2>2, <2>3, PlusType DEF LoadAt
  <2>5. load.heap.nodes[memory].writtenTo \in Literal
    <3>1. HeapInv(load.heap) /\ memory \in Live(load.heap)
      BY <1>1, <2>3 DEF Remarked, SameShape
    <3>2. load.heap.nodes[memory] \in sMemory
      BY <3>1, HeapFacts
    <3> QED BY <3>2 DEF sMemory
  <2>6. loaded' \in LoadedType
    BY <2>1, <2>3, <2>4, <2>5 DEF LoadedType
  <2> QED BY <1>1, <1>2, <2>1, <2>3, <2>6 DEF Inv
<1>5. CASE Fail
  BY <1>1, <1>5 DEF Fail, Inv
<1>6. ASSUME NEW c \in Condition, Fork(c)
      PROVE  Inv'
  <2> DEFINE t == NewNode(heap)
             g == sMemory_copy(heap, memory)
             f == NewNode(g)
  <2>1. Structure(sMemory_copy(g, memory), t, Append(frames, ForkFrame(c, memory, t, f)))
    BY <1>1, <1>6, ForkKeepsStructure DEF Fork
  <2>2. /\ heap' = sMemory_copy(g, memory)
        /\ memory' = t
        /\ frames' = Append(frames, ForkFrame(c, memory, t, f))
        /\ UNCHANGED <<branch_error, loaded>>
    BY <1>6 DEF Fork, ForkFrame
  <2> HIDE DEF t, g, f
  <2> QED BY <1>1, <2>1, <2>2 DEF Inv
<1>7. CASE TrueSideDone
  <2>1. Structure(heap, Top.other, frames')
    BY <1>1, <1>7, SwitchKeepsStructure DEF TrueSideDone, Top
  <2> QED BY <1>1, <1>7, <2>1 DEF TrueSideDone, Inv
<1>8. FalseSideDone => memory # Top.orig /\ memory # Top.other /\ Top.orig # Top.other
  <2> HAVE FalseSideDone
  <2>1. Under(heap, memory, frames, frames', Top)
    BY <1>1, RestOfFrames DEF Top, FalseSideDone
  <2> QED BY <2>1 DEF Under
<1>9. ASSUME FalseSideDone, NEW a, NEW b, NEW r, a # b, r # a, r # b,
              {a, b, r} = {memory, Top.orig, Top.other}
       PROVE  Structure(sMemory_free(sMemory_free(heap, a), b), r, frames')
  <2>1. frames # <<>> /\ frames' = SubSeq(frames, 1, Len(frames) - 1)
    BY <1>9 DEF FalseSideDone
  <2>2. {a, b, r} = {memory, frames[Len(frames)].orig, frames[Len(frames)].other}
    BY <1>9 DEF Top
  <2>3. a # b /\ r # a /\ r # b
    BY <1>9
  <2> QED BY ONLY <1>1, <2>1, <2>2, <2>3, KeepKeepsStructure
<1>10. CASE KeepNeither
  <2>1. Structure(sMemory_free(sMemory_free(heap, Top.other), memory), Top.orig, frames')
    BY <1>8, <1>9, <1>10 DEF KeepNeither
  <2> QED BY <1>1, <1>10, <2>1 DEF KeepNeither, FalseSideDone, Inv
<1>11. CASE KeepFalse
  <2>1. Structure(sMemory_free(sMemory_free(heap, Top.orig), Top.other), memory, frames')
    BY <1>8, <1>9, <1>11 DEF KeepFalse
  <2> QED BY <1>1, <1>11, <2>1 DEF KeepFalse, FalseSideDone, Inv
<1>12. CASE KeepTrue
  <2>1. Structure(sMemory_free(sMemory_free(heap, Top.orig), memory), Top.other, frames')
    BY <1>8, <1>9, <1>12 DEF KeepTrue
  <2> QED BY <1>1, <1>12, <2>1 DEF KeepTrue, FalseSideDone, Inv
<1>13. CASE Merge
  <2> DEFINE h == sMemory_free(heap, Top.orig)
  <2>1. Structure(sMemory_ite(h, Top.c, Top.other, memory),
                  IteNode(h, Top.c, Top.other, memory), frames')
    BY <1>1, <1>13, MergeKeepsStructure DEF Merge, FalseSideDone, Top
  <2>2. /\ heap' = sMemory_ite(h, Top.c, Top.other, memory)
        /\ memory' = IteNode(h, Top.c, Top.other, memory)
        /\ UNCHANGED <<branch_error, loaded>>
    BY <1>13 DEF Merge, FalseSideDone
  <2> HIDE DEF h
  <2> QED BY <1>1, <2>1, <2>2 DEF Inv
<1>14. CASE CollectGarbage
  <2>1. Remarked(heap', heap)
    BY <1>1, <1>14, CollectRemarks
  <2>2. UNCHANGED <<memory, branch_error, frames, loaded>>
    BY <1>14 DEF CollectGarbage
  <2> QED BY <1>1, <1>2, <2>1, <2>2 DEF Inv
<1>15. CASE UNCHANGED vars
  BY <1>1, <1>15 DEF vars, Inv
<1> QED BY <1>3, <1>4, <1>5, <1>6, <1>7, <1>10, <1>11, <1>12, <1>13, <1>14, <1>15 DEF Next

\* The heap is always well formed: each field of each node has its type, the
\* nodes in use form a graph without a cycle, no memo is newer than the flag,
\* and what is held and waits is held once.
THEOREM MemoryIsWellFormed == Spec => []Inv
<1> QED BY InitInv, StepInv, PTL DEF Spec

LEMMA HeldParts ==
  ASSUME Inv
  PROVE  NodesAreThoseInUse /\ StoresAreNotShared
<1>1. Structure(heap, memory, frames) /\ HeapInv(heap) /\ Graph(heap)
  BY StructureFacts DEF Inv
<1>2. heap.sMemInitStack = Held
  BY <1>1 DEF Structure, HeldBy, WaitingFor, Held
<1>3. \A m \in Held : Below(heap)[m] = Reach(heap, m)
  <2>1. Held \subseteq Node
    BY <1>1, <1>2, HeapFacts
  <2> QED BY <1>1, <2>1, BelowIsReach
<1>4. Live(heap) = Parts(heap, Held)
  BY <1>1, <1>2 DEF HeapInv
<1>5. {Below(heap)[m] : m \in Held} = {Reach(heap, m) : m \in Held}
  BY <1>3
<1>6. NodesAreThoseInUse
  BY <1>2, <1>4, <1>5 DEF NodesAreThoseInUse, Parts
<1>7. StoresAreNotShared
  BY <1>1 DEF Structure, Unshared, StoresAreNotShared
<1> QED BY <1>6, <1>7

\* sMemory_free deletes no node that a memory in use is made of and leaves none
\* that no memory is made of, however copies and merges share them.
THEOREM FreeingIsExact == Spec => []NodesAreThoseInUse
<1> QED BY MemoryIsWellFormed, HeldParts, PTL

\* The memory being stored to is a part of no other.
THEOREM StoresStayPrivate == Spec => []StoresAreNotShared
<1> QED BY MemoryIsWellFormed, HeldParts, PTL
=============================================================================
