--------------------------- MODULE IortTableProofs ---------------------------
(***************************************************************************)
(* Proofs about the IORT table.  IortLayout: nodes and their arrays lie    *)
(* where they may be read.  IortTable: a search goes by the rule and a     *)
(* cycle it reports is one; the queries that read ranges agree with each   *)
(* other and with the search.  For any number of nodes, mappings and ids,  *)
(* and any bytes.                                                          *)
(***************************************************************************)
EXTENDS IortTable, IortLayout, FiniteSetTheorems, WellFoundedInduction, TLAPS

-----------------------------------------------------------------------------
(* The layout.                                                             *)

NodeShape ==
  [at : Nat, kind : NodeKinds, length : Nat, offset : Nat, count : Nat]

(* The elements still to be read from an array fill no more than the rest  *)
(* of its node, and lie behind what the node has in front of them.         *)
Least(kind, name) ==
  CASE name = "mappings" -> NodeHeader
    [] name = "global" -> 0
    [] OTHER -> MinLengths[kind]

ArrayLies ==
  /\ array.name \in ArraysOf(node.kind) /\ array.name \in Names
  /\ array.at \in Nat
  /\ array.at + array.left * ElementSizes[array.name] <= End(node)
  /\ array.left > 0 => array.at >= node.at + Least(node.kind, array.name)

LayoutInv ==
  /\ cursor \in Nat
  /\ walk = "start" => node = NoNode
  /\ node = NoNode \/ (node \in NodeShape /\ End(node) <= TableLength /\ End(node) <= cursor)
  /\ array.left \in Nat
  /\ array.left > 0 => node # NoNode /\ ArrayLies

(* Space for one more element, and for none.                               *)
LEMMA OneElement ==
  ASSUME NEW n \in Nat \ {0}, NEW size \in Nat
  PROVE  n * size = size + (n - 1) * size /\ (n - 1) * size \in Nat
  <1>1. n - 1 \in Nat
    OBVIOUS
  <1>2. QED
    BY <1>1, SMT

(* An array that is not refused lies inside its node.                      *)
LEMMA ArrayFits ==
  ASSUME NEW h \in NodeShape, NEW name \in Names, name \in ArraysOf(h.kind),
         ArrayOf(h, name) # Refused
  PROVE  LET a == ArrayOf(h, name)
         IN /\ a[1] \in Nat /\ a[2] \in Nat
            /\ a[1] + a[2] * ElementSizes[name] <= End(h)
            /\ a[2] > 0 => a[1] >= h.at + Least(h.kind, name)
  <1> DEFINE size == ElementSizes[name]
  <1>1. size \in Nat /\ End(h) \in Nat /\ h.at \in Nat /\ h.offset \in Nat /\ h.count \in Nat
        /\ NodeHeader \in Nat
    BY LayoutAssumption DEF NodeShape, End
  <1>2. \A k \in NodeKinds : MinLengths[k] \in Nat
    BY LayoutAssumption
  <1>3. ASSUME NEW start \in Nat, NEW count \in Nat, Place(start, count, size, End(h)) # Refused
        PROVE  /\ Place(start, count, size, End(h)) = <<start, count>>
               /\ start + count * size <= End(h)
    BY <1>3 DEF Place
  <1>4. CASE name = "mappings"
    <2>1. ArrayOf(h, name) = IF h.count = 0 THEN <<End(h), 0>>
                             ELSE IF h.offset < NodeHeader THEN Refused
                             ELSE Place(h.at + h.offset, h.count, size, End(h))
      BY <1>4 DEF ArrayOf
    <2>2. CASE h.count = 0
      BY <1>1, <2>1, <2>2
    <2>3. CASE h.count # 0
      <3>1. ~(h.offset < NodeHeader)
        BY <2>1, <2>3
      <3>2. ArrayOf(h, name) = <<h.at + h.offset, h.count>>
            /\ h.at + h.offset + h.count * size <= End(h)
        BY <1>1, <1>3, <2>1, <2>3, <3>1
      <3>3. Least(h.kind, name) = NodeHeader
        BY <1>4 DEF Least
      <3>4. QED
        BY <1>1, <3>1, <3>2, <3>3
    <2>4. QED
      BY <2>2, <2>3
  <1>5. CASE name = "identifiers"
    <2>1. h.kind = "ITS"
      BY <1>5 DEF ArraysOf
    <2>2. ArrayOf(h, name) = Place(h.at + MinLengths["ITS"], h.count, size, End(h))
      BY <1>5 DEF ArrayOf
    <2>3. MinLengths["ITS"] \in Nat
      BY LayoutAssumption
    <2>4. ArrayOf(h, name) = <<h.at + MinLengths["ITS"], h.count>>
          /\ h.at + MinLengths["ITS"] + h.count * size <= End(h)
      BY <1>1, <1>3, <2>2, <2>3
    <2>5. Least(h.kind, name) = MinLengths["ITS"]
      BY <1>5, <2>1 DEF Least
    <2>6. QED
      BY <1>1, <2>3, <2>4, <2>5
  <1>6. CASE name = "descriptors"
    <2>1. h.kind = "RMR"
      BY <1>6 DEF ArraysOf
    <2>2. ArrayOf(h, name) = IF h.offset < MinLengths["RMR"] THEN Refused
                             ELSE Place(h.at + h.offset, h.count, size, End(h))
      BY <1>6 DEF ArrayOf
    <2>3. MinLengths["RMR"] \in Nat
      BY LayoutAssumption
    <2>4. ~(h.offset < MinLengths["RMR"])
      BY <2>2
    <2>5. ArrayOf(h, name) = <<h.at + h.offset, h.count>>
          /\ h.at + h.offset + h.count * size <= End(h)
      BY <1>1, <1>3, <2>2, <2>4
    <2>6. Least(h.kind, name) = MinLengths["RMR"]
      BY <1>6, <2>1 DEF Least
    <2>7. QED
      BY <1>1, <2>3, <2>4, <2>5, <2>6
  <1>7. CASE name = "interrupts"
    <2>1. h.kind = "SMMU"
      BY <1>7 DEF ArraysOf
    <2>2. ArrayOf(h, name) = IF h.count = 0 THEN <<End(h), 0>>
                             ELSE IF h.offset < MinLengths["SMMU"] THEN Refused
                             ELSE Place(h.at + h.offset, h.count, size, End(h))
      BY <1>7 DEF ArrayOf
    <2>3. CASE h.count = 0
      BY <1>1, <2>2, <2>3
    <2>4. CASE h.count # 0
      <3>1. MinLengths["SMMU"] \in Nat /\ ~(h.offset < MinLengths["SMMU"])
        BY <2>2, <2>4, LayoutAssumption
      <3>2. ArrayOf(h, name) = <<h.at + h.offset, h.count>>
            /\ h.at + h.offset + h.count * size <= End(h)
        BY <1>1, <1>3, <2>2, <2>4, <3>1
      <3>3. Least(h.kind, name) = MinLengths["SMMU"]
        BY <1>7, <2>1 DEF Least
      <3>4. QED
        BY <1>1, <3>1, <3>2, <3>3
    <2>5. QED
      BY <2>3, <2>4
  <1>8. CASE name = "global"
    <2>1. ArrayOf(h, name) = IF h.offset = 0 THEN <<End(h), 0>>
                             ELSE Place(h.at + h.offset, 1, size, End(h))
      BY <1>8 DEF ArrayOf
    <2>2. CASE h.offset = 0
      BY <1>1, <2>1, <2>2
    <2>3. CASE h.offset # 0
      <3>1. ArrayOf(h, name) = <<h.at + h.offset, 1>> /\ h.at + h.offset + 1 * size <= End(h)
        BY <1>1, <1>3, <2>1, <2>3
      <3>2. Least(h.kind, name) = 0
        BY <1>8 DEF Least
      <3>3. QED
        BY <1>1, <3>1, <3>2
    <2>4. QED
      BY <2>2, <2>3
  <1>9. CASE name = "name"
    <2> DEFINE from == h.at + MinLengths["named"]
               to == IF h.count = 0 THEN End(h) ELSE h.at + h.offset
    <2>1. h.kind = "named" /\ size = 1
      BY <1>9, LayoutAssumption DEF ArraysOf
    <2>2. ArrayOf(h, name) = IF FitsUsize(to) /\ from <= to /\ to <= End(h)
                             THEN <<from, to - from>> ELSE Refused
      BY <1>9 DEF ArrayOf
    <2>3. from \in Nat /\ to \in Nat
      BY <1>1, LayoutAssumption
    <2>4. Least(h.kind, name) = MinLengths["named"]
      BY <1>9, <2>1 DEF Least
    <2>5. ArrayOf(h, name) = <<from, to - from>> /\ from <= to /\ to <= End(h)
      BY <2>2
    <2>6. from >= h.at + Least(h.kind, name)
      BY <1>1, <2>3, <2>4
    <2> HIDE DEF from, to
    <2>7. QED
      BY <1>1, <2>1, <2>3, <2>5, <2>6
  <1>10. name \in {"mappings", "identifiers", "descriptors", "interrupts", "global", "name"}
    BY DEF ArraysOf
  <1>11. QED
    BY <1>4, <1>5, <1>6, <1>7, <1>8, <1>9, <1>10

(* nodes() and the array iterators start in the invariant, and no step     *)
(* leaves it.                                                              *)
LEMMA LayoutStarts == LayoutInit => LayoutInv
  BY DEF LayoutInit, LayoutInv, NoArray, NoNode

(* Steps that leave node and array alone, or drop the array.               *)
LEMMA ArrayDropped ==
  ASSUME LayoutInv, array' = NoArray \/ UNCHANGED array, UNCHANGED <<cursor, node>>,
         walk' # "start" \/ UNCHANGED walk
  PROVE  LayoutInv'
  BY DEF LayoutInv, ArrayLies, NoArray, End, Least, NodeShape

(* The iterator moves past a node and yields it, or an error.              *)
LEMMA NextNodeStep == LayoutInv /\ NextNode => LayoutInv'
  <1> SUFFICES ASSUME LayoutInv, NextNode PROVE LayoutInv'
    OBVIOUS
  <1>1. cursor \in Nat /\ array' = NoArray /\ walk' # "start"
    BY DEF LayoutInv, NextNode
  <1>2. PICK h \in NodesAt(cursor) :
          \/ UNCHANGED <<cursor, node>>
          \/ /\ FitsUsize(End(h)) /\ End(h) <= TableLength
             /\ cursor' = End(h) /\ node' \in Parsed(h)
    BY DEF NextNode
  <1>3. CASE UNCHANGED <<cursor, node>>
    BY <1>1, <1>3, ArrayDropped
  <1>4. CASE /\ End(h) <= TableLength
             /\ cursor' = End(h) /\ node' \in Parsed(h)
    <2>1. h \in NodeShape
      BY <1>1, LayoutAssumption DEF NodesAt, NodeShape
    <2>2. End(h) \in Nat
      BY <2>1 DEF NodeShape, End
    <2>3. node' \in {h, NoNode}
      BY <1>4 DEF Parsed
    <2>4. End(node)' = End(node')
      BY DEF End
    <2>5. array'.left = 0
      BY <1>1 DEF NoArray
    <2>6. node' = NoNode \/ (node' \in NodeShape /\ End(node)' <= TableLength /\ End(node)' <= cursor')
      BY <1>4, <2>1, <2>2, <2>3, <2>4
    <2>7. QED
      BY <1>1, <1>4, <2>2, <2>5, <2>6 DEF LayoutInv
  <1>5. QED
    BY <1>2, <1>3, <1>4

(* An accessor gives an array inside the node, or refuses.                 *)
LEMMA OpenArrayStep ==
  ASSUME LayoutInv, NEW name \in Names, OpenArray(name)
  PROVE  LayoutInv'
  <1>1. node \in NodeShape /\ node # NoNode /\ name \in ArraysOf(node.kind)
        /\ UNCHANGED <<cursor, node, walk>>
    BY DEF LayoutInv, OpenArray
  <1>2. CASE ArrayOf(node, name) = Refused
    BY <1>1, <1>2, ArrayDropped DEF OpenArray
  <1>3. CASE ArrayOf(node, name) # Refused
    <2> DEFINE a == ArrayOf(node, name)
    <2>1. array' = [name |-> name, at |-> a[1], left |-> a[2]]
      BY <1>3 DEF OpenArray
    <2>2. /\ a[1] \in Nat /\ a[2] \in Nat
          /\ a[1] + a[2] * ElementSizes[name] <= End(node)
          /\ a[2] > 0 => a[1] >= node.at + Least(node.kind, name)
      BY <1>1, <1>3, ArrayFits
    <2> HIDE DEF a
    <2>3. array'.name = name /\ array'.at = a[1] /\ array'.left = a[2]
      BY <2>1
    <2>4. ArrayLies'
      BY <1>1, <2>2, <2>3 DEF ArrayLies, Least, End
    <2>5. QED
      BY <1>1, <2>2, <2>3, <2>4 DEF LayoutInv, End
  <1>4. QED
    BY <1>2, <1>3

(* One element on: what was left for the others is left still.             *)
LEMMA NextElementStep == LayoutInv /\ NextElement => LayoutInv'
  <1> SUFFICES ASSUME LayoutInv, NextElement PROVE LayoutInv'
    OBVIOUS
  <1> DEFINE size == ElementSizes[array.name]
             n == array.left
  <1>1. n \in Nat \ {0} /\ ArrayLies /\ UNCHANGED <<cursor, node, walk>> /\ node \in NodeShape
        /\ node # NoNode
    BY DEF LayoutInv, NextElement
  <1>2. size \in Nat /\ array.at \in Nat
    BY <1>1, LayoutAssumption DEF ArrayLies
  <1>3. array'.name = array.name /\ array'.at = array.at + size /\ array'.left = n - 1
    <2>1. array' = [array EXCEPT !.at = @ + size, !.left = @ - 1]
      BY DEF NextElement
    <2>2. QED
      BY <2>1
  <1>4. n * size = size + (n - 1) * size /\ (n - 1) * size \in Nat
    BY <1>1, <1>2, OneElement
  <1>5. array.at + n * size <= End(node) /\ End(node) \in Nat /\ n * size \in Nat
    BY <1>1, <1>2, <1>4 DEF ArrayLies, End, NodeShape
  <1>6. array.at + size + (n - 1) * size <= End(node)
    <2> DEFINE r == (n - 1) * size
               all == n * size
    <2>1. all = size + r /\ r \in Nat /\ array.at + all <= End(node)
      BY <1>4, <1>5
    <2> HIDE DEF r, all
    <2>2. array.at + size + r <= End(node)
      BY <1>2, <1>5, <2>1
    <2>3. QED
      BY <2>2 DEF r
  <1>7. node.at + Least(node.kind, array.name) \in Int
    <2>1. node.at \in Nat /\ node.kind \in NodeKinds
      BY <1>1 DEF NodeShape
    <2>2. Least(node.kind, array.name) \in Nat
      BY <2>1, LayoutAssumption DEF Least
    <2>3. QED
      BY <2>1, <2>2
  <1>8. array.at + size >= node.at + Least(node.kind, array.name)
    BY <1>1, <1>2, <1>7 DEF ArrayLies
  <1> HIDE DEF size, n
  <1>9. ArrayLies'
    <2>1. ElementSizes[array'.name] = size
      BY <1>3 DEF size
    <2>2. QED
      BY <1>1, <1>2, <1>3, <1>6, <1>8, <2>1 DEF ArrayLies, End, Least
  <1>10. QED
    BY <1>1, <1>3, <1>9 DEF LayoutInv, End

(* StartNodes takes node_offset as it is.                                  *)
LEMMA StartNodesStep == LayoutInv /\ StartNodes => LayoutInv'
  <1> SUFFICES ASSUME LayoutInv, StartNodes PROVE LayoutInv'
    OBVIOUS
  <1>1. PICK offset \in Offsets : UNCHANGED cursor \/ cursor' = offset
    BY DEF StartNodes
  <1>2. node = NoNode /\ array.left \in Nat /\ ~(array.left > 0) /\ UNCHANGED <<node, array>>
    BY DEF LayoutInv, StartNodes
  <1>3. cursor' \in Nat /\ walk' # "start"
    BY <1>1, LayoutAssumption DEF LayoutInv, StartNodes
  <1>4. QED
    BY <1>2, <1>3 DEF LayoutInv

(* IortNodes and the array iterators keep the layout invariant, whatever   *)
(* the bytes of the table.                                                 *)
THEOREM LayoutInvariance == LayoutSpec => []LayoutInv
  <1>1. LayoutInit => LayoutInv
    BY LayoutStarts
  <1>2. LayoutInv /\ [LayoutNext]_layoutVars => LayoutInv'
    <2> SUFFICES ASSUME LayoutInv, [LayoutNext]_layoutVars PROVE LayoutInv'
      OBVIOUS
    <2>1. CASE LastNode \/ TruncatedNode
      BY <2>1, ArrayDropped DEF LastNode, TruncatedNode, Stop
    <2>2. CASE UNCHANGED layoutVars
      BY <2>2, ArrayDropped DEF layoutVars
    <2>3. QED
      BY <2>1, <2>2, StartNodesStep, NextNodeStep, NextElementStep, OpenArrayStep DEF LayoutNext
  <1>3. QED
    BY <1>1, <1>2, PTL DEF LayoutSpec

(* Whatever offsets, counts and lengths the firmware declares, the nodes   *)
(* that IortNodes yields lie inside the table, and the elements that the   *)
(* array iterators read lie inside their node and behind its fixed part.   *)
THEOREM ElementsStayInside == LayoutSpec => []ElementsInside
  <1>1. LayoutInv => ElementsInside
    <2> SUFFICES ASSUME LayoutInv PROVE ElementsInside
      OBVIOUS
    <2>1. ASSUME array.left > 0
          PROVE  /\ array.at + ElementSizes[array.name] <= End(node)
                 /\ array.at >= node.at + Least(node.kind, array.name)
      <3> DEFINE size == ElementSizes[array.name]
                 n == array.left
                 r == (n - 1) * size
      <3>1. n \in Nat \ {0} /\ ArrayLies /\ node \in NodeShape
        BY <2>1 DEF LayoutInv
      <3>2. size \in Nat /\ array.at \in Nat /\ End(node) \in Nat
        BY <3>1, LayoutAssumption DEF ArrayLies, End, NodeShape
      <3>3. n * size = size + r /\ r \in Nat
        BY <3>1, <3>2, OneElement
      <3>4. array.at + n * size <= End(node)
        BY <3>1 DEF ArrayLies
      <3>5. array.at + (size + r) <= End(node)
        BY <3>3, <3>4
      <3> HIDE DEF r, size
      <3>6. array.at + size <= End(node)
        BY <3>2, <3>3, <3>5
      <3>7. QED
        BY <2>1, <3>1, <3>6 DEF ArrayLies, size
    <2>2. QED
      BY <2>1 DEF LayoutInv, ElementsInside, Least
  <1>2. QED
    BY <1>1, LayoutInvariance, PTL

-----------------------------------------------------------------------------
(* The inductive invariant of the queries.                                 *)

MappingShape ==
  [base : 0 .. MaxId, count : 0 .. MaxId, out : 0 .. MaxId, ref : 0 .. NodeCount,
   single : BOOLEAN]

(* The mapping at position k of node n, and whether it has the id x.       *)
M(n, k) == mappings[<<n, k>>]
IsRead(n, k) == <<n, k>> \in DOMAIN mappings
Fit(n, x, k) == Translated(M(n, k), n, x) # -1

AllRead(n) == nodes[n].maps # -1 /\ \A k \in 1 .. nodes[n].maps : IsRead(n, k)

TableTyped ==
  /\ session \in Sessions
  /\ nodes \in [Nodes -> [kind : AllKinds, maps : -1 .. MaxMappings]]
  /\ \A p \in DOMAIN mappings :
       /\ mappings[p] \in session.mappings
       /\ \E n \in Nodes : \E k \in 1 .. nodes[n].maps : p = <<n, k>>

Accumulators ==
  [covered : BOOLEAN, unresolved : BOOLEAN, found : BOOLEAN, ranges : SUBSET (0 .. MaxBdf)]
Steps == [node : Nodes, id : 0 .. MaxId]

LocalsTyped ==
  /\ query \in Queries \union {None}
  /\ target \in {"SMMUv3", "SMMU"}
  /\ current \in 0 .. NodeCount + 1 /\ id \in 0 .. MaxId /\ remaining \in 0 .. NodeCount
  /\ index \in Nat /\ fallback \in Nat
  /\ acc \in Accumulators
  /\ visited \in Seq(Steps)
  /\ DOMAIN answers \subseteq Queries /\ DOMAIN errors \subseteq Queries

(* Where a query stands: the mappings in front of its position are read.   *)
Rooted == ~Broken /\ Roots # {} /\ Root \in Nodes

Position ==
  /\ query = None => index = 1 /\ fallback = 0 /\ acc = Nothing /\ visited = <<>>
  /\ query \in {"iommu", "match", "ranges"} => Rooted /\ current \in Nodes /\ index >= 1
  /\ query \in {"match", "ranges"} => current = Root /\ fallback = 0 /\ Len(visited) = 1
  /\ query = "rmr" =>
       /\ current >= 1 /\ fallback = 0 /\ visited = <<>>
       /\ index > 0 => current \in Nodes /\ nodes[current].kind = "RMR"
  /\ query # None =>
       /\ index > 1 => index <= nodes[current].maps + 1
       /\ \A k \in 1 .. index - 1 : IsRead(current, k)

(* A mapping decides for good where the id x goes from node n: it and      *)
(* those in front of it are read, and all of them if it is a boundary.     *)
Settled(n, x, k) ==
  /\ k \in 1 .. nodes[n].maps
  /\ \A j \in 1 .. k : IsRead(n, j)
  /\ Fit(n, x, k)
  /\ \A j \in 1 .. k - 1 : Fit(n, x, j) => Boundary(M(n, j), x)
  /\ Boundary(M(n, k), x) =>
       \A j \in k + 1 .. nodes[n].maps : IsRead(n, j) /\ ~Fit(n, x, j)

StepSettled(v, w) ==
  /\ nodes[v.node].kind # target
  /\ \E k \in 1 .. nodes[v.node].maps :
       /\ Settled(v.node, v.id, k)
       /\ w = [node |-> M(v.node, k).ref, id |-> Translated(M(v.node, k), v.node, v.id)]

(* The search stands at the end of a path from the root complex, as long   *)
(* as its counter says.  The mappings in front of its position do not have *)
(* the id but at their boundary, and the fallback is the last of those.    *)
Searching ==
  /\ \A i \in 1 .. Len(visited) - 1 : StepSettled(visited[i], visited[i + 1])
  /\ query = "iommu" =>
       /\ Len(visited) = NodeCount - remaining + 1
       /\ visited[1] = [node |-> Root, id |-> Requester]
       /\ visited[Len(visited)] = [node |-> current, id |-> id]
       /\ \A k \in 1 .. index - 1 :
            Fit(current, id, k) => Boundary(M(current, k), id) /\ k <= fallback
       /\ fallback # 0 => fallback < index /\ Fit(current, id, fallback)

(* The queries that read ranges hold what the mappings read so far say.    *)
RmrDone ==
  {p \in DOMAIN mappings :
     /\ nodes[p[1]].kind = "RMR"
     /\ p[1] < current \/ (p[1] = current /\ p[2] < index)}

Gathering ==
  /\ query = "match" =>
       /\ acc.covered <=> \E k \in 1 .. index - 1 : Requester \in Claims(M(Root, k))
       /\ acc.unresolved <=> \E k \in 1 .. index - 1 : Claims(M(Root, k)) = {}
  /\ query = "ranges" =>
       \A x : x \in acc.ranges <=> \E k \in 1 .. index - 1 : x \in Claims(M(Root, k))
  /\ query = "rmr" =>
       /\ \A n \in Nodes : nodes[n].kind = "RMR" /\ n < current => AllRead(n) /\ acc.found
       /\ index > 0 => acc.found
       /\ \A x : x \in acc.ranges <=> \E p \in RmrDone : x \in Claims(mappings[p])
       /\ acc.unresolved <=> \E p \in RmrDone : Claims(mappings[p]) = {}

(* What the answers given say of the table.                                *)
MatchFact(a) ==
  IF Roots = {} THEN a.match = None
  ELSE /\ AllRead(Root)
       /\ a.match = "Covered" <=> \E k \in 1 .. nodes[Root].maps : Requester \in Claims(M(Root, k))
       /\ a.match = "NotCovered" => \A k \in 1 .. nodes[Root].maps : Claims(M(Root, k)) # {}

RangesFact(a) ==
  IF Roots = {} THEN a.ranges = {}
  ELSE /\ AllRead(Root)
       /\ \A x : x \in a.ranges <=> \E k \in 1 .. nodes[Root].maps : x \in Claims(M(Root, k))

IommuFact(a) ==
  a.node # 0 =>
    /\ Roots # {}
    /\ \E k \in 1 .. nodes[Root].maps : IsRead(Root, k) /\ Fit(Root, Requester, k)

RmrFact(a) ==
  /\ \A n \in Nodes : nodes[n].kind = "RMR" => AllRead(n)
  /\ a.ranges = IF \E m \in RmrMappings : Claims(m) = {} THEN {}
                ELSE UNION {Claims(m) : m \in RmrMappings}

Told ==
  /\ "match" \in DOMAIN answers => MatchFact(answers["match"])
  /\ "ranges" \in DOMAIN answers => RangesFact(answers["ranges"])
  /\ "iommu" \in DOMAIN answers => IommuFact(answers["iommu"])
  /\ "rmr" \in DOMAIN answers => RmrFact(answers["rmr"])

IortInv == TableTyped /\ LocalsTyped /\ Position /\ Searching /\ Gathering /\ Told

-----------------------------------------------------------------------------
(* Pure parts.                                                             *)

(* A non-empty set of nodes has a greatest element.                        *)
LEMMA GreatestElement ==
  ASSUME NEW n \in Nat, NEW S \in SUBSET (1 .. n), S # {}
  PROVE  Max(S) \in S /\ \A y \in S : y <= Max(S)
  <1> DEFINE T == {n - x : x \in S}
  <1>1. T \in SUBSET Nat
    <2>1. \A x \in S : n - x \in Nat
      OBVIOUS
    <2>2. QED
      BY <2>1
  <1>2. PICK s : s \in S
    OBVIOUS
  <1>3. n - s \in T /\ (\A y \in S : n - y \in T) /\ (\A t \in T : \E x \in S : t = n - x)
    BY <1>2
  <1> HIDE DEF T
  <1>4. T # {}
    BY <1>3
  <1>5. PICK t \in T : \A y \in T : ~(<<y, t>> \in OpToRel(<, Nat))
    BY <1>1, <1>4, NatLessThanWellFounded, WFMin
  <1>6. \A y \in T : t <= y
    <2>1. \A y \in T : y \in Nat
      BY <1>1
    <2>2. \A y \in T : ~(y < t)
      BY <1>5, <2>1 DEF OpToRel
    <2>3. QED
      BY <2>1, <2>2
  <1>7. PICK x \in S : t = n - x
    BY <1>3
  <1>8. \A y \in S : x >= y
    BY <1>3, <1>6, <1>7
  <1>9. Max(S) \in S /\ \A y \in S : Max(S) >= y
    BY <1>8 DEF Max
  <1>10. QED
    BY <1>9

(* The root complex that root_complex_for_segment finds.                   *)
LEMMA RootIsRoot ==
  ASSUME Roots # {}
  PROVE  Root \in Nodes /\ nodes[Root].kind = "root"
  <1>1. Roots \in SUBSET (1 .. NodeCount) /\ NodeCount \in Nat
    BY TableAssumption DEF Roots, Nodes
  <1>2. Max(Roots) \in Roots
    BY <1>1, GreatestElement
  <1>3. QED
    BY <1>2 DEF Root, Roots

(* What a mapping array may hold.                                          *)
LEMMA SessionMappings ==
  ASSUME TableTyped
  PROVE  session.mappings \subseteq MappingShape
  BY TableAssumption DEF TableTyped, MappingShape

(* A translation gives an id of 32 bits or none.                           *)
LEMMA TranslatedId ==
  ASSUME NEW m \in MappingShape, NEW n, NEW x \in 0 .. MaxId, Translated(m, n, x) # -1
  PROVE  Translated(m, n, x) \in 0 .. MaxId
  <1>1. m.base \in 0 .. MaxId /\ m.count \in 0 .. MaxId /\ m.out \in 0 .. MaxId /\ MaxId \in Nat
        /\ m.single \in BOOLEAN
    BY TableAssumption DEF MappingShape
  <1>2. CASE m.single
    BY <1>1, <1>2 DEF Translated
  <1>3. CASE ~m.single
    <2>1. Translated(m, n, x) = m.out + (x - m.base) /\ m.base <= x /\ m.out + (x - m.base) <= MaxId
      BY <1>3 DEF Translated
    <2>2. QED
      BY <1>1, <2>1
  <1>4. QED
    BY <1>2, <1>3

(* A mapping that claims requesters, but not this one, does not translate  *)
(* it.                                                                     *)
LEMMA UnclaimedIsUntranslated ==
  ASSUME NEW m \in MappingShape, NEW n, Claims(m) # {}, Requester \notin Claims(m)
  PROVE  Translated(m, n, Requester) = -1
  <1>1. m.base \in Nat /\ m.count \in Nat /\ m.single \in BOOLEAN
        /\ Requester \in 0 .. MaxBdf /\ MaxBdf \in Nat
    BY TableAssumption DEF MappingShape
  <1>2. ~m.single
    BY <1>1 DEF Claims
  <1>3. m.base + m.count <= MaxBdf /\ Claims(m) = m.base .. m.base + m.count
    BY <1>2 DEF Claims
  <1>4. ~(m.base <= Requester /\ Requester <= m.base + m.count)
    BY <1>1, <1>3
  <1>5. QED
    BY <1>2, <1>4 DEF Translated

(* A mapping claims requester ids only.                                    *)
LEMMA ClaimsIds ==
  ASSUME NEW m \in MappingShape
  PROVE  Claims(m) \in SUBSET (0 .. MaxBdf)
  <1>1. m.base \in Nat /\ m.count \in Nat /\ m.single \in BOOLEAN /\ MaxBdf \in Nat
    BY TableAssumption DEF MappingShape
  <1>2. CASE m.single
    BY <1>2 DEF Claims
  <1>3. CASE ~m.single
    BY <1>1, <1>3 DEF Claims
  <1>4. QED
    BY <1>2, <1>3

(* As many steps as nodes meet a node twice.                               *)
LEMMA Pigeonhole ==
  ASSUME visited \in Seq(Steps), Len(visited) = NodeCount + 1
  PROVE  \E i, j \in 1 .. Len(visited) : i < j /\ visited[i].node = visited[j].node
  <1> DEFINE S == 1 .. NodeCount + 1
             f == [i \in S |-> visited[i].node]
  <1>1. NodeCount \in Nat
    BY TableAssumption
  <1>2. IsFiniteSet(S) /\ Cardinality(S) = NodeCount + 1
    <2>1. 1 \in Int /\ NodeCount + 1 \in Int /\ ~(1 > NodeCount + 1) /\ NodeCount + 1 - 1 + 1 = NodeCount + 1
      BY <1>1
    <2>2. QED
      BY <2>1, FS_Interval
  <1>3. IsFiniteSet(Nodes) /\ Cardinality(Nodes) = NodeCount
    <2>1. 1 \in Int /\ NodeCount \in Int /\ NodeCount - 1 + 1 = NodeCount /\ (1 > NodeCount => NodeCount = 0)
      BY <1>1
    <2>2. QED
      BY <2>1, FS_Interval DEF Nodes
  <1>4. f \in [S -> Nodes]
    <2>1. \A i \in S : visited[i] \in Steps
      BY <1>1
    <2>2. \A i \in S : visited[i].node \in Nodes
      BY <2>1 DEF Steps
    <2>3. QED
      BY <2>2
  <1>5. \E x, y \in S : x # y /\ f[x] = f[y]
    <2> HIDE DEF f, S
    <2>1. Cardinality(Nodes) < Cardinality(S)
      BY <1>1, <1>2, <1>3
    <2>2. QED
      BY <1>2, <1>3, <1>4, <2>1, FS_PigeonHole
  <1>6. PICK x, y \in S : x # y /\ visited[x].node = visited[y].node
    BY <1>5
  <1>7. x < y \/ y < x
    BY <1>1, <1>6
  <1>8. QED
    BY <1>6, <1>7
-----------------------------------------------------------------------------
(* The table known so far only grows.                                      *)

Grows ==
  /\ UNCHANGED <<session, nodes>>
  /\ \A p \in DOMAIN mappings : p \in DOMAIN mappings' /\ mappings'[p] = mappings[p]

(* A step that reads no mapping.                                           *)
LEMMA NothingRead ==
  ASSUME TableTyped, UNCHANGED <<session, nodes, mappings>>
  PROVE  TableTyped' /\ Grows
  BY DEF TableTyped, Grows

(* A step that reads the mapping at (c, i), new or not.                    *)
LEMMA MappingRead ==
  ASSUME TableTyped, UNCHANGED <<session, nodes>>,
         NEW c \in Nodes, NEW i \in 1 .. nodes[c].maps,
         NEW m \in Contents(mappings, <<c, i>>, session.mappings),
         mappings' = Remember(mappings, <<c, i>>, m)
  PROVE  /\ TableTyped' /\ Grows
         /\ DOMAIN mappings' = DOMAIN mappings \union {<<c, i>>}
         /\ IsRead(c, i)' /\ M(c, i)' = m
         /\ m \in MappingShape
  <1>1. m \in session.mappings
    BY DEF Contents, TableTyped
  <1>2. DOMAIN mappings' = DOMAIN mappings \union {<<c, i>>}
    BY DEF Remember
  <1>3. mappings'[<<c, i>>] = m
    BY DEF Remember
  <1>4. \A p \in DOMAIN mappings : mappings'[p] = mappings[p]
    BY DEF Remember, Contents
  <1>5. TableTyped'
    <2>1. session' \in Sessions /\ nodes' \in [Nodes -> [kind : AllKinds, maps : -1 .. MaxMappings]]
      BY DEF TableTyped
    <2>2. ASSUME NEW p \in DOMAIN mappings'
          PROVE  /\ mappings'[p] \in session'.mappings
                 /\ \E n \in Nodes : \E k \in 1 .. nodes'[n].maps : p = <<n, k>>
      BY <1>1, <1>2, <1>3, <1>4 DEF TableTyped
    <2>3. QED
      BY <2>1, <2>2 DEF TableTyped, Nodes
  <1>6. Grows
    BY <1>2, <1>4 DEF Grows
  <1>7. QED
    BY <1>1, <1>2, <1>3, <1>5, <1>6, SessionMappings DEF IsRead, M

(* What was read stays read and means the same.                            *)
LEMMA ReadStays ==
  ASSUME Grows, NEW n, NEW k, IsRead(n, k)
  PROVE  IsRead(n, k)' /\ M(n, k)' = M(n, k) /\ \A x : Fit(n, x, k)' <=> Fit(n, x, k)
  <1>1. IsRead(n, k)' /\ M(n, k)' = M(n, k)
    BY DEF Grows, IsRead, M
  <1>2. ASSUME NEW x PROVE Translated(M(n, k), n, x)' = Translated(M(n, k), n, x)
    BY <1>1 DEF Grows, Translated, SingleAllowed
  <1>3. QED
    BY <1>1, <1>2 DEF Fit

(* An array read whole stays so.                                           *)
LEMMA AllReadStays ==
  ASSUME Grows, NEW n, AllRead(n)
  PROVE  AllRead(n)'
  <1>1. nodes' = nodes
    BY DEF Grows
  <1>2. \A k \in 1 .. nodes[n].maps : IsRead(n, k)'
    BY ReadStays DEF AllRead
  <1>3. QED
    BY <1>1, <1>2 DEF AllRead

(* The nodes were all there from the start.                                *)
LEMMA RootStays ==
  ASSUME Grows
  PROVE  Roots' = Roots /\ Root' = Root /\ (Broken' <=> Broken) /\ (Rooted' <=> Rooted)
  BY DEF Grows, Roots, Root, Broken, Rooted, Nodes

(* A settled step stays settled, whatever is read later.                   *)
LEMMA SettledStays ==
  ASSUME Grows, NEW n, NEW x, NEW k, Settled(n, x, k), nodes[n].maps \in Int
  PROVE  Settled(n, x, k)'
  <1>1. nodes' = nodes
    BY DEF Grows
  <1>2. k \in 1 .. nodes[n].maps /\ \A j \in 1 .. k : IsRead(n, j)
    BY DEF Settled
  <1>3. \A j \in 1 .. k : IsRead(n, j)' /\ M(n, j)' = M(n, j) /\ (Fit(n, x, j)' <=> Fit(n, x, j))
    BY <1>2, ReadStays
  <1>4. k \in 1 .. k /\ \A j \in 1 .. k - 1 : j \in 1 .. k
    BY <1>2
  <1>5. Fit(n, x, k)' /\ (Boundary(M(n, k), x)' <=> Boundary(M(n, k), x))
    BY <1>3, <1>4 DEF Settled, Boundary
  <1>6. ASSUME NEW j \in 1 .. k - 1, Fit(n, x, j)'
        PROVE  Boundary(M(n, j), x)'
    <2>1. Boundary(M(n, j), x)
      BY <1>3, <1>4, <1>6 DEF Settled
    <2>2. QED
      BY <1>3, <1>4, <2>1 DEF Boundary
  <1>7. ASSUME Boundary(M(n, k), x), NEW j \in k + 1 .. nodes[n].maps
        PROVE  IsRead(n, j)' /\ ~Fit(n, x, j)'
    BY <1>7, ReadStays DEF Settled
  <1>8. QED
    BY <1>1, <1>2, <1>3, <1>5, <1>6, <1>7 DEF Settled

(* So does a step of the path.                                             *)
LEMMA StepStays ==
  ASSUME Grows, TableTyped, target' = target, NEW v \in Steps, NEW w, StepSettled(v, w)
  PROVE  StepSettled(v, w)'
  <1>1. nodes' = nodes
    BY DEF Grows
  <1>2. PICK k \in 1 .. nodes[v.node].maps :
          /\ Settled(v.node, v.id, k)
          /\ w = [node |-> M(v.node, k).ref, id |-> Translated(M(v.node, k), v.node, v.id)]
    BY DEF StepSettled
  <1>3. nodes[v.node].maps \in Int
    BY DEF TableTyped, Steps
  <1>4. Settled(v.node, v.id, k)'
    BY <1>2, <1>3, SettledStays
  <1>5. IsRead(v.node, k)
    BY <1>2, <1>3 DEF Settled
  <1>6. M(v.node, k)' = M(v.node, k)
    BY <1>5, ReadStays
  <1>7. Translated(M(v.node, k), v.node, v.id)' = Translated(M(v.node, k), v.node, v.id)
    BY <1>1, <1>6 DEF Translated, SingleAllowed
  <1>8. QED
    BY <1>1, <1>2, <1>4, <1>6, <1>7 DEF StepSettled

(* What an answer says of the table stays true.                            *)
LEMMA MatchFactStays ==
  ASSUME Grows, TableTyped, NEW a, MatchFact(a)
  PROVE  MatchFact(a)'
  <1>1. Roots' = Roots /\ Root' = Root /\ nodes' = nodes
    BY RootStays DEF Grows
  <1>2. CASE Roots = {}
    BY <1>1, <1>2 DEF MatchFact
  <1>3. CASE Roots # {}
    <2>1. AllRead(Root) /\ AllRead(Root)'
      <3>1. PICK r : r = Root
        OBVIOUS
      <3>2. AllRead(r) /\ AllRead(r)'
        BY <1>3, <3>1, AllReadStays DEF MatchFact
      <3>3. QED
        BY <1>1, <3>1, <3>2 DEF AllRead, IsRead
    <2>2. \A k \in 1 .. nodes[Root].maps : M(Root, k)' = M(Root, k)
      BY <1>1, <2>1 DEF AllRead, IsRead, M, Grows
    <2>3. QED
      BY <1>1, <1>3, <2>1, <2>2 DEF MatchFact
  <1>4. QED
    BY <1>2, <1>3

(* The same of root_complex_bdf_ranges.                                    *)
LEMMA RangesFactStays ==
  ASSUME Grows, TableTyped, NEW a, RangesFact(a)
  PROVE  RangesFact(a)'
  <1>1. Roots' = Roots /\ Root' = Root /\ nodes' = nodes
    BY RootStays DEF Grows
  <1>2. CASE Roots = {}
    BY <1>1, <1>2 DEF RangesFact
  <1>3. CASE Roots # {}
    <2>1. AllRead(Root) /\ AllRead(Root)'
      <3>1. PICK r : r = Root
        OBVIOUS
      <3>2. AllRead(r) /\ AllRead(r)'
        BY <1>3, <3>1, AllReadStays DEF RangesFact
      <3>3. QED
        BY <1>1, <3>1, <3>2 DEF AllRead, IsRead
    <2>2. \A k \in 1 .. nodes[Root].maps : M(Root, k)' = M(Root, k)
      BY <1>1, <2>1 DEF AllRead, IsRead, M, Grows
    <2>3. QED
      BY <1>1, <1>3, <2>1, <2>2 DEF RangesFact
  <1>4. QED
    BY <1>2, <1>3

(* The same of the search.                                                 *)
LEMMA IommuFactStays ==
  ASSUME Grows, TableTyped, NEW a, IommuFact(a)
  PROVE  IommuFact(a)'
  <1> SUFFICES ASSUME a.node # 0
               PROVE  /\ Roots' # {}
                      /\ \E k \in 1 .. nodes'[Root'].maps : IsRead(Root, k)' /\ Fit(Root, Requester, k)'
    BY DEF IommuFact
  <1>1. Roots' = Roots /\ Root' = Root /\ nodes' = nodes
    BY RootStays DEF Grows
  <1>2. PICK r, k : r = Root /\ k \in 1 .. nodes[r].maps /\ IsRead(r, k) /\ Fit(r, Requester, k)
    BY DEF IommuFact
  <1>3. IsRead(r, k)' /\ Fit(r, Requester, k)'
    BY <1>2, ReadStays
  <1>4. IsRead(Root, k)' /\ Fit(Root, Requester, k)'
    BY <1>1, <1>2, <1>3 DEF IsRead, Fit, M, Translated, SingleAllowed
  <1>5. QED
    BY <1>1, <1>2, <1>4 DEF IommuFact

(* The same of rmr_bdf_ranges: nothing new can be read at its nodes.       *)
LEMMA RmrFactStays ==
  ASSUME Grows, TableTyped, TableTyped', NEW a, RmrFact(a)
  PROVE  RmrFact(a)'
  <1>1. nodes' = nodes /\ \A n \in Nodes : nodes[n].kind = "RMR" => AllRead(n)
    BY DEF Grows, RmrFact
  <1>2. \A n \in Nodes : nodes[n].kind = "RMR" => AllRead(n)'
    BY <1>1, AllReadStays
  <1>3. RmrMappings' = RmrMappings
    <2> DEFINE D == {q \in DOMAIN mappings : nodes[q[1]].kind = "RMR"}
               E == {q \in DOMAIN mappings' : nodes[q[1]].kind = "RMR"}
    <2>1. ASSUME NEW q \in E PROVE q \in D
      <3>1. PICK n \in Nodes : \E k \in 1 .. nodes[n].maps : q = <<n, k>>
        BY <1>1 DEF TableTyped
      <3>2. PICK k \in 1 .. nodes[n].maps : q = <<n, k>>
        BY <3>1
      <3>3. nodes[n].kind = "RMR"
        BY <3>2
      <3>4. IsRead(n, k)
        BY <1>1, <3>3 DEF AllRead
      <3>5. QED
        BY <3>2, <3>3, <3>4 DEF IsRead
    <2>2. \A q \in D : q \in E /\ mappings'[q] = mappings[q]
      BY DEF Grows
    <2>3. RmrMappings = {mappings[p] : p \in D} /\ RmrMappings' = {mappings'[p] : p \in E}
      BY <1>1 DEF RmrMappings
    <2> HIDE DEF D, E
    <2>4. D = E
      BY <2>1, <2>2
    <2>5. QED
      BY <2>2, <2>3, <2>4
  <1>4. QED
    BY <1>1, <1>2, <1>3 DEF RmrFact, Nodes

(* A step that gives no answer.                                            *)
LEMMA ToldStays ==
  ASSUME Grows, TableTyped, TableTyped', Told, UNCHANGED answers
  PROVE  Told'
  <1>1. PICK a : a = answers
    OBVIOUS
  <1>2. answers' = a
    BY <1>1
  <1>3. QED
    BY <1>1, <1>2, MatchFactStays, RangesFactStays, IommuFactStays, RmrFactStays DEF Told

(* The answer is one that the table bears out.                              *)
LEMMA ToldAnswer ==
  ASSUME Grows, TableTyped, TableTyped', Told,
         NEW q, NEW a, answers' = Remember(answers, q, a),
         q = "match" => MatchFact(a), q = "ranges" => RangesFact(a),
         q = "iommu" => IommuFact(a), q = "rmr" => RmrFact(a)
  PROVE  Told'
  <1>1. DOMAIN answers' = DOMAIN answers \union {q} /\ answers'[q] = a
    BY DEF Remember
  <1>2. \A r \in DOMAIN answers : r # q => answers'[r] = answers[r]
    BY DEF Remember
  <1>3. PICK b : b = answers'
    OBVIOUS
  <1>4. "match" \in DOMAIN b => MatchFact(b["match"])'
    BY <1>1, <1>2, <1>3, MatchFactStays DEF Told
  <1>5. "ranges" \in DOMAIN b => RangesFact(b["ranges"])'
    BY <1>1, <1>2, <1>3, RangesFactStays DEF Told
  <1>6. "iommu" \in DOMAIN b => IommuFact(b["iommu"])'
    BY <1>1, <1>2, <1>3, IommuFactStays DEF Told
  <1>7. "rmr" \in DOMAIN b => RmrFact(b["rmr"])'
    BY <1>1, <1>2, <1>3, RmrFactStays DEF Told
  <1>8. QED
    BY <1>3, <1>4, <1>5, <1>6, <1>7 DEF Told

-----------------------------------------------------------------------------
(* Steps that several actions share.                                       *)

Going == LocalsTyped /\ Position /\ Searching /\ Gathering

(* A query has returned.                                                   *)
LEMMA ResetHolds ==
  ASSUME Reset, DOMAIN answers' \subseteq Queries, DOMAIN errors' \subseteq Queries
  PROVE  Going'
  <1>1. query' = None /\ target' = "SMMUv3" /\ current' = 0 /\ id' = 0 /\ remaining' = 0
        /\ index' = 1 /\ fallback' = 0 /\ acc' = Nothing /\ visited' = <<>>
    BY DEF Reset
  <1>2. LocalsTyped'
    <2>1. 0 \in 0 .. NodeCount + 1 /\ 0 \in 0 .. MaxId /\ 0 \in 0 .. NodeCount
      BY TableAssumption
    <2>2. Nothing \in Accumulators
      BY DEF Nothing, Accumulators
    <2>3. <<>> \in Seq(Steps)
      OBVIOUS
    <2>4. QED
      BY <1>1, <2>1, <2>2, <2>3 DEF LocalsTyped, Accumulators, Steps, Nodes
  <1>3. Position' /\ Gathering'
    BY <1>1 DEF Position, Gathering, None
  <1>4. Searching'
    BY <1>1 DEF Searching, None
  <1>5. QED
    BY <1>2, <1>3, <1>4 DEF Going

(* A search, or one of the queries that read the root complex's mappings,  *)
(* stands at the root complex.                                             *)
LEMMA EnterHolds ==
  ASSUME Rooted, UNCHANGED nodes, NEW kind \in {"SMMUv3", "SMMU"}, EnterSearch(kind),
         query' \in {"iommu", "match", "ranges"},
         acc' \in Accumulators, query' # "iommu" => acc' = Nothing,
         DOMAIN answers' \subseteq Queries, DOMAIN errors' \subseteq Queries
  PROVE  Going'
  <1> DEFINE e == [node |-> Root, id |-> Requester]
  <1>1. Root \in Nodes /\ Root' = Root /\ Rooted'
    BY DEF Rooted, Root, Roots, Broken, Nodes
  <1>2. target' = kind /\ current' = Root /\ id' = Requester /\ remaining' = NodeCount
        /\ index' = 1 /\ fallback' = 0 /\ visited' = <<e>>
    BY DEF EnterSearch, StartRemaining
  <1>3. Len(visited') = 1 /\ visited'[1] = e
    BY <1>2
  <1>4. Root \in 0 .. NodeCount + 1 /\ Requester \in 0 .. MaxId /\ NodeCount \in 0 .. NodeCount
        /\ NodeCount \in Nat
    BY <1>1, TableAssumption DEF Nodes
  <1>5. LocalsTyped'
    <2>1. e \in Steps
      BY <1>1, <1>4 DEF Steps
    <2>2. <<e>> \in Seq(Steps)
      BY <2>1
    <2>3. QED
      BY <1>2, <1>4, <2>2 DEF LocalsTyped, Accumulators, Steps, Nodes, Queries
  <1>6. Position'
    BY <1>1, <1>2, <1>3 DEF Position, None
  <1>7. Searching'
    BY <1>1, <1>2, <1>3, <1>4 DEF Searching
  <1>8. Gathering'
    BY <1>2 DEF Gathering, Nothing
  <1>9. QED
    BY <1>5, <1>6, <1>7, <1>8 DEF Going

(* A query returns an error.                                               *)
LEMMA ErrHolds ==
  ASSUME IortInv, TableTyped', Grows, query # None, NEW e, ReturnErr(e)
  PROVE  IortInv'
  <1>1. DOMAIN answers' \subseteq Queries /\ DOMAIN errors' \subseteq Queries
    BY DEF IortInv, LocalsTyped, ReturnErr, Remember
  <1>2. Going'
    BY <1>1, ResetHolds DEF ReturnErr
  <1>3. Told'
    BY ToldStays DEF IortInv, ReturnErr
  <1>4. QED
    BY <1>2, <1>3 DEF IortInv, Going

(* A query returns an answer that the table bears out.                     *)
LEMMA OkHolds ==
  ASSUME IortInv, TableTyped', Grows, query # None, NEW a, ReturnOk(a),
         query = "match" => MatchFact(a), query = "ranges" => RangesFact(a),
         query = "iommu" => IommuFact(a), query = "rmr" => RmrFact(a)
  PROVE  IortInv'
  <1>1. DOMAIN answers' \subseteq Queries /\ DOMAIN errors' \subseteq Queries
    BY DEF IortInv, LocalsTyped, ReturnOk, Remember
  <1>2. Going'
    BY <1>1, ResetHolds DEF ReturnOk
  <1>3. Told'
    <2>1. PICK q : q = query
      OBVIOUS
    <2>2. answers' = Remember(answers, q, a)
      BY <2>1 DEF ReturnOk
    <2>3. QED
      BY <2>1, <2>2, ToldAnswer DEF IortInv
  <1>4. QED
    BY <1>2, <1>3 DEF IortInv, Going

(* Nothing found: the search for an SMMU begins, or None is returned.      *)
LEMMA NotFoundHolds ==
  ASSUME IortInv, TableTyped', Grows, query = "iommu", NotFound
  PROVE  IortInv'
  <1>1. CASE target = "SMMUv3"
    <2>1. EnterSearch("SMMU") /\ UNCHANGED <<query, acc, answers, errors>>
      BY <1>1 DEF NotFound
    <2>2. Rooted /\ UNCHANGED nodes /\ acc \in Accumulators
          /\ DOMAIN answers \subseteq Queries /\ DOMAIN errors \subseteq Queries
      BY DEF IortInv, Position, Grows, LocalsTyped
    <2>3. Going'
      BY <2>1, <2>2, EnterHolds
    <2>4. Told'
      BY <2>1, ToldStays DEF IortInv
    <2>5. QED
      BY <2>3, <2>4 DEF IortInv, Going
  <1>2. CASE target # "SMMUv3"
    <2>1. ReturnOk(NoResult)
      BY <1>2 DEF NotFound
    <2>2. IommuFact(NoResult)
      BY DEF IommuFact, NoResult
    <2>3. QED
      BY <2>1, <2>2, OkHolds DEF None
  <1>3. QED
    BY <1>1, <1>2

(* The search takes the mapping that has settled where to go.              *)
LEMMA FollowHolds ==
  ASSUME IortInv, TableTyped', Grows, query = "iommu",
         remaining > 0, nodes[current].kind # target,
         NEW c, NEW x, c = current, x = id, NEW k \in 1 .. nodes[c].maps,
         Settled(c, x, k)', NEW m \in MappingShape, M(c, k)' = m,
         Translated(m, c, x) # -1, Follow(m)
  PROVE  IortInv'
  <1>1. CASE ~IsNode(m.ref)
    BY <1>1, NotFoundHolds DEF Follow
  <1>2. CASE IsNode(m.ref)
    <2> DEFINE y == Translated(m, c, x)
               w == [node |-> m.ref, id |-> y]
               n == Len(visited)
    <2>1. current' = m.ref /\ id' = y /\ remaining' = remaining - 1 /\ index' = 1 /\ fallback' = 0
          /\ visited' = Append(visited, w) /\ UNCHANGED <<query, target, acc, answers, errors>>
      BY <1>2 DEF Follow
    <2>2. m.ref \in Nodes
      BY <1>2 DEF IsNode
    <2>3. y \in 0 .. MaxId
      BY TranslatedId DEF IortInv, LocalsTyped
    <2>4. w \in Steps
      BY <2>2, <2>3 DEF Steps
    <2> HIDE DEF y, w
    <2>5. visited \in Seq(Steps) /\ visited' \in Seq(Steps) /\ Len(visited') = n + 1 /\ n \in Nat
          /\ visited'[n + 1] = w /\ \A i \in 1 .. n : visited'[i] = visited[i]
      BY <2>1, <2>4 DEF IortInv, LocalsTyped
    <2>6. LocalsTyped'
      <3>1. current' \in 0 .. NodeCount + 1 /\ remaining' \in 0 .. NodeCount
        BY <2>1, <2>2, TableAssumption DEF Nodes, IortInv, LocalsTyped
      <3>2. QED
        BY <2>1, <2>3, <2>5, <3>1 DEF IortInv, LocalsTyped, Accumulators, Steps, Nodes
    <2>7. Root' = Root /\ Rooted' /\ nodes' = nodes
      BY RootStays DEF IortInv, Position, Grows
    <2>8. Position'
      BY <2>1, <2>2, <2>7 DEF Position, None, Nodes
    <2>9. n = NodeCount - remaining + 1 /\ n >= 1 /\ visited[1] = [node |-> Root, id |-> Requester]
          /\ visited[n] = [node |-> c, id |-> x]
      BY TableAssumption DEF IortInv, Searching, LocalsTyped
    <2>10. ASSUME NEW i \in 1 .. Len(visited') - 1
           PROVE  StepSettled(visited[i], visited[i + 1])'
      <3>1. CASE i < n
        <4>1. StepSettled(visited[i], visited[i + 1]) /\ visited[i] \in Steps
          BY <2>5, <3>1 DEF IortInv, Searching
        <4>2. PICK v, u : v = visited[i] /\ u = visited[i + 1]
          OBVIOUS
        <4>3. StepSettled(v, u)'
          BY <2>1, <4>1, <4>2, StepStays DEF IortInv
        <4>4. visited'[i] = v /\ visited'[i + 1] = u
          BY <2>5, <3>1, <4>2
        <4>5. QED
          BY <4>3, <4>4
      <3>2. CASE i = n
        <4>1. PICK v, u : v = [node |-> c, id |-> x] /\ u = w
          OBVIOUS
        <4>2. visited'[i] = v /\ visited'[i + 1] = u
          BY <2>5, <2>9, <3>2, <4>1
        <4>3. v.node = c /\ v.id = x
          BY <4>1
        <4>4. Translated(M(c, k), c, x)' = y
          BY <2>7 DEF Translated, SingleAllowed, y
        <4>5. nodes'[c].kind # target'
          BY <2>1, <2>7
        <4>6. u = [node |-> M(c, k)'.ref, id |-> Translated(M(c, k), c, x)']
          BY <4>1, <4>4 DEF w
        <4>7. StepSettled(v, u)'
          BY <2>7, <4>3, <4>5, <4>6 DEF StepSettled
        <4>8. QED
          BY <4>2, <4>7
      <3>3. QED
        BY <2>5, <3>1, <3>2
    <2>11. Searching'
      <3>1. Len(visited') = NodeCount - remaining' + 1
        BY <2>1, <2>5, <2>9, TableAssumption DEF IortInv, LocalsTyped
      <3>2. visited'[1] = [node |-> Root', id |-> Requester]
        BY <2>5, <2>7, <2>9
      <3>3. visited'[Len(visited')] = [node |-> current', id |-> id']
        BY <2>1, <2>5 DEF w
      <3>4. QED
        BY <2>1, <2>10, <3>1, <3>2, <3>3 DEF Searching
    <2>12. Gathering'
      BY <2>1 DEF Gathering
    <2>13. Told'
      BY <2>1, ToldStays DEF IortInv
    <2>14. QED
      BY <2>6, <2>8, <2>11, <2>12, <2>13 DEF IortInv
  <1>3. QED
    BY <1>1, <1>2

-----------------------------------------------------------------------------
(* Actions of the search.                                                  *)

(* translate_once looks at one mapping.                                    *)
LEMMA TryMappingStep == IortInv /\ TryMapping => IortInv'
  <1> SUFFICES ASSUME IortInv, TryMapping PROVE IortInv'
    OBVIOUS
  <1>1. query = "iommu" /\ remaining > 0 /\ nodes[current].kind # target
        /\ index <= nodes[current].maps /\ UNCHANGED <<session, nodes>>
    BY DEF TryMapping, Reading
  <1>2. PICK m \in NextMapping :
          /\ mappings' = Remember(mappings, <<current, index>>, m)
          /\ \/ /\ Translated(m, current, id) = -1
                /\ index' = index + 1
                /\ UNCHANGED <<query, target, current, id, remaining, fallback, visited, acc, answers, errors>>
             \/ /\ Translated(m, current, id) # -1 /\ Boundary(m, id)
                /\ index' = index + 1 /\ fallback' = index
                /\ UNCHANGED <<query, target, current, id, remaining, visited, acc, answers, errors>>
             \/ /\ Translated(m, current, id) # -1 /\ ~Boundary(m, id)
                /\ Follow(m)
    BY DEF TryMapping, Read
  <1>3. PICK c, x, i : c = current /\ x = id /\ i = index
    OBVIOUS
  <1>4. c \in Nodes /\ nodes[c].maps \in Int /\ i \in 1 .. nodes[c].maps
    <2>1. c \in Nodes /\ i \in Nat /\ i >= 1
      BY <1>1, <1>3 DEF IortInv, Position, LocalsTyped
    <2>2. nodes[c].maps \in Int
      BY <2>1 DEF IortInv, TableTyped
    <2>3. QED
      BY <1>1, <1>3, <2>1, <2>2
  <1>5. /\ TableTyped' /\ Grows
        /\ DOMAIN mappings' = DOMAIN mappings \union {<<c, i>>}
        /\ IsRead(c, i)' /\ M(c, i)' = m
        /\ m \in MappingShape
    BY <1>1, <1>2, <1>3, <1>4, MappingRead DEF NextMapping, IortInv
  <1>6. \A j \in 1 .. i - 1 :
          /\ IsRead(c, j)' /\ M(c, j)' = M(c, j)
          /\ Fit(c, x, j)' <=> Fit(c, x, j)
          /\ Fit(c, x, j) => Boundary(M(c, j), x) /\ j <= fallback
    <2>1. \A j \in 1 .. i - 1 : IsRead(c, j)
      BY <1>1, <1>3 DEF IortInv, Position, None
    <2>2. QED
      BY <1>1, <1>3, <1>5, <2>1, ReadStays DEF IortInv, Searching
  <1>7. Fit(c, x, i)' <=> Translated(m, c, x) # -1
    BY <1>1, <1>5 DEF Fit, Translated, SingleAllowed
  <1>8. CASE Translated(m, current, id) # -1 /\ ~Boundary(m, id) /\ Follow(m)
    <2>1. Settled(c, x, i)'
      <3>1. \A j \in 1 .. i : j = i \/ j \in 1 .. i - 1
        BY <1>4
      <3>2. \A j \in 1 .. i - 1 : Fit(c, x, j)' => Boundary(M(c, j)', x)
        BY <1>6
      <3>3. ~Boundary(M(c, i)', x)
        BY <1>3, <1>5, <1>8
      <3>4. QED
        BY <1>1, <1>3, <1>4, <1>5, <1>6, <1>7, <1>8, <3>1, <3>2, <3>3 DEF Settled
    <2>2. QED
      BY <1>1, <1>3, <1>4, <1>5, <1>8, <2>1, FollowHolds
  <1>9. CASE /\ index' = index + 1
             /\ UNCHANGED <<query, target, current, id, remaining, visited, acc, answers, errors>>
             /\ \/ Translated(m, current, id) = -1 /\ fallback' = fallback
                \/ Translated(m, current, id) # -1 /\ Boundary(m, id) /\ fallback' = index
    <2>1. LocalsTyped'
      BY <1>9 DEF IortInv, LocalsTyped, Accumulators, Steps, Nodes
    <2>2. Root' = Root /\ (Rooted' <=> Rooted) /\ nodes' = nodes
      BY <1>5, RootStays DEF Grows
    <2>3. \A j \in 1 .. index' - 1 : j = i \/ j \in 1 .. i - 1
      BY <1>3, <1>4, <1>9
    <2>4. Position'
      <3>1. \A j \in 1 .. index' - 1 : IsRead(current, j)'
        BY <1>3, <1>5, <1>6, <1>9, <2>3
      <3>2. index' <= nodes'[current'].maps + 1 /\ index' >= 1
        BY <1>3, <1>4, <1>9, <2>2
      <3>3. query' = "iommu" /\ Rooted' /\ current' \in Nodes
        BY <1>1, <1>3, <1>4, <1>9, <2>2 DEF IortInv, Position
      <3>4. QED
        BY <3>1, <3>2, <3>3 DEF Position, None
    <2>5. \A j \in 1 .. Len(visited') - 1 : StepSettled(visited[j], visited[j + 1])'
      <3> SUFFICES ASSUME NEW j \in 1 .. Len(visited) - 1
                   PROVE  StepSettled(visited[j], visited[j + 1])'
        BY <1>9
      <3>1. PICK v, w : v = visited[j] /\ w = visited[j + 1]
        OBVIOUS
      <3>2. v \in Steps /\ StepSettled(v, w)
        BY <3>1 DEF IortInv, LocalsTyped, Searching
      <3>3. StepSettled(v, w)'
        BY <1>5, <1>9, <3>2, StepStays DEF IortInv
      <3>4. visited'[j] = v /\ visited'[j + 1] = w
        BY <1>9, <3>1
      <3>5. QED
        BY <3>3, <3>4
    <2>6. fallback \in Nat /\ fallback <= i - 1 /\ (fallback # 0 => Fit(c, x, fallback))
      BY <1>1, <1>3, <1>4 DEF IortInv, LocalsTyped, Searching
    <2>7. fallback' # 0 => fallback' < index' /\ Fit(current, id, fallback)'
      <3>1. CASE Translated(m, current, id) = -1 /\ fallback' = fallback
        <4>1. PICK f : f = fallback
          OBVIOUS
        <4>2. f # 0 => Fit(c, x, f)'
          BY <1>4, <1>6, <2>6, <4>1
        <4>3. QED
          BY <1>3, <1>4, <1>9, <2>6, <3>1, <4>1, <4>2
      <3>2. CASE Translated(m, current, id) # -1 /\ fallback' = index
        BY <1>3, <1>4, <1>7, <1>9, <3>2
      <3>3. QED
        BY <1>9, <3>1, <3>2
    <2>8. \A j \in 1 .. index' - 1 :
            Fit(current, id, j)' => Boundary(M(current, j), id)' /\ j <= fallback'
      <3> SUFFICES ASSUME NEW j \in 1 .. index' - 1, Fit(c, x, j)'
                   PROVE  Boundary(M(c, j)', x) /\ j <= fallback'
        BY <1>3, <1>9
      <3>1. CASE j = i
        BY <1>3, <1>4, <1>5, <1>7, <1>9, <3>1
      <3>2. CASE j \in 1 .. i - 1
        <4>1. Boundary(M(c, j)', x) /\ j <= fallback
          BY <1>6, <3>2
        <4>2. QED
          BY <1>3, <1>4, <1>9, <2>6, <3>2, <4>1
      <3>3. QED
        BY <2>3, <3>1, <3>2
    <2>9. Searching'
      BY <1>1, <1>9, <2>2, <2>5, <2>7, <2>8 DEF IortInv, Searching
    <2>10. Gathering' /\ Told'
      BY <1>1, <1>5, <1>9, ToldStays DEF Gathering, IortInv
    <2>11. QED
      BY <1>5, <2>1, <2>4, <2>9, <2>10 DEF IortInv
  <1>10. QED
    BY <1>2, <1>8, <1>9

(* translate_once has seen all mappings: the fallback decides, if any.     *)
LEMMA EndOfMappingsStep == IortInv /\ EndOfMappings => IortInv'
  <1> SUFFICES ASSUME IortInv, EndOfMappings PROVE IortInv'
    OBVIOUS
  <1>1. query = "iommu" /\ remaining > 0 /\ nodes[current].kind # target
        /\ nodes[current].maps # -1 /\ index > nodes[current].maps
        /\ UNCHANGED <<session, nodes, mappings>>
    BY DEF EndOfMappings, Reading
  <1>2. TableTyped' /\ Grows
    BY <1>1, NothingRead DEF IortInv
  <1>3. CASE fallback = 0
    BY <1>1, <1>2, <1>3, NotFoundHolds DEF EndOfMappings
  <1>4. CASE fallback # 0
    <2>1. PICK c, x, k : c = current /\ x = id /\ k = fallback
      OBVIOUS
    <2>2. Follow(M(c, k))
      BY <1>4, <2>1 DEF EndOfMappings, M
    <2>3. c \in Nodes /\ nodes[c].maps \in Int /\ index \in Nat /\ index >= 1
      BY <1>1, <2>1 DEF IortInv, Position, LocalsTyped, TableTyped
    <2>4. index <= nodes[c].maps + 1 \/ index = 1
      BY <1>1, <2>1, <2>3 DEF IortInv, Position, None
    <2>5. k \in 1 .. index - 1 /\ Fit(c, x, k)
      BY <1>1, <1>4, <2>1, <2>3 DEF IortInv, Searching, LocalsTyped
    <2>6. index = nodes[c].maps + 1
      BY <1>1, <2>1, <2>3, <2>4, <2>5
    <2>7. \A j \in 1 .. nodes[c].maps :
            IsRead(c, j) /\ (Fit(c, x, j) => Boundary(M(c, j), x) /\ j <= k)
      BY <1>1, <2>1, <2>3, <2>6 DEF IortInv, Position, Searching, None
    <2>8. k \in 1 .. nodes[c].maps
      BY <2>3, <2>5, <2>6
    <2>9. Settled(c, x, k)
      <3>1. \A j \in 1 .. k : j \in 1 .. nodes[c].maps
        BY <2>3, <2>8
      <3>2. \A j \in k + 1 .. nodes[c].maps : j \in 1 .. nodes[c].maps /\ ~(j <= k)
        BY <2>3, <2>8
      <3>3. \A j \in 1 .. k - 1 : j \in 1 .. k
        BY <2>3, <2>8
      <3>4. QED
        BY <2>5, <2>7, <2>8, <3>1, <3>2, <3>3 DEF Settled
    <2>10. Settled(c, x, k)'
      BY <1>2, <2>3, <2>9, SettledStays
    <2>11. PICK m : m = M(c, k)
      OBVIOUS
    <2>12. m \in MappingShape /\ M(c, k)' = m
      BY <1>1, <2>7, <2>8, <2>11, SessionMappings DEF IortInv, TableTyped, IsRead, M
    <2>13. Translated(m, c, x) # -1
      BY <2>5, <2>11 DEF Fit
    <2>14. QED
      BY <1>1, <1>2, <2>1, <2>2, <2>8, <2>10, <2>11, <2>12, <2>13, FollowHolds
  <1>5. QED
    BY <1>3, <1>4

(* map_id_to_kind has found a node of its kind.  It is not the root        *)
(* complex, so the path has a first step, which a mapping of the root      *)
(* complex settled.                                                        *)
LEMMA ArriveStep == IortInv /\ Arrive => IortInv'
  <1> SUFFICES ASSUME IortInv, Arrive PROVE IortInv'
    OBVIOUS
  <1> DEFINE a == [NoResult EXCEPT !.node = current, !.id = id]
             n == Len(visited)
  <1>1. query = "iommu" /\ nodes[current].kind = target /\ ReturnOk(a)
        /\ UNCHANGED <<session, nodes, mappings>>
    BY DEF Arrive, AtHead
  <1>2. TableTyped' /\ Grows
    BY <1>1, NothingRead DEF IortInv
  <1>3. Roots # {} /\ nodes[Root].kind = "root" /\ target # "root"
    BY <1>1, RootIsRoot DEF IortInv, Position, Rooted, LocalsTyped
  <1>4. visited \in Seq(Steps) /\ n \in Nat /\ n >= 1
        /\ visited[1] = [node |-> Root, id |-> Requester]
        /\ visited[n] = [node |-> current, id |-> id]
    BY <1>1, TableAssumption DEF IortInv, Searching, LocalsTyped
  <1>5. n # 1
    BY <1>1, <1>3, <1>4
  <1>6. \E w : StepSettled(visited[1], w)
    <2>1. PICK i : i = 1
      OBVIOUS
    <2>2. i \in 1 .. n - 1
      <3>1. n \in Nat /\ n >= 1 /\ n # 1
        BY <1>4, <1>5
      <3> HIDE DEF n
      <3>2. QED
        BY <2>1, <3>1
    <2>3. StepSettled(visited[i], visited[i + 1])
      BY <2>2 DEF IortInv, Searching
    <2>4. QED
      BY <2>1, <2>3
  <1>7. PICK k \in 1 .. nodes[Root].maps : Settled(Root, Requester, k)
    BY <1>4, <1>6 DEF StepSettled
  <1>8. IsRead(Root, k) /\ Fit(Root, Requester, k)
    BY <1>7 DEF Settled
  <1>9. IommuFact(a)
    BY <1>3, <1>7, <1>8 DEF IommuFact
  <1>10. QED
    BY <1>1, <1>2, <1>9, OkHolds DEF None

(* Errors: the bound on the steps, and an array out of its node.           *)
LEMMA ErrorSteps == IortInv /\ (Exhausted \/ BadArray) => IortInv'
  <1> SUFFICES ASSUME IortInv, Exhausted \/ BadArray PROVE IortInv'
    OBVIOUS
  <1>1. query # None /\ UNCHANGED <<session, nodes, mappings>>
    BY DEF Exhausted, BadArray, AtHead, Reading, None
  <1>2. TableTyped' /\ Grows
    BY <1>1, NothingRead DEF IortInv
  <1>3. \E e : ReturnErr(e)
    BY DEF Exhausted, BadArray
  <1>4. QED
    BY <1>1, <1>2, <1>3, ErrHolds

-----------------------------------------------------------------------------
(* Actions of the queries that read ranges.                                *)

(* What one more mapping adds to the requester match and to the ranges of  *)
(* the root complex.                                                       *)
LEMMA GatherRoot ==
  ASSUME IortInv, Grows, NEW i \in Nat, i = index, i >= 1, NEW m,
         query \in {"match", "ranges"}, UNCHANGED query, index' = i + 1,
         M(Root, i)' = m, acc' = TakeMapping(m)
  PROVE  Gathering'
  <1>1. Root' = Root
    BY RootStays
  <1>2. \A k \in 1 .. i - 1 : M(Root, k)' = M(Root, k)
    <2>1. current = Root /\ \A k \in 1 .. i - 1 : IsRead(current, k)
      BY DEF IortInv, Position, None
    <2>2. QED
      BY <1>1, <2>1 DEF IsRead, M, Grows
  <1>3. \A k : k \in 1 .. i <=> k \in 1 .. i - 1 \/ k = i
    OBVIOUS
  <1>4. index' - 1 = i
    OBVIOUS
  <1>5. acc \in Accumulators
    BY DEF IortInv, LocalsTyped
  <1>6. CASE query = "match"
    <2>1. acc' = [acc EXCEPT !.covered = @ \/ Requester \in Claims(m), !.unresolved = @ \/ Claims(m) = {}]
      BY <1>6 DEF TakeMapping
    <2>2. /\ acc'.covered <=> acc.covered \/ Requester \in Claims(m)
          /\ acc'.unresolved <=> acc.unresolved \/ Claims(m) = {}
      BY <1>5, <2>1 DEF Accumulators
    <2>3. acc.covered <=> \E k \in 1 .. i - 1 : Requester \in Claims(M(Root, k))
      BY <1>6 DEF IortInv, Gathering
    <2>4. acc.unresolved <=> \E k \in 1 .. i - 1 : Claims(M(Root, k)) = {}
      BY <1>6 DEF IortInv, Gathering
    <2>5. acc'.covered <=> \E k \in 1 .. i : Requester \in Claims(M(Root, k)')
      BY <1>2, <1>3, <2>2, <2>3
    <2>6. acc'.unresolved <=> \E k \in 1 .. i : Claims(M(Root, k)') = {}
      BY <1>2, <1>3, <2>2, <2>4
    <2>7. QED
      BY <1>4, <1>6, <2>5, <2>6 DEF Gathering
  <1>7. CASE query = "ranges"
    <2>1. acc' = [acc EXCEPT !.ranges = @ \union Claims(m)]
      BY <1>7 DEF TakeMapping
    <2>2. acc'.ranges = acc.ranges \union Claims(m)
      BY <1>5, <2>1 DEF Accumulators
    <2>3. \A x : x \in acc.ranges <=> \E k \in 1 .. i - 1 : x \in Claims(M(Root, k))
      BY <1>7 DEF IortInv, Gathering
    <2>4. \A x : x \in acc'.ranges <=> \E k \in 1 .. i : x \in Claims(M(Root, k)')
      BY <1>2, <1>3, <2>2, <2>3
    <2>5. QED
      BY <1>4, <1>7, <2>4 DEF Gathering
  <1>8. QED
    BY <1>6, <1>7

(* What one more mapping adds to the requesters of a memory range.         *)
LEMMA GatherRmr ==
  ASSUME IortInv, TableTyped', Grows, NEW c \in Nodes, c = current,
         NEW i \in Nat, i = index, i >= 1, NEW m,
         query = "rmr", UNCHANGED <<query, current>>, index' = i + 1,
         DOMAIN mappings' = DOMAIN mappings \union {<<c, i>>},
         M(c, i)' = m, acc' = TakeMapping(m)
  PROVE  Gathering'
  <1>1. nodes' = nodes /\ nodes[c].kind = "RMR"
    BY DEF IortInv, Position, Grows
  <1>2. acc' = [acc EXCEPT !.ranges = @ \union Claims(m), !.unresolved = @ \/ Claims(m) = {}]
    BY DEF TakeMapping
  <1>3. acc \in Accumulators
    BY DEF IortInv, LocalsTyped
  <1>4. /\ acc'.ranges = acc.ranges \union Claims(m) /\ acc'.found = acc.found
        /\ acc'.unresolved <=> acc.unresolved \/ Claims(m) = {}
    BY <1>2, <1>3 DEF Accumulators
  <1>5. <<c, i>> \in RmrDone' /\ mappings'[<<c, i>>] = m
    BY <1>1 DEF RmrDone, M
  <1>6. \A p \in RmrDone : p \in RmrDone' /\ mappings'[p] = mappings[p]
    <2> SUFFICES ASSUME NEW p \in RmrDone PROVE p \in RmrDone' /\ mappings'[p] = mappings[p]
      OBVIOUS
    <2>1. p \in DOMAIN mappings /\ nodes[p[1]].kind = "RMR"
          /\ (p[1] < current \/ (p[1] = current /\ p[2] < index))
      BY DEF RmrDone
    <2>2. PICK n \in Nodes, k \in Int : p = <<n, k>>
      BY <2>1 DEF IortInv, TableTyped
    <2>3. p[2] < i => p[2] < i + 1
      BY <2>2
    <2>4. QED
      BY <1>1, <2>1, <2>3 DEF Grows, RmrDone
  <1>7. \A p \in RmrDone' : p \in RmrDone \/ p = <<c, i>>
    <2> SUFFICES ASSUME NEW p \in RmrDone', p # <<c, i>> PROVE p \in RmrDone
      OBVIOUS
    <2>1. p \in DOMAIN mappings /\ nodes[p[1]].kind = "RMR"
          /\ (p[1] < c \/ (p[1] = c /\ p[2] < i + 1))
      BY <1>1 DEF RmrDone
    <2>2. PICK n \in Nodes, k \in Int : p = <<n, k>>
      BY <2>1 DEF IortInv, TableTyped
    <2>3. p[1] = c /\ p[2] < i + 1 => p[2] < i
      BY <2>2
    <2>4. QED
      BY <2>1, <2>3 DEF RmrDone
  <1>8. /\ \A x : x \in acc.ranges <=> \E p \in RmrDone : x \in Claims(mappings[p])
        /\ acc.unresolved <=> \E p \in RmrDone : Claims(mappings[p]) = {}
        /\ \A n \in Nodes : nodes[n].kind = "RMR" /\ n < current => AllRead(n) /\ acc.found
        /\ acc.found
    BY DEF IortInv, Gathering
  <1>9. \A x : x \in acc'.ranges <=> \E p \in RmrDone' : x \in Claims(mappings'[p])
    BY <1>4, <1>5, <1>6, <1>7, <1>8
  <1>10. acc'.unresolved <=> \E p \in RmrDone' : Claims(mappings'[p]) = {}
    BY <1>4, <1>5, <1>6, <1>7, <1>8
  <1>11. \A n \in Nodes : nodes'[n].kind = "RMR" /\ n < current' => AllRead(n)' /\ acc'.found
    BY <1>1, <1>4, <1>8, AllReadStays
  <1>12. QED
    BY <1>4, <1>8, <1>9, <1>10, <1>11 DEF Gathering, Nodes

(* Claimed ids are requester ids.                                          *)
LEMMA TakeTyped ==
  ASSUME acc \in Accumulators, NEW m \in MappingShape, query \in {"match", "ranges", "rmr"}
  PROVE  TakeMapping(m) \in Accumulators
  <1>1. Claims(m) \in SUBSET (0 .. MaxBdf)
    BY ClaimsIds
  <1>2. acc.ranges \union Claims(m) \in SUBSET (0 .. MaxBdf)
    BY <1>1 DEF Accumulators
  <1>3. CASE query = "match"
    BY <1>3 DEF TakeMapping, Accumulators
  <1>4. CASE query = "ranges"
    BY <1>2, <1>4 DEF TakeMapping, Accumulators
  <1>5. CASE query = "rmr"
    <2>1. (acc.unresolved \/ Claims(m) = {}) \in BOOLEAN
      OBVIOUS
    <2>2. QED
      BY <1>2, <1>5, <2>1 DEF TakeMapping, Accumulators
  <1>6. QED
    BY <1>3, <1>4, <1>5

(* One mapping of a query that reads ranges.                               *)
LEMMA RangeMappingStep == IortInv /\ RangeMapping => IortInv'
  <1> SUFFICES ASSUME IortInv, RangeMapping PROVE IortInv'
    OBVIOUS
  <1>1. query \in {"match", "ranges", "rmr"} /\ (query = "rmr" => index > 0)
        /\ index <= nodes[current].maps /\ UNCHANGED <<session, nodes>>
    BY DEF RangeMapping, Reading
  <1>2. PICK m \in NextMapping :
          /\ mappings' = Remember(mappings, <<current, index>>, m)
          /\ \/ ReturnErr("Full")
             \/ /\ acc' = TakeMapping(m)
                /\ index' = index + 1
                /\ UNCHANGED <<query, target, current, id, remaining, fallback, visited, answers, errors>>
    BY DEF RangeMapping, Read
  <1>3. PICK c, i : c = current /\ i = index
    OBVIOUS
  <1>4. c \in Nodes /\ nodes[c].maps \in Int /\ i \in 1 .. nodes[c].maps
    <2>1. c \in Nodes /\ i \in Nat /\ i >= 1
      BY <1>1, <1>3 DEF IortInv, Position, LocalsTyped
    <2>2. nodes[c].maps \in Int
      BY <2>1 DEF IortInv, TableTyped
    <2>3. QED
      BY <1>1, <1>3, <2>1, <2>2
  <1>5. /\ TableTyped' /\ Grows
        /\ DOMAIN mappings' = DOMAIN mappings \union {<<c, i>>}
        /\ IsRead(c, i)' /\ M(c, i)' = m
        /\ m \in MappingShape
    BY <1>1, <1>2, <1>3, <1>4, MappingRead DEF NextMapping, IortInv
  <1>6. CASE ReturnErr("Full")
    BY <1>1, <1>5, <1>6, ErrHolds DEF None
  <1>7. CASE /\ acc' = TakeMapping(m)
             /\ index' = index + 1
             /\ UNCHANGED <<query, target, current, id, remaining, fallback, visited, answers, errors>>
    <2>1. LocalsTyped'
      <3>1. acc' \in Accumulators
        BY <1>1, <1>5, <1>7, TakeTyped DEF IortInv, LocalsTyped
      <3>2. QED
        BY <1>7, <3>1 DEF IortInv, LocalsTyped, Accumulators, Steps, Nodes
    <2>2. Root' = Root /\ (Rooted' <=> Rooted) /\ nodes' = nodes
      BY <1>5, RootStays DEF Grows
    <2>3. Position'
      <3>1. \A j \in 1 .. i - 1 : IsRead(c, j)'
        <4>1. \A j \in 1 .. i - 1 : IsRead(c, j)
          BY <1>1, <1>3 DEF IortInv, Position, None
        <4>2. QED
          BY <1>5, <4>1, ReadStays
      <3>2. \A j \in 1 .. index' - 1 : IsRead(current, j)'
        <4>1. \A j \in 1 .. index' - 1 : j = i \/ j \in 1 .. i - 1
          BY <1>3, <1>4, <1>7
        <4>2. QED
          BY <1>3, <1>5, <1>7, <3>1, <4>1
      <3>3. index' <= nodes'[current'].maps + 1 /\ index' >= 1
        BY <1>3, <1>4, <1>7, <2>2
      <3>4. query' = query /\ current' = c /\ c \in Nodes /\ c >= 1 /\ fallback' = fallback
            /\ visited' = visited
        BY <1>3, <1>4, <1>7 DEF Nodes
      <3>5. CASE query \in {"match", "ranges"}
        <4>1. Rooted /\ current = Root /\ fallback = 0 /\ Len(visited) = 1
          BY <3>5 DEF IortInv, Position
        <4>2. QED
          BY <1>3, <2>2, <3>2, <3>3, <3>4, <3>5, <4>1 DEF Position, None
      <3>6. CASE query = "rmr"
        <4>1. fallback = 0 /\ visited = <<>> /\ nodes[c].kind = "RMR"
          BY <1>1, <1>3, <3>6 DEF IortInv, Position
        <4>2. QED
          BY <2>2, <3>2, <3>3, <3>4, <3>6, <4>1 DEF Position, None
      <3>7. QED
        BY <1>1, <3>5, <3>6
    <2>4. Searching'
      <3>1. query' # "iommu"
        BY <1>1, <1>7
      <3>2. visited' = <<>> \/ Len(visited') = 1
        BY <1>1, <1>7 DEF IortInv, Position
      <3>3. \A j \in 1 .. Len(visited') - 1 : FALSE
        <4>1. PICK l : l = Len(visited')
          OBVIOUS
        <4>2. l = 0 \/ l = 1
          BY <3>2, <4>1
        <4>3. \A j \in 1 .. l - 1 : FALSE
          BY <4>2
        <4>4. QED
          BY <4>1, <4>3
      <3>4. QED
        BY <3>1, <3>3 DEF Searching
    <2>5. Gathering'
      <3>1. i \in Nat /\ i >= 1
        BY <1>4
      <3>2. CASE query \in {"match", "ranges"}
        <4>1. Root = c /\ M(Root, i)' = m
          <5>1. current = Root
            BY <3>2 DEF IortInv, Position
          <5>2. QED
            BY <1>3, <1>5, <2>2, <5>1 DEF M
        <4>2. QED
          BY <1>3, <1>5, <1>7, <3>1, <3>2, <4>1, GatherRoot
      <3>3. CASE query = "rmr"
        BY <1>3, <1>4, <1>5, <1>7, <3>1, <3>3, GatherRmr
      <3>4. QED
        BY <1>1, <3>2, <3>3
    <2>6. Told'
      BY <1>5, <1>7, ToldStays DEF IortInv
    <2>7. QED
      BY <1>5, <2>1, <2>3, <2>4, <2>5, <2>6 DEF IortInv
  <1>8. QED
    BY <1>2, <1>6, <1>7

(* The root complex's mappings are all read.                               *)
LEMMA EndOfRangesStep == IortInv /\ EndOfRanges => IortInv'
  <1> SUFFICES ASSUME IortInv, EndOfRanges PROVE IortInv'
    OBVIOUS
  <1>1. query \in {"match", "ranges"} /\ nodes[current].maps # -1 /\ index > nodes[current].maps
        /\ UNCHANGED <<session, nodes, mappings>>
    BY DEF EndOfRanges
  <1>2. TableTyped' /\ Grows
    BY <1>1, NothingRead DEF IortInv
  <1>3. current = Root /\ Root \in Nodes /\ Roots # {} /\ index \in Nat /\ index >= 1
        /\ (index > 1 => index <= nodes[Root].maps + 1)
        /\ \A k \in 1 .. index - 1 : IsRead(Root, k)
    BY <1>1 DEF IortInv, Position, Rooted, LocalsTyped, None
  <1>4. nodes[Root].maps \in -1 .. MaxMappings /\ MaxMappings \in Nat
    BY <1>3, TableAssumption DEF IortInv, TableTyped
  <1>5. index - 1 = nodes[Root].maps
    BY <1>1, <1>3, <1>4
  <1>6. AllRead(Root)
    BY <1>1, <1>3, <1>5 DEF AllRead
  <1>7. acc \in Accumulators
    BY DEF IortInv, LocalsTyped
  <1>8. CASE query = "match"
    <2> DEFINE a == [NoResult EXCEPT !.match = MatchResult]
    <2>1. ReturnOk(a)
      BY <1>8 DEF EndOfRanges
    <2>2. a.match = MatchResult
      BY DEF NoResult
    <2>3. /\ acc.covered <=> \E k \in 1 .. nodes[Root].maps : Requester \in Claims(M(Root, k))
          /\ acc.unresolved <=> \E k \in 1 .. nodes[Root].maps : Claims(M(Root, k)) = {}
      BY <1>5, <1>8 DEF IortInv, Gathering
    <2>4. acc.covered \in BOOLEAN /\ acc.unresolved \in BOOLEAN
      BY <1>7 DEF Accumulators
    <2>5. (MatchResult = "Covered" <=> acc.covered) /\ (MatchResult = "NotCovered" => ~acc.unresolved)
      BY <2>4 DEF MatchResult
    <2> HIDE DEF a
    <2>6. MatchFact(a)
      BY <1>3, <1>6, <2>2, <2>3, <2>5 DEF MatchFact
    <2>7. QED
      BY <1>2, <1>8, <2>1, <2>6, OkHolds DEF None
  <1>9. CASE query = "ranges"
    <2> DEFINE a == [NoResult EXCEPT !.ranges = acc.ranges]
    <2>1. ReturnOk(a)
      BY <1>9 DEF EndOfRanges
    <2>2. a.ranges = acc.ranges
      BY DEF NoResult
    <2>3. \A x : x \in acc.ranges <=> \E k \in 1 .. nodes[Root].maps : x \in Claims(M(Root, k))
      BY <1>5, <1>9 DEF IortInv, Gathering
    <2> HIDE DEF a
    <2>4. RangesFact(a)
      BY <1>3, <1>6, <2>2, <2>3 DEF RangesFact
    <2>5. QED
      BY <1>2, <1>9, <2>1, <2>4, OkHolds DEF None
  <1>10. QED
    BY <1>1, <1>8, <1>9

(* rmr_bdf_ranges goes on to the next node, when the node was not of its   *)
(* kind or its mappings are all read.                                      *)
LEMMA SkipNodeHolds ==
  ASSUME IortInv, TableTyped', Grows, UNCHANGED mappings, query = "rmr", current \in Nodes, SkipNode,
         \/ index = 0 /\ nodes[current].kind # "RMR"
         \/ index > 0 /\ nodes[current].maps # -1 /\ index > nodes[current].maps
  PROVE  IortInv'
  <1>1. PICK c : c = current
    OBVIOUS
  <1>2. c \in Nodes /\ c \in Nat /\ current' = c + 1 /\ index' = 0 /\ index \in Nat /\ nodes' = nodes
        /\ UNCHANGED <<mappings, query, target, id, remaining, fallback, visited, acc, answers, errors>>
    BY <1>1 DEF SkipNode, Nodes, IortInv, LocalsTyped, Grows
  <1>3. LocalsTyped'
    <2>1. c + 1 \in 0 .. NodeCount + 1
      BY <1>2, TableAssumption DEF Nodes
    <2>2. QED
      BY <1>2, <2>1 DEF IortInv, LocalsTyped, Accumulators, Steps, Nodes
  <1>4. Position'
    <2>1. current' >= 1 /\ fallback' = 0 /\ visited' = <<>> /\ query' = "rmr"
      BY <1>2 DEF IortInv, Position
    <2>2. QED
      BY <1>2, <2>1 DEF Position, None
  <1>5. Searching'
    <2>1. visited' = <<>> /\ query' = "rmr"
      BY <1>2 DEF IortInv, Position
    <2>2. QED
      BY <2>1 DEF Searching
  <1>6. /\ \A n \in Nodes : nodes[n].kind = "RMR" /\ n < c => AllRead(n) /\ acc.found
        /\ index > 0 => acc.found
        /\ \A x : x \in acc.ranges <=> \E p \in RmrDone : x \in Claims(mappings[p])
        /\ acc.unresolved <=> \E p \in RmrDone : Claims(mappings[p]) = {}
    BY <1>1 DEF IortInv, Gathering
  <1>7. nodes[c].kind = "RMR" => AllRead(c) /\ acc.found
    <2> SUFFICES ASSUME nodes[c].kind = "RMR" PROVE AllRead(c) /\ acc.found
      OBVIOUS
    <2>1. index > 0 /\ nodes[c].maps # -1 /\ index > nodes[c].maps
      BY <1>1
    <2>2. \A k \in 1 .. index - 1 : IsRead(c, k)
      BY <1>1 DEF IortInv, Position, None
    <2>3. nodes[c].maps \in Int
      BY <1>2 DEF IortInv, TableTyped
    <2>4. \A k \in 1 .. nodes[c].maps : k \in 1 .. index - 1
      BY <1>2, <2>1, <2>3
    <2>5. QED
      BY <1>6, <2>1, <2>2, <2>4 DEF AllRead
  <1>8. RmrDone' = RmrDone
    <2>1. ASSUME NEW p \in DOMAIN mappings, nodes[p[1]].kind = "RMR"
          PROVE  (p[1] < c \/ (p[1] = c /\ p[2] < index)) <=> (p[1] < c + 1 \/ (p[1] = c + 1 /\ p[2] < 0))
      <3>1. PICK n \in Nodes : \E k \in 1 .. nodes[n].maps : p = <<n, k>>
        BY DEF IortInv, TableTyped
      <3>2. PICK k \in 1 .. nodes[n].maps : p = <<n, k>>
        BY <3>1
      <3>3. n \in Nat /\ nodes[n].maps \in Int /\ p[1] = n /\ p[2] = k
        BY <3>2, TableAssumption DEF Nodes, IortInv, TableTyped
      <3>4. k \in Nat /\ k >= 1 /\ k <= nodes[n].maps
        BY <3>3
      <3>5. n = c => k < index
        BY <1>1, <1>2, <2>1, <3>3, <3>4
      <3>6. QED
        BY <1>2, <3>3, <3>4, <3>5
    <2>2. QED
      BY <1>1, <1>2, <2>1 DEF RmrDone
  <1>9. Gathering'
    <2>1. ASSUME NEW n \in Nodes, nodes[n].kind = "RMR", n < c + 1
          PROVE  AllRead(n)' /\ acc'.found
      <3>1. n < c \/ n = c
        BY <1>2, <2>1, TableAssumption DEF Nodes
      <3>2. AllRead(n) /\ acc.found
        BY <1>6, <1>7, <2>1, <3>1
      <3>3. QED
        BY <1>2, <3>2, AllReadStays
    <2>2. QED
      BY <1>2, <1>6, <1>8, <2>1 DEF Gathering, Nodes
  <1>10. Told'
    BY <1>2, ToldStays DEF IortInv
  <1>11. QED
    BY <1>3, <1>4, <1>5, <1>9, <1>10 DEF IortInv

(* rmr_bdf_ranges comes to a node.                                         *)
LEMMA RmrNodeStep == IortInv /\ RmrNode => IortInv'
  <1> SUFFICES ASSUME IortInv, RmrNode PROVE IortInv'
    OBVIOUS
  <1>1. query = "rmr" /\ index = 0 /\ current \in Nodes /\ UNCHANGED <<session, nodes, mappings>>
    BY DEF RmrNode
  <1>2. TableTyped' /\ Grows
    BY <1>1, NothingRead DEF IortInv
  <1>3. CASE ReturnErr("malformed")
    BY <1>1, <1>2, <1>3, ErrHolds DEF None
  <1>4. CASE nodes[current].kind \notin {"malformed", "bad RMR", "RMR"} /\ SkipNode
    BY <1>1, <1>2, <1>4, SkipNodeHolds
  <1>5. CASE /\ nodes[current].kind = "RMR"
             /\ acc' = [acc EXCEPT !.found = TRUE]
             /\ index' = 1
             /\ UNCHANGED <<query, target, current, id, remaining, fallback, visited, answers, errors>>
    <2>1. acc \in Accumulators
      BY DEF IortInv, LocalsTyped
    <2>2. acc' \in Accumulators /\ acc'.found = TRUE /\ acc'.ranges = acc.ranges
          /\ acc'.unresolved = acc.unresolved
      BY <1>5, <2>1 DEF Accumulators
    <2>3. LocalsTyped'
      BY <1>5, <2>2 DEF IortInv, LocalsTyped, Accumulators, Steps, Nodes
    <2>4. Position'
      <3>1. current >= 1 /\ fallback = 0 /\ visited = <<>>
        BY <1>1 DEF IortInv, Position
      <3>2. QED
        BY <1>1, <1>5, <3>1 DEF Position, None, Nodes
    <2>5. Searching'
      <3>1. visited' = <<>> /\ query' = "rmr"
        BY <1>1, <1>5 DEF IortInv, Position
      <3>2. QED
        BY <3>1 DEF Searching
    <2>6. RmrDone' = RmrDone
      <3>1. ASSUME NEW p \in DOMAIN mappings PROVE ~(p[2] < 0) /\ ~(p[2] < 1)
        <4>1. PICK n \in Nodes : \E k \in 1 .. nodes[n].maps : p = <<n, k>>
          BY DEF IortInv, TableTyped
        <4>2. PICK k \in 1 .. nodes[n].maps : p = <<n, k>>
          BY <4>1
        <4>3. nodes[n].maps \in Int
          BY DEF IortInv, TableTyped
        <4>4. QED
          BY <4>2, <4>3
      <3>2. QED
        BY <1>1, <1>5, <3>1 DEF RmrDone
    <2>7. Gathering'
      <3>1. \A n \in Nodes : nodes[n].kind = "RMR" /\ n < current => AllRead(n)'
        BY <1>1, <1>2, AllReadStays DEF IortInv, Gathering
      <3>2. /\ \A x : x \in acc.ranges <=> \E p \in RmrDone : x \in Claims(mappings[p])
            /\ acc.unresolved <=> \E p \in RmrDone : Claims(mappings[p]) = {}
        BY <1>1 DEF IortInv, Gathering
      <3>3. QED
        BY <1>1, <1>5, <2>2, <2>6, <3>1, <3>2 DEF Gathering, Nodes
    <2>8. Told'
      BY <1>2, <1>5, ToldStays DEF IortInv
    <2>9. QED
      BY <1>2, <2>3, <2>4, <2>5, <2>7, <2>8 DEF IortInv
  <1>6. QED
    BY <1>3, <1>4, <1>5 DEF RmrNode

(* The mappings of one node are read.                                      *)
LEMMA RmrNodeDoneStep == IortInv /\ RmrNodeDone => IortInv'
  <1> SUFFICES ASSUME IortInv, RmrNodeDone PROVE IortInv'
    OBVIOUS
  <1>1. query = "rmr" /\ index > 0 /\ UNCHANGED <<session, nodes, mappings>>
    BY DEF RmrNodeDone
  <1>2. TableTyped' /\ Grows
    BY <1>1, NothingRead DEF IortInv
  <1>3. current \in Nodes
    BY <1>1 DEF IortInv, Position
  <1>4. QED
    BY <1>1, <1>2, <1>3, SkipNodeHolds DEF RmrNodeDone

(* rmr_bdf_ranges has seen all nodes.                                      *)
LEMMA RmrResultStep == IortInv /\ RmrResult => IortInv'
  <1> SUFFICES ASSUME IortInv, RmrResult PROVE IortInv'
    OBVIOUS
  <1> DEFINE a == [NoResult EXCEPT !.ranges = IF acc.found /\ ~acc.unresolved THEN acc.ranges ELSE {}]
  <1>1. query = "rmr" /\ index = 0 /\ current > NodeCount /\ ReturnOk(a)
        /\ UNCHANGED <<session, nodes, mappings>>
    BY DEF RmrResult
  <1>2. TableTyped' /\ Grows
    BY <1>1, NothingRead DEF IortInv
  <1>3. a.ranges = IF acc.found /\ ~acc.unresolved THEN acc.ranges ELSE {}
    BY DEF NoResult
  <1> HIDE DEF a
  <1>4. /\ \A n \in Nodes : nodes[n].kind = "RMR" /\ n < current => AllRead(n) /\ acc.found
        /\ \A x : x \in acc.ranges <=> \E p \in RmrDone : x \in Claims(mappings[p])
        /\ acc.unresolved <=> \E p \in RmrDone : Claims(mappings[p]) = {}
    BY <1>1 DEF IortInv, Gathering
  <1>5. \A n \in Nodes : n < current
    BY <1>1, TableAssumption DEF Nodes, IortInv, LocalsTyped
  <1>6. \A p \in DOMAIN mappings : p[1] \in Nodes
    BY DEF IortInv, TableTyped
  <1>7. RmrDone = {p \in DOMAIN mappings : nodes[p[1]].kind = "RMR"}
    BY <1>5, <1>6 DEF RmrDone
  <1>8. RmrMappings = {mappings[p] : p \in RmrDone}
    BY <1>7 DEF RmrMappings
  <1>9. acc.unresolved <=> \E m \in RmrMappings : Claims(m) = {}
    BY <1>4, <1>8
  <1>10. acc.ranges = UNION {Claims(m) : m \in RmrMappings}
    <2>1. \A x : x \in UNION {Claims(m) : m \in RmrMappings} <=> \E p \in RmrDone : x \in Claims(mappings[p])
      BY <1>8
    <2>2. QED
      BY <1>4, <2>1
  <1>11. ~acc.found => RmrMappings = {}
    <2>1. ~acc.found => RmrDone = {}
      BY <1>4, <1>5, <1>6, <1>7
    <2>2. QED
      BY <1>8, <2>1
  <1>12. ~acc.found => acc.ranges = {}
    BY <1>10, <1>11
  <1>13. RmrFact(a)
    BY <1>3, <1>4, <1>5, <1>9, <1>10, <1>12 DEF RmrFact
  <1>14. QED
    BY <1>1, <1>2, <1>13, OkHolds DEF None

(* A query begins: it fails, has nothing to look at, or stands at its      *)
(* first node.                                                             *)
LEMMA BeginStep ==
  ASSUME IortInv, NEW q \in Queries, Begin(q)
  PROVE  IortInv'
  <1>1. query = None /\ UNCHANGED <<session, nodes, mappings>>
    BY DEF Begin
  <1>2. TableTyped' /\ Grows
    BY <1>1, NothingRead DEF IortInv
  <1>3. index = 1 /\ fallback = 0 /\ acc = Nothing /\ visited = <<>>
    BY <1>1 DEF IortInv, Position
  <1>4. DOMAIN answers \subseteq Queries /\ DOMAIN errors \subseteq Queries /\ acc \in Accumulators
    BY DEF IortInv, LocalsTyped
  <1>5. CASE /\ \/ errors' = Remember(errors, q, "malformed") /\ UNCHANGED answers
                \/ /\ q # "rmr" /\ Roots = {}
                   /\ answers' = Remember(answers, q, NoResult) /\ UNCHANGED errors
             /\ UNCHANGED <<query, searchVars, acc>>
    <2>1. DOMAIN answers' \subseteq Queries /\ DOMAIN errors' \subseteq Queries
      BY <1>4, <1>5 DEF Remember
    <2>2. UNCHANGED <<query, target, current, id, remaining, index, fallback, visited, acc>>
      BY <1>5 DEF searchVars
    <2>3. LocalsTyped'
      BY <2>1, <2>2 DEF IortInv, LocalsTyped, Accumulators, Steps, Nodes
    <2>4. Position' /\ Searching' /\ Gathering'
      BY <1>1, <1>3, <2>2 DEF Position, Searching, Gathering, None
    <2>5. Told'
      <3>1. CASE UNCHANGED answers
        BY <1>2, <3>1, ToldStays DEF IortInv
      <3>2. CASE q # "rmr" /\ Roots = {} /\ answers' = Remember(answers, q, NoResult)
        <4>1. MatchFact(NoResult) /\ RangesFact(NoResult) /\ IommuFact(NoResult)
          BY <3>2 DEF MatchFact, RangesFact, IommuFact, NoResult
        <4>2. QED
          BY <1>2, <3>2, <4>1, ToldAnswer DEF IortInv
      <3>3. QED
        BY <1>5, <3>1, <3>2
    <2>6. QED
      BY <1>2, <2>3, <2>4, <2>5 DEF IortInv
  <1>6. CASE /\ q # "rmr" /\ ~Broken /\ Roots # {}
             /\ query' = q /\ EnterSearch("SMMUv3") /\ UNCHANGED <<acc, answers, errors>>
    <2>1. Rooted
      BY <1>6, RootIsRoot DEF Rooted
    <2>2. q \in {"iommu", "match", "ranges"}
      BY <1>6 DEF Queries
    <2>3. Going'
      BY <1>1, <1>3, <1>4, <1>6, <2>1, <2>2, EnterHolds
    <2>4. Told'
      BY <1>2, <1>6, ToldStays DEF IortInv
    <2>5. QED
      BY <1>2, <2>3, <2>4 DEF IortInv, Going
  <1>7. CASE /\ q = "rmr" /\ query' = q /\ current' = 1 /\ index' = 0
             /\ UNCHANGED <<target, id, remaining, fallback, visited, acc, answers, errors>>
    <2>1. LocalsTyped'
      <3>1. 1 \in 0 .. NodeCount + 1
        BY TableAssumption
      <3>2. QED
        BY <1>7, <3>1 DEF IortInv, LocalsTyped, Accumulators, Steps, Nodes
    <2>2. Position' /\ Searching'
      BY <1>3, <1>7 DEF Position, Searching, None
    <2>3. Gathering'
      <3>1. RmrDone' = {}
        <4>1. ASSUME NEW p \in DOMAIN mappings PROVE ~(p[1] < 1) /\ ~(p[2] < 0)
          <5>1. PICK n \in Nodes : \E k \in 1 .. nodes[n].maps : p = <<n, k>>
            BY DEF IortInv, TableTyped
          <5>2. PICK k \in 1 .. nodes[n].maps : p = <<n, k>>
            BY <5>1
          <5>3. nodes[n].maps \in Int /\ n \in Nat /\ n >= 1
            BY TableAssumption DEF IortInv, TableTyped, Nodes
          <5>4. QED
            BY <5>2, <5>3
        <4>2. QED
          BY <1>1, <1>7, <4>1 DEF RmrDone
      <3>2. \A n \in Nodes : ~(n < 1)
        BY TableAssumption DEF Nodes
      <3>3. QED
        BY <1>3, <1>7, <3>1, <3>2 DEF Gathering, Nothing, Nodes
    <2>4. Told'
      BY <1>2, <1>7, ToldStays DEF IortInv
    <2>5. QED
      BY <1>2, <2>1, <2>2, <2>3, <2>4 DEF IortInv
  <1>8. QED
    BY <1>5, <1>6, <1>7 DEF Begin

(* Before the first query nothing is read.                                 *)
LEMMA IortStarts == Init => IortInv
  <1> SUFFICES ASSUME Init PROVE IortInv
    OBVIOUS
  <1>1. session \in Sessions /\ session.kinds \subseteq AllKinds
    BY TableAssumption DEF Init
  <1>2. TableTyped
    <2>1. nodes \in [Nodes -> [kind : AllKinds, maps : -1 .. MaxMappings]]
      BY <1>1 DEF Init
    <2>2. DOMAIN mappings = {}
      BY DEF Init
    <2>3. QED
      BY <1>1, <2>1, <2>2 DEF TableTyped
  <1>3. LocalsTyped
    <2>1. 0 \in 0 .. NodeCount + 1 /\ 0 \in 0 .. MaxId /\ 0 \in 0 .. NodeCount
      BY TableAssumption
    <2>2. Nothing \in Accumulators
      BY DEF Nothing, Accumulators
    <2>3. DOMAIN answers = {} /\ DOMAIN errors = {} /\ visited \in Seq(Steps)
      BY DEF Init
    <2>4. QED
      BY <2>1, <2>2, <2>3 DEF Init, LocalsTyped
  <1>4. Position /\ Searching /\ Gathering
    BY DEF Init, Position, Searching, Gathering, None
  <1>5. Told
    BY DEF Init, Told
  <1>6. QED
    BY <1>2, <1>3, <1>4, <1>5 DEF IortInv

-----------------------------------------------------------------------------
(* What callers rely on.                                                   *)

(* Whatever mappings the firmware spells, the search, the queries that     *)
(* read ranges and their answers stay in step with the table.              *)
THEOREM IortInvariance == Spec => []IortInv
  <1>1. Init => IortInv
    BY IortStarts
  <1>2. IortInv /\ [Next]_vars => IortInv'
    <2> SUFFICES ASSUME IortInv, [Next]_vars PROVE IortInv'
      OBVIOUS
    <2>1. CASE Step
      BY <2>1, ArriveStep, ErrorSteps, TryMappingStep, EndOfMappingsStep, RangeMappingStep,
        EndOfRangesStep, RmrNodeStep, RmrNodeDoneStep, RmrResultStep DEF Step
    <2>2. CASE \E q \in Queries : Begin(q)
      BY <2>2, BeginStep
    <2>3. CASE UNCHANGED vars
      <3>1. UNCHANGED <<session, nodes, mappings, query, target, current, id, remaining, index,
                        fallback, visited, acc, answers, errors>>
        BY <2>3 DEF vars, searchVars
      <3>2. TableTyped' /\ Grows
        BY <3>1, NothingRead DEF IortInv
      <3>3. Told'
        BY <3>1, <3>2, ToldStays DEF IortInv
      <3>4. LocalsTyped'
        BY <3>1 DEF IortInv, LocalsTyped, Accumulators, Steps, Nodes
      <3>5. Position'
        BY <3>1 DEF IortInv, Position, Rooted, Broken, Roots, Root, IsRead, Nodes
      <3>6. Searching'
        <4>1. ASSUME NEW i \in 1 .. Len(visited) - 1
              PROVE  StepSettled(visited[i], visited[i + 1])'
          <5>1. PICK v, w : v = visited[i] /\ w = visited[i + 1]
            OBVIOUS
          <5>2. v \in Steps /\ StepSettled(v, w)
            BY <5>1 DEF IortInv, LocalsTyped, Searching
          <5>3. StepSettled(v, w)'
            BY <3>1, <3>2, <5>2, StepStays DEF IortInv
          <5>4. QED
            BY <3>1, <5>1, <5>3
        <4>2. Root' = Root
          BY <3>2, RootStays
        <4>3. \A x, k : Fit(current, x, k)' <=> Fit(current, x, k)
          BY <3>1 DEF Fit, M, Translated, SingleAllowed
        <4>4. \A k : M(current, k)' = M(current, k)
          BY <3>1 DEF M
        <4>5. query' = "iommu" =>
                \A k \in 1 .. index - 1 :
                  Fit(current, id, k)' => Boundary(M(current, k), id)' /\ k <= fallback
          BY <3>1, <4>3, <4>4 DEF IortInv, Searching, Boundary
        <4>6. QED
          BY <3>1, <4>1, <4>2, <4>3, <4>5 DEF IortInv, Searching
      <3>7. Gathering'
        <4>1. RmrDone' = RmrDone /\ Root' = Root
          BY <3>1 DEF RmrDone, Root, Roots, Nodes
        <4>2. \A k : M(Root, k)' = M(Root, k)
          BY <3>1, <4>1 DEF M
        <4>3. \A n \in Nodes : AllRead(n) => AllRead(n)'
          BY <3>2, AllReadStays
        <4>4. QED
          BY <3>1, <4>1, <4>2, <4>3 DEF IortInv, Gathering, Nodes
      <3>8. QED
        BY <3>2, <3>3, <3>4, <3>5, <3>6, <3>7 DEF IortInv
    <2>4. QED
      BY <2>1, <2>2, <2>3 DEF Next
  <1>3. QED
    BY <1>1, <1>2, PTL DEF Spec

(* A settled step is decided by the rule.                                  *)
LEMMA SettledDecides ==
  ASSUME TableTyped, NEW n \in Nodes, NEW x, NEW k, Settled(n, x, k)
  PROVE  k \in Fits(n, x) /\ Decides(n, x, k)
  <1> DEFINE F == Fits(n, x)
             I == {j \in F : ~Boundary(mappings[<<n, j>>], x)}
  <1>1. nodes[n].maps \in Int /\ k \in 1 .. nodes[n].maps /\ k \in Nat
    BY DEF TableTyped, Settled
  <1>2. \A j : j \in F <=> j \in 1 .. nodes[n].maps /\ IsRead(n, j) /\ Fit(n, x, j)
    BY DEF Fits, IsRead, Fit, M
  <1>3. k \in F
    BY <1>1, <1>2 DEF Settled
  <1>4. \A j : j \in I <=> j \in F /\ ~Boundary(M(n, j), x)
    BY DEF M
  <1>5. k = IF I # {} THEN Min(I) ELSE Max(F)
    <2>1. \A j \in F : j \in Int
      BY <1>2
    <2> HIDE DEF F, I
    <2>2. CASE Boundary(M(n, k), x)
      <3>1. \A j \in F : j <= k
        <4>1. ASSUME NEW j \in F, ~(j <= k) PROVE FALSE
          <5>1. j \in k + 1 .. nodes[n].maps
            BY <1>1, <1>2, <4>1
          <5>2. QED
            BY <1>2, <2>2, <4>1, <5>1 DEF Settled
        <4>2. QED
          BY <4>1
      <3>2. I = {}
        <4>1. ASSUME NEW j \in I PROVE FALSE
          <5>1. j \in F /\ ~Boundary(M(n, j), x) /\ j # k
            BY <1>4, <2>2
          <5>2. j \in 1 .. k - 1
            BY <1>1, <1>2, <3>1, <5>1
          <5>3. QED
            BY <1>2, <5>1, <5>2 DEF Settled
        <4>2. QED
          BY <4>1
      <3>3. Max(F) = k
        <4>1. Max(F) \in F /\ \A y \in F : Max(F) >= y
          BY <1>1, <1>3, <2>1, <3>1 DEF Max
        <4>2. PICK t : t = Max(F)
          OBVIOUS
        <4>3. t \in Int /\ t <= k /\ t >= k
          BY <1>3, <2>1, <3>1, <4>1, <4>2
        <4>4. QED
          BY <1>1, <4>2, <4>3
      <3>4. QED
        BY <3>2, <3>3
    <2>3. CASE ~Boundary(M(n, k), x)
      <3>1. k \in I
        BY <1>3, <1>4, <2>3
      <3>2. \A j \in I : j \in Int /\ k <= j
        <4>1. ASSUME NEW j \in I, ~(k <= j) PROVE FALSE
          <5>1. j \in F /\ ~Boundary(M(n, j), x)
            BY <1>4
          <5>2. j \in 1 .. k - 1
            BY <1>1, <1>2, <4>1, <5>1
          <5>3. QED
            BY <1>2, <5>1, <5>2 DEF Settled
        <4>2. QED
          BY <1>4, <2>1, <4>1
      <3>3. Min(I) \in I /\ \A y \in I : Min(I) <= y
        BY <3>1, <3>2 DEF Min
      <3>4. Min(I) = k
        <4>1. PICK t : t = Min(I)
          OBVIOUS
        <4>2. t \in Int /\ t <= k /\ k <= t
          BY <3>1, <3>2, <3>3, <4>1
        <4>3. QED
          BY <1>1, <4>1, <4>2
      <3>5. QED
        BY <3>1, <3>4
    <2>4. QED
      BY <2>2, <2>3
  <1>6. QED
    BY <1>3, <1>5 DEF Decides

(* Every variable stays in its domain; ids are 32-bit values.              *)
LEMMA IortTyped == IortInv => TypeOK
  <1> SUFFICES ASSUME IortInv PROVE TypeOK
    OBVIOUS
  <1>1. \A n \in Nodes : nodes[n].maps \in -1 .. MaxMappings /\ MaxMappings \in Nat
    BY TableAssumption DEF IortInv, TableTyped
  <1>2. index \in Nat /\ MaxMappings \in Nat
    BY TableAssumption DEF IortInv, LocalsTyped
  <1>3. index \in 0 .. MaxMappings + 1
    <2>1. CASE index <= 1
      BY <1>2, <2>1
    <2>2. CASE index > 1
      <3>1. query # None /\ index <= nodes[current].maps + 1
        BY <1>2, <2>2 DEF IortInv, Position
      <3>2. current \in Nodes
        BY <2>2, <3>1 DEF IortInv, Position, LocalsTyped, Queries
      <3>3. QED
        BY <1>1, <1>2, <3>1, <3>2
    <2>3. QED
      BY <1>2, <2>1, <2>2
  <1>4. fallback \in 0 .. MaxMappings
    <2>1. fallback \in Nat
      BY DEF IortInv, LocalsTyped
    <2>2. CASE query = "iommu"
      <3>1. fallback = 0 \/ fallback < index
        BY <2>2 DEF IortInv, Searching
      <3>2. QED
        BY <1>2, <1>3, <2>1, <3>1
    <2>3. CASE query # "iommu"
      <3>1. fallback = 0
        BY <2>3 DEF IortInv, Position, LocalsTyped, Queries
      <3>2. QED
        BY <1>2, <3>1
    <2>4. QED
      BY <2>2, <2>3
  <1>5. QED
    BY <1>3, <1>4 DEF IortInv, TableTyped, LocalsTyped, TypeOK

(* map_id_to_kind goes from node to node by the interior match, or else by *)
(* the last boundary match, with ids of 32 bits, and past no node of the   *)
(* kind it looks for; later reads of the table never change a step made.   *)
THEOREM SearchFollowsRule == Spec => []StepsByRule
  <1>1. IortInv => StepsByRule
    <2> SUFFICES ASSUME IortInv, NEW i \in 1 .. Len(visited) - 1
                 PROVE  LET v == visited[i]
                        IN /\ nodes[v.node].kind # target
                           /\ \E k \in Fits(v.node, v.id) :
                                /\ Decides(v.node, v.id, k)
                                /\ visited[i + 1] = [node |-> mappings[<<v.node, k>>].ref,
                                     id |-> Translated(mappings[<<v.node, k>>], v.node, v.id)]
      BY IortTyped DEF StepsByRule
    <2>1. PICK v, w : v = visited[i] /\ w = visited[i + 1]
      OBVIOUS
    <2>2. v \in Steps /\ StepSettled(v, w)
      BY <2>1 DEF IortInv, LocalsTyped, Searching
    <2>3. PICK k \in 1 .. nodes[v.node].maps :
            /\ Settled(v.node, v.id, k)
            /\ w = [node |-> M(v.node, k).ref, id |-> Translated(M(v.node, k), v.node, v.id)]
      BY <2>2 DEF StepSettled
    <2>4. k \in Fits(v.node, v.id) /\ Decides(v.node, v.id, k)
      BY <2>2, <2>3, SettledDecides DEF IortInv, Steps
    <2>5. nodes[v.node].kind # target
      BY <2>2 DEF StepSettled
    <2>6. QED
      BY <2>1, <2>3, <2>4, <2>5 DEF M
  <1>2. QED
    BY <1>1, IortInvariance, PTL

(* The bound of map_id_to_kind on its steps is reached only on a cycle:    *)
(* the path then has one step more than there are nodes.                   *)
THEOREM CyclesAreReal == Spec => []CycleIsReal
  <1>1. IortInv => CycleIsReal
    <2> SUFFICES ASSUME IortInv, AtHead, remaining = 0
                 PROVE  \E i, j \in 1 .. Len(visited) : i < j /\ visited[i].node = visited[j].node
      BY DEF CycleIsReal
    <2>1. Len(visited) = NodeCount + 1 /\ visited \in Seq(Steps)
      BY TableAssumption DEF IortInv, AtHead, Searching, LocalsTyped
    <2>2. QED
      BY <2>1, Pigeonhole
  <1>2. QED
    BY <1>1, IortInvariance, PTL

(* root_complex_requester_match and iommu_for_pci_requester agree, though  *)
(* they read the mappings by different rules: what is not covered is not   *)
(* mapped.                                                                 *)
THEOREM UnclaimedIsUnreached == Spec => []UnclaimedReachesNone
  <1>1. IortInv => UnclaimedReachesNone
    <2> SUFFICES ASSUME IortInv, "match" \in DOMAIN answers, "iommu" \in DOMAIN answers,
                        answers["match"].match = "NotCovered", answers["iommu"].node # 0
                 PROVE  FALSE
      BY DEF UnclaimedReachesNone
    <2>1. MatchFact(answers["match"]) /\ IommuFact(answers["iommu"])
      BY DEF IortInv, Told
    <2>2. PICK k \in 1 .. nodes[Root].maps : IsRead(Root, k) /\ Fit(Root, Requester, k)
      BY <2>1 DEF IommuFact
    <2>3. Roots # {}
      BY <2>1 DEF IommuFact
    <2>4. Claims(M(Root, k)) # {} /\ Requester \notin Claims(M(Root, k))
      BY <2>1, <2>2, <2>3 DEF MatchFact
    <2>5. M(Root, k) \in MappingShape
      BY <2>2, SessionMappings DEF IortInv, TableTyped, IsRead, M
    <2>6. Translated(M(Root, k), Root, Requester) = -1
      BY <2>4, <2>5, UnclaimedIsUntranslated
    <2>7. QED
      BY <2>2, <2>6 DEF Fit
  <1>2. QED
    BY <1>1, IortInvariance, PTL

(* root_complex_bdf_ranges has a requester exactly if requester_match      *)
(* calls it covered, and rmr_bdf_ranges has what the mappings of all nodes *)
(* with the memory range claim, or nothing.                                *)
THEOREM RangesAreTheClaims == Spec => []RangesAreClaims
  <1>1. IortInv => RangesAreClaims
    <2> SUFFICES ASSUME IortInv PROVE RangesAreClaims
      OBVIOUS
    <2>1. ASSUME "match" \in DOMAIN answers, "ranges" \in DOMAIN answers
          PROVE  answers["match"].match = "Covered" <=> Requester \in answers["ranges"].ranges
      <3>1. MatchFact(answers["match"]) /\ RangesFact(answers["ranges"])
        BY <2>1 DEF IortInv, Told
      <3>2. QED
        BY <3>1 DEF MatchFact, RangesFact, None
    <2>2. ASSUME "rmr" \in DOMAIN answers PROVE RmrFact(answers["rmr"])
      BY <2>2 DEF IortInv, Told
    <2>3. QED
      BY <2>1, <2>2 DEF RangesAreClaims, RmrFact
  <1>2. QED
    BY <1>1, IortInvariance, PTL

=============================================================================
