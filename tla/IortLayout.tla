------------------------------ MODULE IortLayout ------------------------------
(***************************************************************************)
(* The layout of an ACPI IORT table, src/src/arch/aarch64/iort.rs: the     *)
(* iterator over the node array and, in a node it has yielded, the arrays  *)
(* that the node's fields place by offset and count.  The table is any     *)
(* sequence of bytes: a node's header says anything, and stays as it is    *)
(* while the node's arrays are read.  IortTable takes nodes and their      *)
(* mappings from here.                                                     *)
(***************************************************************************)
EXTENDS Integers

CONSTANTS
  TableLength,    \* bytes of the table behind its fixed header
  MaxUsize,       \* usize::MAX
  NodeHeader,     \* IORT_NODE_HEADER_LENGTH
  MinLengths,     \* the least length of each kind of node
  ElementSizes,   \* bytes of an element of each array
  NodeLengths, Offsets, Counts  \* what the fields of a node may spell

VARIABLES
  cursor,     \* IortNodes::offset
  left,       \* IortNodes::remaining
  node,       \* the node yielded last: its offset and its header
  array,      \* the array being read: its name, next offset and elements left
  walk        \* "start", "nodes" or, at the end, "Ok" or "Err"

layoutVars == <<cursor, left, node, array, walk>>

NodeKinds == DOMAIN MinLengths
Names == DOMAIN ElementSizes

(* A device name is a string of bytes.                                     *)
ASSUME LayoutAssumption ==
  /\ TableLength \in Nat /\ MaxUsize \in Nat /\ NodeHeader \in Nat
  /\ MinLengths \in [NodeKinds -> Nat] /\ {"ITS", "RMR", "SMMU", "named"} \subseteq NodeKinds
  /\ ElementSizes \in [Names -> Nat \ {0}] /\ "name" \in Names /\ ElementSizes["name"] = 1
  /\ NodeLengths \subseteq Nat /\ Offsets \subseteq Nat /\ Counts \subseteq Nat

(* its_identifiers, rmr_descriptors, smmu_interrupts (context and PMU),    *)
(* smmu_global_interrupt and the device name of a named component; every   *)
(* node has id mappings.                                                   *)
ArraysOf(kind) ==
  {"mappings"} \union
    (CASE kind = "ITS" -> {"identifiers"}
       [] kind = "RMR" -> {"descriptors"}
       [] kind = "SMMU" -> {"interrupts", "global"}
       [] kind = "named" -> {"name"}
       [] OTHER -> {})

NoNode == [at |-> -1, kind |-> "none", length |-> 0, offset |-> 0, count |-> 0]
NoArray == [name |-> "none", at |-> 0, left |-> 0]

(* A node's header: one offset and one count stand for those of the array  *)
(* that is read.                                                           *)
NodesAt(o) ==
  [at : {o}, kind : NodeKinds, length : NodeLengths, offset : Offsets, count : Counts]

End(h) == h.at + h.length

-----------------------------------------------------------------------------
(* Where an array lies, as <<start, count>>, or Refused for an Err.        *)
Refused == <<-1, 0>>

(* checked_offset and checked_mul.                                         *)
FitsUsize(x) == x <= MaxUsize

(* Without the check a product of the code's word size comes out small.    *)
PlaceWrapping(start, count, size, end) ==
  IF FitsUsize(start) /\ start + ((count * size) % (MaxUsize + 1)) <= end
  THEN <<start, count>> ELSE Refused

Place(start, count, size, end) ==
  IF /\ FitsUsize(start) /\ FitsUsize(count * size) /\ FitsUsize(start + count * size)
     /\ start + count * size <= end
  THEN <<start, count>> ELSE Refused

(* id_mappings_for_header and the accessors, for a node h.                 *)
(* An array of no elements is not looked at, except where the code looks.  *)
ArrayOf(h, name) ==
  LET size == ElementSizes[name]
      Behind(least) ==
        IF h.offset < least THEN Refused ELSE Place(h.at + h.offset, h.count, size, End(h))
  IN CASE name = "mappings" -> IF h.count = 0 THEN <<End(h), 0>> ELSE Behind(NodeHeader)
       [] name = "identifiers" -> Place(h.at + MinLengths["ITS"], h.count, size, End(h))
       [] name = "descriptors" -> Behind(MinLengths["RMR"])
       [] name = "interrupts" -> IF h.count = 0 THEN <<End(h), 0>> ELSE Behind(MinLengths["SMMU"])
       [] name = "global" ->
            IF h.offset = 0 THEN <<End(h), 0>> ELSE Place(h.at + h.offset, 1, size, End(h))
       [] name = "name" ->
            LET from == h.at + MinLengths["named"]
                to == IF h.count = 0 THEN End(h) ELSE h.at + h.offset
            IN IF FitsUsize(to) /\ from <= to /\ to <= End(h) THEN <<from, to - from>> ELSE Refused

(* parse_node: the checks of a kind's parser that can refuse the node.     *)
NodeParses(h) ==
  /\ h.length >= MinLengths[h.kind]
  /\ h.kind = "named" => ArrayOf(h, "name") # Refused

(* The register window of an SMMU may be refused as well.                  *)
Parsed(h) ==
  IF NodeParses(h) THEN {h} \union (IF h.kind = "SMMU" THEN {NoNode} ELSE {}) ELSE {NoNode}

-----------------------------------------------------------------------------
LayoutInit ==
  /\ cursor = 0 /\ left = 0 /\ node = NoNode
  /\ array = NoArray /\ walk = "start"

(* nodes(): node_offset and node_count may be anything; an offset into the *)
(* fixed header is refused like one past the end.                          *)
StartNodes ==
  /\ walk = "start"
  /\ \E offset \in Offsets, count \in Counts :
       IF offset > TableLength
       THEN walk' = "Err" /\ UNCHANGED <<cursor, left>>
       ELSE walk' = "nodes" /\ cursor' = offset /\ left' = count
  /\ UNCHANGED <<node, array>>

(* The iterator ends, with nothing remaining.                              *)
Stop(result) ==
  /\ walk' = result /\ left' = 0
  /\ array' = NoArray
  /\ UNCHANGED <<cursor, node>>

LastNode == walk = "nodes" /\ left = 0 /\ Stop("Ok")

(* The length field lies behind the node's first byte.                     *)
TruncatedNode ==
  /\ walk = "nodes" /\ left > 0 /\ cursor + 3 > TableLength
  /\ Stop("Err")

(* A node that does not parse is an Err too, but the iterator is past it.  *)
NextNode ==
  /\ walk = "nodes" /\ left > 0 /\ cursor + 3 <= TableLength
  /\ \E h \in NodesAt(cursor) :
       LET fits == h.length >= NodeHeader /\ FitsUsize(End(h)) /\ End(h) <= TableLength
       IN \/ /\ ~fits
             /\ walk' = "Err" /\ left' = 0
             /\ UNCHANGED <<cursor, node>>
          \/ /\ fits
             /\ cursor' = End(h) /\ left' = left - 1
             /\ node' \in Parsed(h)
             /\ UNCHANGED walk
  /\ array' = NoArray

(* An accessor, called on the node yielded last.                           *)
OpenArray(name) ==
  /\ walk = "nodes" /\ node # NoNode
  /\ name \in ArraysOf(node.kind)
  /\ LET a == ArrayOf(node, name)
     IN array' = IF a = Refused THEN NoArray ELSE [name |-> name, at |-> a[1], left |-> a[2]]
  /\ UNCHANGED <<cursor, left, node, walk>>

(* next of the array iterators.                                            *)
NextElement ==
  /\ walk = "nodes" /\ array.left > 0
  /\ array' = [array EXCEPT !.at = @ + ElementSizes[array.name], !.left = @ - 1]
  /\ UNCHANGED <<cursor, left, node, walk>>

LayoutNext ==
  \/ StartNodes \/ LastNode \/ TruncatedNode \/ NextNode \/ NextElement
  \/ \E name \in Names : OpenArray(name)

LayoutSpec == LayoutInit /\ [][LayoutNext]_layoutVars

-----------------------------------------------------------------------------
(* Whatever offsets, counts and lengths the firmware declares, a node that *)
(* is yielded lies inside the table, and the next element an iterator will *)
(* read lies inside the node, behind the part that every node has (behind  *)
(* the fixed part of its kind, for the arrays that are not mappings).  The *)
(* global interrupt, which the code lets overlap the header, is inside the *)
(* node only.                                                              *)
ElementsInside ==
  /\ node # NoNode /\ walk = "nodes" => End(node) <= TableLength /\ End(node) <= cursor
  /\ array.left > 0 =>
       /\ array.at + ElementSizes[array.name] <= End(node)
       /\ array.at >= node.at + (CASE array.name = "mappings" -> NodeHeader
                                [] array.name = "global" -> 0
                                [] OTHER -> MinLengths[node.kind])

=============================================================================
