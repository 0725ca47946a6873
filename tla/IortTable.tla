------------------------------ MODULE IortTable ------------------------------
(***************************************************************************)
(* ID mapping in an ACPI IORT table, src/src/arch/aarch64/iort.rs: which   *)
(* SMMU a PCI requester reaches and under which id                         *)
(* (iommu_for_pci_requester), whether its root complex claims it           *)
(* (root_complex_requester_match), which requesters a root complex claims  *)
(* (root_complex_bdf_ranges) and which share a reserved memory range       *)
(* (rmr_bdf_ranges).  Nodes refer to each other through id mappings, in    *)
(* any shape the firmware likes, cycles included.                          *)
(*                                                                         *)
(* A node is its position in the node array, 0 a reference to no node.     *)
(* What a mapping holds is chosen when it is first read (FirmwareBytes).   *)
(* Ids are u32 values up to MaxId, requester ids u16 values up to MaxBdf.  *)
(***************************************************************************)
EXTENDS Integers, Sequences, FiniteSets, FiniteSetsExt, FirmwareBytes

CONSTANTS
  NodeCount,     \* nodes in the array
  MaxMappings,   \* bound on mapping_count
  MaxId, MaxBdf, \* u32::MAX and u16::MAX
  Capacity,      \* IORT_REQUESTER_WINDOW_CAPACITY
  Requester,     \* the requester id asked about
  Sessions       \* queries made of one table, each once; the kinds of node and
                 \* the id mappings its bytes may spell

(* "malformed" fails to parse; "root" and "other root" are root complexes  *)
(* of the requester's segment and of another.  A reserved memory node has, *)
(* with its descriptors, the memory range that is asked about (RMR),       *)
(* another (other RMR), or an array or a range that is refused (bad RMR).  *)
AllKinds ==
  {"root", "other root", "SMMU", "SMMUv3", "named", "ITS", "RMR", "other RMR", "bad RMR",
   "malformed"}

Queries == {"iommu", "match", "ranges", "rmr"}

ASSUME TableAssumption ==
  /\ NodeCount \in Nat /\ MaxMappings \in Nat /\ MaxBdf \in 0 .. MaxId
  /\ MaxId \in Nat /\ Requester \in 0 .. MaxBdf /\ Capacity \in Nat
  /\ \A s \in Sessions :
       /\ s.queries \subseteq Queries /\ s.kinds \subseteq AllKinds
       /\ s.mappings \subseteq [base : 0 .. MaxId, count : 0 .. MaxId, out : 0 .. MaxId,
                                ref : 0 .. NodeCount, single : BOOLEAN]

Nodes == 1 .. NodeCount

VARIABLES
  session,    \* of Sessions
  nodes,      \* the node array: kind, and mapping_count (-1 if the array is out of bounds)
  mappings,   \* the id mappings read so far, by node and position
  query,      \* the query in progress, None between queries
  target,     \* the kind of IOMMU looked for
  current, id, remaining,  \* locals of map_id_to_kind
  index,      \* position in the mapping array being read
  fallback,   \* translate_once: `fallback`, 0 or the position of its mapping
  acc,        \* locals of the queries that read ranges
  visited,    \* history: the nodes and ids of the search
  answers,    \* history: Ok results
  errors      \* history: Err results

searchVars == <<target, current, id, remaining, index, fallback, visited>>
vars == <<session, nodes, mappings, query, searchVars, acc, answers, errors>>

None == "none"
Nothing == [covered |-> FALSE, unresolved |-> FALSE, found |-> FALSE, ranges |-> {}]

-----------------------------------------------------------------------------
(* Pure parts of the code.                                                 *)

(* single_mapping_allowed ("named" stands for a PMCG node too).            *)
SingleAllowed(n) == nodes[n].kind \in {"root", "other root", "SMMUv3", "named"}

(* translate_for_node_kind: the output id, or -1 for None.                 *)
Translated(m, n, x) ==
  CASE m.single -> IF SingleAllowed(n) THEN m.out ELSE -1
    [] OTHER ->
         IF /\ m.base + m.count <= MaxId
            /\ m.base <= x /\ x <= m.base + m.count
            /\ m.out + (x - m.base) <= MaxId
         THEN m.out + (x - m.base) ELSE -1

(* The last id of a mapping may be an off-by-one of the firmware's: it     *)
(* counts only if no other mapping has the id.                             *)
Boundary(m, x) == m.count > 0 /\ x = Min({m.base + m.count, MaxId})

(* input_bdf_range: the requester ids a mapping claims; {} for None.       *)
Claims(m) ==
  CASE m.single -> 0 .. MaxBdf
    [] ~m.single /\ m.base + m.count <= MaxBdf -> m.base .. m.base + m.count
    [] OTHER -> {}

(* root_complex_for_segment parses every node; the last root wins.         *)
Broken == \E n \in Nodes : nodes[n].kind = "malformed"
Roots == {n \in Nodes : nodes[n].kind = "root"}
Root == Max(Roots)

(* node_by_reference: None for a reference to no node; the nodes in front  *)
(* were all parsed before.                                                 *)
IsNode(ref) == ref \in Nodes

-----------------------------------------------------------------------------
Init ==
  /\ session \in Sessions
  /\ nodes \in [Nodes -> [kind : session.kinds, maps : -1 .. MaxMappings]]
  /\ mappings = <<>>
  /\ query = None /\ target = "SMMUv3"
  /\ current = 0 /\ id = 0 /\ remaining = 0 /\ index = 1 /\ fallback = 0
  /\ acc = Nothing
  /\ visited = <<>>
  /\ answers = <<>> /\ errors = <<>>

Reset ==
  /\ query' = None /\ target' = "SMMUv3"
  /\ current' = 0 /\ id' = 0 /\ remaining' = 0 /\ index' = 1 /\ fallback' = 0
  /\ acc' = Nothing
  /\ visited' = <<>>

ReturnOk(a) == Reset /\ answers' = Remember(answers, query, a) /\ UNCHANGED errors
ReturnErr(e) == Reset /\ errors' = Remember(errors, query, e) /\ UNCHANGED answers

(* What the queries answer; the empty set is Ok(None).                     *)
NoResult == [node |-> 0, id |-> 0, match |-> None, ranges |-> {}]

(* map_pci_requester_to_kind up to its loop.  The bound is the number of   *)
(* nodes: a walk of that many steps has met one of them twice.             *)
StartRemainingShort == NodeCount - 1
StartRemaining == NodeCount

EnterSearch(kind) ==
  /\ target' = kind
  /\ current' = Root /\ id' = Requester /\ remaining' = StartRemaining
  /\ index' = 1 /\ fallback' = 0
  /\ visited' = <<[node |-> Root, id |-> Requester]>>

Begin(q) ==
  /\ query = None
  /\ q \in session.queries \ (DOMAIN answers \union DOMAIN errors)
  /\ \/ /\ q # "rmr" /\ Broken
        /\ errors' = Remember(errors, q, "malformed")
        /\ UNCHANGED <<query, searchVars, acc, answers>>
     \/ /\ q # "rmr" /\ ~Broken /\ Roots = {}
        /\ answers' = Remember(answers, q, NoResult)
        /\ UNCHANGED <<query, searchVars, acc, errors>>
     \/ /\ q # "rmr" /\ ~Broken /\ Roots # {}
        /\ query' = q
        /\ EnterSearch("SMMUv3")
        /\ UNCHANGED <<acc, answers, errors>>
     \/ /\ q = "rmr"
        /\ query' = q /\ current' = 1 /\ index' = 0
        /\ UNCHANGED <<target, id, remaining, fallback, visited, acc, answers, errors>>
  /\ UNCHANGED <<session, nodes, mappings>>

(* No SMMUv3 on the path: look for an SMMU instead.                        *)
NotFound ==
  IF target = "SMMUv3"
  THEN EnterSearch("SMMU") /\ UNCHANGED <<query, acc, answers, errors>>
  ELSE ReturnOk(NoResult)

(* The head of map_id_to_kind's loop.                                      *)
AtHead == query = "iommu" /\ index = 1 /\ fallback = 0

Arrive ==
  /\ AtHead /\ remaining > 0 /\ nodes[current].kind = target
  /\ ReturnOk([NoResult EXCEPT !.node = current, !.id = id])
  /\ UNCHANGED <<session, nodes, mappings>>

Exhausted ==
  /\ AtHead /\ remaining = 0
  /\ ReturnErr("cycle")
  /\ UNCHANGED <<session, nodes, mappings>>

(* id_mappings: the array must lie inside its node.                        *)
Reading ==
  CASE query = "iommu" -> remaining > 0 /\ nodes[current].kind # target
    [] query = "rmr" -> index > 0
    [] OTHER -> query # None

BadArray ==
  /\ Reading /\ nodes[current].maps = -1
  /\ ReturnErr("malformed")
  /\ UNCHANGED <<session, nodes, mappings>>

(* translate_once has its translation: on to the node it refers to.        *)
FollowForever(m) ==
  IF IsNode(m.ref)
  THEN /\ current' = m.ref /\ id' = Translated(m, current, id)
       /\ remaining' = remaining
       /\ index' = 1 /\ fallback' = 0
       /\ visited' = <<[node |-> m.ref, id |-> Translated(m, current, id)]>>
       /\ UNCHANGED <<query, target, acc, answers, errors>>
  ELSE NotFound

Follow(m) ==
  IF IsNode(m.ref)
  THEN /\ current' = m.ref /\ id' = Translated(m, current, id)
       /\ remaining' = remaining - 1
       /\ index' = 1 /\ fallback' = 0
       /\ visited' = Append(visited, [node |-> m.ref, id |-> Translated(m, current, id)])
       /\ UNCHANGED <<query, target, acc, answers, errors>>
  ELSE NotFound

(* IortIdMappings::next: what the mapping array holds at `index`.          *)
NextMapping == Contents(mappings, <<current, index>>, session.mappings)

Read(A(_)) ==
  \E m \in NextMapping :
    /\ mappings' = Remember(mappings, <<current, index>>, m)
    /\ A(m)

(* One mapping in translate_once.                                          *)
TryMappingFirstFit ==
  /\ query = "iommu" /\ Reading /\ index <= nodes[current].maps
  /\ Read(LAMBDA m :
       \/ /\ Translated(m, current, id) = -1
          /\ index' = index + 1
          /\ UNCHANGED <<query, target, current, id, remaining, fallback, visited, acc, answers, errors>>
       \/ Translated(m, current, id) # -1 /\ Follow(m))
  /\ UNCHANGED <<session, nodes>>

TryMapping ==
  /\ query = "iommu" /\ Reading /\ index <= nodes[current].maps
  /\ Read(LAMBDA m :
       \/ /\ Translated(m, current, id) = -1
          /\ index' = index + 1
          /\ UNCHANGED <<query, target, current, id, remaining, fallback, visited, acc, answers, errors>>
       \/ /\ Translated(m, current, id) # -1 /\ Boundary(m, id)
          /\ index' = index + 1 /\ fallback' = index
          /\ UNCHANGED <<query, target, current, id, remaining, visited, acc, answers, errors>>
       \/ /\ Translated(m, current, id) # -1 /\ ~Boundary(m, id)
          /\ Follow(m))
  /\ UNCHANGED <<session, nodes>>

(* The end of the array.                                                   *)
EndOfMappings ==
  /\ query = "iommu" /\ Reading
  /\ nodes[current].maps # -1 /\ index > nodes[current].maps
  /\ IF fallback = 0 THEN NotFound ELSE Follow(mappings[<<current, fallback>>])
  /\ UNCHANGED <<session, nodes, mappings>>

(* One mapping in the queries that read ranges.  input_bdf_range gives     *)
(* None: requester_match and rmr_bdf_ranges take note of it, and           *)
(* root_complex_bdf_ranges goes on.  ranges.insert answers Full when the   *)
(* ids no longer fit.                                                      *)
Set == INSTANCE RequesterSet
         WITH Space <- MaxBdf + 1, members <- acc.ranges, asked <- {}, answer <- "Ok"

Overfills(m) == query # "match" /\ Set!Runs(acc.ranges \union Claims(m)) > Capacity

TakeMappingSilently(m) ==
  CASE query = "match" -> [acc EXCEPT !.covered = @ \/ Requester \in Claims(m)]
    [] query = "ranges" -> [acc EXCEPT !.ranges = @ \union Claims(m)]
    [] query = "rmr" -> [acc EXCEPT !.ranges = @ \union Claims(m), !.unresolved = @ \/ Claims(m) = {}]

TakeMapping(m) ==
  CASE query = "match" ->
         [acc EXCEPT !.covered = @ \/ Requester \in Claims(m), !.unresolved = @ \/ Claims(m) = {}]
    [] query = "ranges" -> [acc EXCEPT !.ranges = @ \union Claims(m)]
    [] query = "rmr" -> [acc EXCEPT !.ranges = @ \union Claims(m), !.unresolved = @ \/ Claims(m) = {}]

RangeMapping ==
  /\ query \in {"match", "ranges", "rmr"} /\ Reading /\ index <= nodes[current].maps
  /\ Read(LAMBDA m :
       \/ /\ Overfills(m)
          /\ ReturnErr("Full")
       \/ /\ ~Overfills(m)
          /\ acc' = TakeMapping(m)
          /\ index' = index + 1
          /\ UNCHANGED <<query, target, current, id, remaining, fallback, visited, answers, errors>>)
  /\ UNCHANGED <<session, nodes>>

(* The end of the root complex's mappings.                                 *)
MatchResult ==
  CASE acc.covered -> "Covered"
    [] ~acc.covered /\ acc.unresolved -> "Unresolved"
    [] OTHER -> "NotCovered"

EndOfRanges ==
  /\ query \in {"match", "ranges"}
  /\ nodes[current].maps # -1 /\ index > nodes[current].maps
  /\ IF query = "match" THEN ReturnOk([NoResult EXCEPT !.match = MatchResult])
     ELSE ReturnOk([NoResult EXCEPT !.ranges = acc.ranges])
  /\ UNCHANGED <<session, nodes, mappings>>

(* rmr_bdf_ranges at a node, 0 the index before its mappings are read.     *)
SkipNode ==
  /\ current' = current + 1 /\ index' = 0
  /\ UNCHANGED <<query, target, id, remaining, fallback, visited, acc, answers, errors>>

RmrNode ==
  /\ query = "rmr" /\ index = 0 /\ current \in Nodes
  /\ LET kind == nodes[current].kind
     IN \/ /\ kind \in {"malformed", "bad RMR"}
           /\ ReturnErr("malformed")
        \/ /\ kind = "RMR"
           /\ acc' = [acc EXCEPT !.found = TRUE]
           /\ index' = 1
           /\ UNCHANGED <<query, target, current, id, remaining, fallback, visited, answers, errors>>
        \/ /\ kind \notin {"malformed", "bad RMR", "RMR"}
           /\ SkipNode
  /\ UNCHANGED <<session, nodes, mappings>>

RmrNodeDone ==
  /\ query = "rmr" /\ index > 0
  /\ nodes[current].maps # -1 /\ index > nodes[current].maps
  /\ SkipNode
  /\ UNCHANGED <<session, nodes, mappings>>

RmrResultPartial ==
  /\ query = "rmr" /\ index = 0 /\ current > NodeCount
  /\ ReturnOk([NoResult EXCEPT !.ranges = IF acc.found THEN acc.ranges ELSE {}])
  /\ UNCHANGED <<session, nodes, mappings>>

RmrResult ==
  /\ query = "rmr" /\ index = 0 /\ current > NodeCount
  /\ ReturnOk([NoResult EXCEPT !.ranges =
                 IF acc.found /\ ~acc.unresolved THEN acc.ranges ELSE {}])
  /\ UNCHANGED <<session, nodes, mappings>>

Step ==
  \/ Arrive \/ Exhausted \/ BadArray \/ TryMapping \/ EndOfMappings
  \/ RangeMapping \/ EndOfRanges \/ RmrNode \/ RmrNodeDone \/ RmrResult

Next == Step \/ \E q \in Queries : Begin(q)

(* A query is straight-line code with loops: once begun it goes on.        *)
Spec == Init /\ [][Next]_vars /\ WF_vars(Step)

-----------------------------------------------------------------------------
(* Every variable stays in its domain; ids are 32-bit values.              *)
TypeOK ==
  /\ \A p \in DOMAIN mappings : mappings[p] \in session.mappings
  /\ query \in Queries \union {None}
  /\ target \in {"SMMUv3", "SMMU"}
  /\ current \in 0 .. NodeCount + 1 /\ id \in 0 .. MaxId /\ remaining \in 0 .. NodeCount
  /\ index \in 0 .. MaxMappings + 1 /\ fallback \in 0 .. MaxMappings
  /\ DOMAIN answers \union DOMAIN errors \subseteq Queries

(* A query returns, whatever cycles the mappings form.                     *)
QueryReturns == query # None ~> query = None

(* Reference: the mapping that decides where an id goes from node n, by    *)
(* set: the first that has it in its interior, else the last at whose      *)
(* boundary it lies.                                                       *)
Fits(n, x) ==
  {k \in 1 .. nodes[n].maps : <<n, k>> \in DOMAIN mappings /\ Translated(mappings[<<n, k>>], n, x) # -1}

Decides(n, x, k) ==
  LET Interior == {j \in Fits(n, x) : ~Boundary(mappings[<<n, j>>], x)}
  IN k = IF Interior # {} THEN Min(Interior) ELSE Max(Fits(n, x))

(* Every step of a search goes by that rule, with ids of 32 bits, and the  *)
(* search goes past no node of the kind it looks for.                      *)
StepsByRule ==
  TypeOK /\ \A i \in 1 .. Len(visited) - 1 :
    LET v == visited[i]
    IN /\ nodes[v.node].kind # target
       /\ \E k \in Fits(v.node, v.id) :
            /\ Decides(v.node, v.id, k)
            /\ visited[i + 1] = [node |-> mappings[<<v.node, k>>].ref,
                                 id |-> Translated(mappings[<<v.node, k>>], v.node, v.id)]

(* A table is called cyclic only if the search went round: as many steps   *)
(* as there are nodes, and some node met twice.                            *)
CycleIsReal ==
  AtHead /\ remaining = 0 =>
    \E i, j \in 1 .. Len(visited) : i < j /\ visited[i].node = visited[j].node

(* A requester that its root complex does not claim reaches no IOMMU.      *)
UnclaimedReachesNone ==
  {"match", "iommu"} \subseteq DOMAIN answers /\ answers["match"].match = "NotCovered"
    => answers["iommu"].node = 0

(* The ranges are the claim.  When root_complex_bdf_ranges gives a set,    *)
(* requester_match calls the requester Covered exactly if the set has it;  *)
(* and the set rmr_bdf_ranges gives has every requester that a mapping of  *)
(* a node with the memory range names and no other, or is withheld.        *)
RmrMappings == {mappings[p] : p \in {q \in DOMAIN mappings : nodes[q[1]].kind = "RMR"}}

RangesAreClaims ==
  /\ {"match", "ranges"} \subseteq DOMAIN answers =>
       (answers["match"].match = "Covered" <=> Requester \in answers["ranges"].ranges)
  /\ "rmr" \in DOMAIN answers =>
       answers["rmr"].ranges =
         IF \E m \in RmrMappings : Claims(m) = {} THEN {}
         ELSE UNION {Claims(m) : m \in RmrMappings}

=============================================================================
