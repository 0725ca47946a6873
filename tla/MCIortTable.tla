---------------------------- MODULE MCIortTable ----------------------------
(* IORT tables for TLC: what the mappings say (IortTable) and where nodes  *)
(* and arrays lie (IortLayout).  They share no state, so a behaviour       *)
(* exercises the part it chooses first.                                    *)
EXTENDS IortTable, IortLayout

VARIABLE part

(* Ranges that end before, at and after the requester or wrap, outputs     *)
(* with and without room, references to either node or to none, so that    *)
(* mappings overlap, share a target and form cycles; and                   *)
(* single mappings with and without a boundary.                            *)
SmallRanges == {<<0, 0>>, <<0, 1>>, <<0, MaxId>>, <<1, 0>>, <<1, MaxId>>}

SmallMappings ==
  {[base |-> r[1], count |-> r[2], out |-> 0, ref |-> n, single |-> FALSE] :
     r \in SmallRanges, n \in 0 .. NodeCount}
    \union [base : {0}, count : {MaxId}, out : {MaxId}, ref : {NodeCount}, single : {FALSE}]
    \union [base : {0}, count : {0, 1}, out : {MaxId}, ref : {NodeCount}, single : {TRUE}]

Search ==
  [queries |-> {"iommu", "match"}, kinds |-> {"root", "SMMU", "SMMUv3", "malformed"},
   mappings |-> SmallMappings]

(* Claimed ranges that merge, stay apart or overfill the set; one that     *)
(* claims all, and one that cannot be resolved.                            *)
Claimed ==
  {[base |-> r[1], count |-> r[2], out |-> 0, ref |-> 0, single |-> r[3]] :
     r \in {<<0, 0, FALSE>>, <<0, 1, FALSE>>, <<2, 0, FALSE>>, <<1, MaxId, FALSE>>, <<0, 0, TRUE>>}}

Ranges ==
  [queries |-> {"match", "ranges", "rmr"},
   kinds |-> {"root", "other root", "RMR", "other RMR", "bad RMR", "malformed"},
   mappings |-> Claimed]

SmallSessions == {Search, Ranges}

PartsInit ==
  /\ Init /\ LayoutInit
  /\ part \in {"mappings", "layout"}
  /\ part = "layout" =>
       /\ session = Search
       /\ nodes = [n \in Nodes |-> [kind |-> "root", maps |-> 0]]

PartsNext ==
  /\ \/ part = "mappings" /\ Next /\ UNCHANGED layoutVars
     \/ part = "layout" /\ LayoutNext /\ UNCHANGED vars
  /\ UNCHANGED part

PartsSpec ==
  /\ PartsInit /\ [][PartsNext]_<<part, vars, layoutVars>>
  /\ WF_vars(part = "mappings" /\ Step)

SmallMinLengths == [ITS |-> 4, named |-> 4, RMR |-> 5, SMMU |-> 5, root |-> 3]
SmallSizes ==
  [mappings |-> 2, identifiers |-> 1, descriptors |-> 2, interrupts |-> 2, global |-> 4, name |-> 1]

=============================================================================
