--------------------------- MODULE MCInvalidations ---------------------------
(* The clients of queued invalidation besides a unit's contexts, for TLC:  *)
(* range invalidation of the IOTLB and interrupt remapping.  They share no *)
(* state, so a behaviour exercises the one it chooses first, and the other *)
(* keeps its initial state.                                                *)
EXTENDS IotlbRange, InterruptRemap

CONSTANTS i1, i2, i3, s1, s2

VARIABLE client

ClientsInit ==
  /\ Init /\ RemapInit
  /\ client \in {"range", "interrupts"}
  /\ client = "interrupts" => request = [page |-> 0, mask |-> 0, count |-> 0, max |-> 0, selective |-> TRUE]

ClientsNext ==
  /\ \/ client = "range" /\ Next /\ UNCHANGED remapVars
     \/ client = "interrupts" /\ RemapNext /\ UNCHANGED vars
  /\ UNCHANGED client

ClientsSpec == ClientsInit /\ [][ClientsNext]_<<client, vars, remapVars>>

SmallSizeBits == [t \in {i1, i2, i3} |-> IF t = i3 THEN 1 ELSE 2]
SmallDeliveries ==
  {[source |-> s1, vector |-> 32, destination |-> 1],
   [source |-> s2, vector |-> 33, destination |-> 2],
   [source |-> s2, vector |-> 31, destination |-> 1]}

=============================================================================
