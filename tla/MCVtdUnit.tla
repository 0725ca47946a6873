------------------------------ MODULE MCVtdUnit ------------------------------
(***************************************************************************)
(* Instances of VtdUnit for TLC: all clients behind one bus, and all       *)
(* pages at one iova, so that they take each other's place.                *)
(***************************************************************************)
EXTENDS VtdUnit, TLC

OneBus == {"bus0"}
AllOnBus0 == [c \in Clients |-> "bus0"]
SameIova == [p \in Pages |-> "iova0"]
OnlyIn(d) == [x \in Domains |-> IF x = d THEN Pages ELSE {}]
InOneDomain == OnlyIn(CHOOSE d \in Domains : TRUE)

UnitSymmetry == Permutations(Pages)

=============================================================================
