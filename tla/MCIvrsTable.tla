---------------------------- MODULE MCIvrsTable ----------------------------
(* IvrsTable for TLC, with lengths scaled down.                            *)
EXTENDS IvrsTable

SmallLengths == [k \in Kinds |-> IF k = "IVHD 11h" THEN 3 ELSE 2]

=============================================================================
