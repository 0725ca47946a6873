---------------------------- MODULE MCDmarTable ----------------------------
(* DmarTable for TLC.  Lengths are scaled down: headers take two units,    *)
(* the fixed part of a structure two or eight, and a path entry, as in the *)
(* code, two.                                                              *)
EXTENDS DmarTable

SmallLengths == [k \in AllKinds |-> IF k = "ATSR" THEN 8 ELSE 2]

UnitQueries ==
  {[name |-> "drhd_bdf_ranges", window |-> "w"],
   [name |-> "drhd_requester_match", window |-> "w", segment |-> 0, bdf |-> 0]}

RegionQueries ==
  {[name |-> "rmrr_bdf_ranges", window |-> "w", segment |-> 0],
   [name |-> "satc_device_ats_required", segment |-> 0, bdf |-> 0]}

LookupQueries ==
  {[name |-> "rhsa_proximity_domain_for_registers", window |-> "w"],
   [name |-> "andd_name_for_device_number", number |-> 0]}

SmallSessions == {UnitQueries, RegionQueries, LookupQueries}

=============================================================================
