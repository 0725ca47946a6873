---------------------------- MODULE RequesterSet ----------------------------
(***************************************************************************)
(* What BdfRangeSet promises: a set of requester ids that grows by whole   *)
(* ranges, and refuses a range exactly when the enlarged set would no      *)
(* longer fit its number of windows.                                       *)
(***************************************************************************)
EXTENDS Integers, FiniteSets

CONSTANTS
  Space,      \* number of requester ids, u16::MAX + 1 in the code
  Capacity    \* const parameter N, the number of windows

VARIABLES
  members,    \* the requester ids in the set
  asked,      \* the ids of the last insert's range
  answer      \* result of the last insert

vars == <<members, asked, answer>>

(* The least number of windows that can hold S: its maximal runs.          *)
Runs(S) == Cardinality({x \in S : x - 1 \notin S})

Init == members = {} /\ asked = {} /\ answer = "Ok"

Add(S) ==
  /\ asked' = S
  /\ \/ /\ Runs(members \union S) <= Capacity
        /\ members' = members \union S
        /\ answer' = "Ok"
     \/ /\ Runs(members \union S) > Capacity
        /\ members' = members
        /\ answer' = "Full"

Intervals == {{}} \union {a .. b : a, b \in 0 .. Space - 1}

Next == \E S \in Intervals : Add(S)

Spec == Init /\ [][Next]_vars

=============================================================================
