----------------------------- MODULE BdfRangeSet -----------------------------
(***************************************************************************)
(* BdfRangeSet<N> of src/src/firm/pcie.rs: a fixed array of half-open      *)
(* requester-id windows, kept sorted and merged by insert.  The firmware   *)
(* parsers collect the scope of a remapping unit in one of these.          *)
(* Indices are 0-based, as in the code.  insert takes &mut self: a step    *)
(* writes the range, and one step per round of its loops merges it with    *)
(* its neighbours before the next insert.                                  *)
(***************************************************************************)
EXTENDS Integers, FiniteSets, FiniteSetsExt

CONSTANTS
  Space,      \* number of requester ids, u16::MAX + 1 in the code
  Capacity    \* const parameter N

ASSUME SizeAssumption == Space \in Nat \ {0} /\ Capacity \in Nat \ {0}

VARIABLES
  windows,    \* the array, unused windows included
  count,      \* how many are in use
  phase,      \* "idle", or the loop merge_around is in
  index,      \* its `index`
  asked,      \* history: the ids of the last insert's range
  answer      \* result of the last insert, known once its range is written

setVars == <<windows, count, phase, index, asked, answer>>

Window(s, e) == [start |-> s, end |-> e]
EMPTY == Window(0, 0)

(* The ranges a caller can build: EMPTY, single and inclusive.             *)
Ranges == {EMPTY} \union UNION {{Window(s, e) : e \in s + 1 .. Space} : s \in 0 .. Space - 1}

Bdfs(r) == r.start .. r.end - 1

Indices == 0 .. Capacity - 1

-----------------------------------------------------------------------------
(* merge_around.                                                           *)

(* remove: shift the windows above i down and clear the last one.          *)
Remove(w, i) ==
  /\ windows' = [k \in Indices |-> CASE i <= k /\ k < count - 1 -> w[k + 1]
                                     [] k = count - 1 -> EMPTY
                                     [] OTHER -> w[k]]
  /\ count' = count - 1

(* merge_pair: whether it merges, and what it does then.                   *)
MergesOverlapsOnly(left, right) == windows[right].start < windows[left].end
Merges(left, right) == windows[right].start <= windows[left].end

MergePairKeepEnd(left, right) ==
  Remove([windows EXCEPT ![left].end = windows[right].end], right)

MergePair(left, right) ==
  Remove([windows EXCEPT ![left].end = Max({windows[left].end, windows[right].end})], right)

MergeLeft ==
  /\ phase = "left"
  /\ IF index > 0 /\ Merges(index - 1, index)
     THEN MergePair(index - 1, index) /\ index' = index - 1 /\ UNCHANGED phase
     ELSE phase' = "right" /\ UNCHANGED <<windows, count, index>>
  /\ UNCHANGED <<asked, answer>>

MergeRight ==
  /\ phase = "right"
  /\ IF index + 1 < count /\ Merges(index, index + 1)
     THEN MergePair(index, index + 1) /\ UNCHANGED <<index, phase>>
     ELSE phase' = "idle" /\ index' = 0 /\ UNCHANGED <<windows, count>>
  /\ UNCHANGED <<asked, answer>>

-----------------------------------------------------------------------------
(* insert.                                                                 *)

(* The tests of its scan, in the order the code makes them.                *)
Inside(r, c) == r.start >= c.start /\ r.end <= c.end
Touches(r, c) == r.start <= c.end /\ r.end >= c.start
Before(r, c) == r.start < c.start

(* The window at which the scan stops, or the count.                       *)
StopAt(r) ==
  Min({count} \union {k \in 0 .. count - 1 : Touches(r, windows[k]) \/ Before(r, windows[k])})

(* Nothing to add: an empty range, or one inside a window.                 *)
HasAlready(r) == LET i == StopAt(r) IN r.start = r.end \/ (i < count /\ Inside(r, windows[i]))

KeepWindows(r) ==
  /\ HasAlready(r)
  /\ answer' = "Ok"
  /\ UNCHANGED <<windows, count, phase, index>>

(* The window at i grows by the range.                                     *)
ExtendWindow(r) ==
  LET i == StopAt(r)
      c == windows[i]
  IN /\ ~HasAlready(r) /\ i < count /\ Touches(r, c)
     /\ windows' = [windows EXCEPT ![i] = Window(Min({c.start, r.start}), Max({c.end, r.end}))]
     /\ phase' = "left" /\ index' = i
     /\ answer' = "Ok"
     /\ UNCHANGED count

(* insert_at: Full, or shift the windows from i up.                        *)
IsNew(r) == ~HasAlready(r) /\ (StopAt(r) < count => ~Touches(r, windows[StopAt(r)]))

Refuse(r) ==
  /\ IsNew(r) /\ count = Capacity
  /\ answer' = "Full"
  /\ UNCHANGED <<windows, count, phase, index>>

InsertAt(r) ==
  LET i == StopAt(r)
  IN /\ IsNew(r) /\ count < Capacity
     /\ windows' = [k \in Indices |-> CASE k < i -> windows[k]
                                        [] k = i -> r
                                        [] i < k /\ k <= count -> windows[k - 1]
                                        [] OTHER -> windows[k]]
     /\ count' = count + 1
     /\ phase' = "left" /\ index' = i
     /\ answer' = "Ok"

InsertRange(r) ==
  /\ phase = "idle"
  /\ asked' = Bdfs(r)
  /\ KeepWindows(r) \/ ExtendWindow(r) \/ Refuse(r) \/ InsertAt(r)

-----------------------------------------------------------------------------
SetInit ==
  /\ windows = [k \in Indices |-> EMPTY]
  /\ count = 0
  /\ phase = "idle" /\ index = 0
  /\ asked = {} /\ answer = "Ok"

SetNext == MergeLeft \/ MergeRight \/ \E r \in Ranges : InsertRange(r)

SetSpec == SetInit /\ [][SetNext]_setVars

-----------------------------------------------------------------------------
(* The array holds windows of the requester space, none of them reversed,  *)
(* so that from_bounds never refuses one, and a count within it.           *)
SetTypeOK ==
  /\ windows \in [Indices -> [start : 0 .. Space - 1, end : 0 .. Space]]
  /\ count \in 0 .. Capacity
  /\ phase \in {"idle", "left", "right"} /\ index \in Indices
  /\ asked \subseteq 0 .. Space - 1 /\ answer \in {"Ok", "Full"}

(* When insert has returned, as_slice is the canonical form of the set:    *)
(* non-empty windows, sorted, neither overlapping nor adjacent.  Nothing   *)
(* is left behind in the unused part of the array, which the derived ==    *)
(* compares too.  Whatever the order of the inserts, equal sets are equal  *)
(* values.                                                                 *)
Canonical ==
  /\ SetTypeOK
  /\ \A k \in 0 .. count - 1 : windows[k].start < windows[k].end
  /\ phase = "idle" => \A k \in 0 .. count - 2 : windows[k].end < windows[k + 1].start
  /\ \A k \in count .. Capacity - 1 : windows[k] = EMPTY

(* insert adds exactly the ids of its range, and answers Full, changing    *)
(* nothing, exactly when no N windows could hold the result; merging       *)
(* neither adds nor drops an id.                                           *)
Members == UNION {Bdfs(windows[k]) : k \in 0 .. count - 1}

Abstract == INSTANCE RequesterSet WITH members <- Members

ImplementsSet == Abstract!Spec

(* The invariant behind them.  While merge_around runs, only the window at *)
(* its index may reach into later ones: the loop to the left never finds   *)
(* anything to merge.                                                      *)
OthersApart ==
  /\ phase # "idle" => index < count
  /\ \A j, k \in 0 .. count - 1 : j < k =>
       /\ windows[j].start < windows[k].start
       /\ phase = "idle" \/ j # index => windows[j].end < windows[k].start

SetInv == Canonical /\ OthersApart

=============================================================================
