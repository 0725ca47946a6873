------------------------------ MODULE DmarTable ------------------------------
(***************************************************************************)
(* Queries on an ACPI DMAR table, src/src/arch/x86_64/intel/dmar.rs: each  *)
(* walks the remapping structures by their declared lengths and, inside    *)
(* the ones it selects, the device scopes by theirs.  The table is any     *)
(* sequence of bytes: what is found at an offset is chosen when the offset *)
(* is first read and stays so.  Offsets count from the first structure.    *)
(* A BdfRangeSet is the set of ids it holds; BdfRangeSet shows that this   *)
(* is what insert keeps and when it answers Full.                          *)
(***************************************************************************)
EXTENDS Integers, FiniteSets, FiniteSetsExt, FirmwareBytes

CONSTANTS
  TableLength,   \* bytes of structures in the table
  HeaderLength,  \* of a structure: 4 in the code
  ScopeHeader,   \* DEVICE_SCOPE_HEADER_LENGTH: 6 in the code
  MinLength,     \* the least length of each kind of structure
  Windows,       \* register windows of DRHDs and RHSAs, memory ranges of RMRRs
  Segments,      \* PCI segments, proximity domains and ACPI device numbers
  Space,         \* number of requester ids
  Capacity,      \* DMAR_REQUESTER_WINDOW_CAPACITY
  Kinds,         \* kinds of structure the table may hold
  StructureLengths, ScopeLengths,  \* declared lengths the bytes may spell
  Sessions       \* the queries callers make of one table, each once

Queries == UNION Sessions

AllKinds == {"DRHD", "RMRR", "ATSR", "RHSA", "ANDD", "SATC", "SIDP", "Unknown"}

(* The kinds whose parser checks an address.                               *)
Addressed == {"DRHD", "RMRR", "RHSA"}

(* The queries that walk the table.                                        *)
QueryNames ==
  {"drhd_bdf_ranges", "rmrr_bdf_ranges", "drhd_requester_match", "satc_device_ats_required",
   "rhsa_proximity_domain_for_registers", "andd_name_for_device_number"}

(* What one query looks at: for_each_drhd and its siblings, or the match   *)
(* on the structure in the query's own closure.                            *)
Visits(q) ==
  CASE q.name \in {"drhd_bdf_ranges", "drhd_requester_match"} -> {"DRHD"}
    [] q.name = "rmrr_bdf_ranges" -> {"RMRR"}
    [] q.name = "satc_device_ats_required" -> {"SATC", "SIDP"}
    [] q.name = "rhsa_proximity_domain_for_registers" -> {"RHSA"}
    [] q.name = "andd_name_for_device_number" -> {"ANDD"}

ASSUME LengthsAssumption ==
  /\ TableLength \in Nat /\ Space \in Nat /\ Capacity \in Nat
  /\ HeaderLength \in Nat \ {0} /\ ScopeHeader \in Nat \ {0}
  /\ Kinds \subseteq AllKinds
  /\ StructureLengths \subseteq Nat /\ ScopeLengths \subseteq Nat
  /\ MinLength \in [AllKinds -> Nat]
  /\ \A k \in AllKinds : MinLength[k] >= HeaderLength

ASSUME SessionsAssumption == \A q \in Queries : q.name \in QueryNames

VARIABLES
  session,    \* the queries that will be made
  sdt,        \* the structure headers read so far, by offset
  scopes,     \* the device scopes read so far, by offset
  query,      \* the query in progress
  pass,       \* 2 during the second walk of satc_device_ats_required
  offset,     \* DmarStructures::offset
  structure,  \* the structure whose scopes are being walked
  scope,      \* walk_device_scopes: offset inside the structure
  acc,        \* what the query's closure has collected
  answers,    \* history: the Ok results
  errors      \* history: the queries that returned Err

walkVars == <<pass, offset, structure, scope, acc>>
vars == <<session, sdt, scopes, query, walkVars, answers, errors>>

None == "none"
NoQuery == [name |-> None]
Nowhere == -1
NoBdf == -1
Bdfs == 0 .. Space - 1

(* The bytes of a header that matter.  `window` is the register window or  *)
(* the memory range, None when it does not fit an address; `segment` is in *)
(* an RHSA its proximity domain and in an ANDD its device number; `flag`   *)
(* is include_all or atc_required.                                         *)
Header(k, n, s, w, f) == [kind |-> k, length |-> n, segment |-> s, window |-> w, flag |-> f]
AnySegment == CHOOSE s \in Segments : TRUE

AnyWindow == CHOOSE w \in Windows : TRUE

Fields(queries, k) ==
  LET looked == k \in UNION {Visits(q) : q \in queries}
  IN (IF looked /\ k # "SIDP" THEN Segments ELSE {AnySegment})
     \X (IF k \notin Addressed THEN {None}
         ELSE {None} \union (IF looked THEN Windows ELSE {AnyWindow}))
     \X (IF looked /\ k \in {"DRHD", "SATC"} THEN BOOLEAN ELSE {FALSE})

(* Bytes the session's walks never look at are not told apart.             *)
StructuresFor ==
  [queries \in Sessions |->
     UNION {{Header(k, n, f[1], f[2], f[3]) :
               f \in IF n < MinLength[k] THEN {<<AnySegment, None, FALSE>>}
                     ELSE Fields(queries, k)}
            : k \in Kinds, n \in StructureLengths}]

Structures == StructuresFor[session]

(* A scope's length and the id its only path entry names, NoBdf when       *)
(* Bdf::new refuses it.                                                    *)
Depth(n) == (n - ScopeHeader) \div 2
Scopes ==
  [length : {n \in ScopeLengths : Depth(n) = 1}, first : Bdfs \union {NoBdf}]
    \union [length : {n \in ScopeLengths : Depth(n) # 1}, first : {0}]

-----------------------------------------------------------------------------
(* Checks and conversions.                                                 *)

(* DmarStructures::next and parse_*.                                       *)
StructureFits(at, h) == h.length >= HeaderLength /\ at + h.length <= TableLength
Parses(h) ==
  /\ h.length >= MinLength[h.kind]
  /\ h.kind \in Addressed => h.window # None

(* walk_device_scopes: position `at` inside a structure of n bytes.        *)
ScopeFitsUnbounded(at, n, s) ==
  s.length >= ScopeHeader /\ (s.length - ScopeHeader) % 2 = 0

ScopeFitsEmpty(at, n, s) ==
  at + s.length <= n /\ (s.length < ScopeHeader \/ (s.length - ScopeHeader) % 2 = 0)

ScopeFits(at, n, s) ==
  /\ s.length >= ScopeHeader
  /\ at + s.length <= n
  /\ (s.length - ScopeHeader) % 2 = 0

(* single_requester: the id of a path of depth one.                        *)
Requester(s) == IF Depth(s.length) = 1 THEN s.first ELSE NoBdf

-----------------------------------------------------------------------------
(* What the queries' closures do.                                          *)

Fresh ==
  [found |-> FALSE, ranges |-> {}, unresolved |-> FALSE, exact |-> FALSE,
   match |-> None, required |-> FALSE, value |-> <<>>]

Collects(q) == q.name \in {"drhd_bdf_ranges", "rmrr_bdf_ranges"}

(* Whether a structure concerns the query in its n-th walk, and whether    *)
(* its scopes do.                                                          *)
Selects(q, n, h) ==
  /\ h.kind \in Visits(q)
  /\ CASE h.kind \in {"DRHD", "RHSA"} -> h.window = q.window
       [] h.kind = "RMRR" -> h.window = q.window /\ h.segment = q.segment
       [] h.kind = "ANDD" -> h.segment = q.number
       [] h.kind = "SIDP" -> n = 1
       [] h.kind = "SATC" ->
            n = 2 /\ h.segment = q.segment /\ h.flag /\ h.length > MinLength["SATC"]

Walks(q, n, h) ==
  /\ Selects(q, n, h)
  /\ CASE q.name = "drhd_bdf_ranges" -> ~h.flag
       [] q.name = "drhd_requester_match" -> ~h.flag /\ h.segment = q.segment
       [] OTHER -> h.kind \in {"RMRR", "SATC"}

(* A selected structure at an offset, before its scopes.  The name of an   *)
(* ANDD is the slice of the table behind the fixed part.                   *)
OnStructure(q, at, h, a) ==
  CASE q.name = "drhd_requester_match" ->
         [a EXCEPT !.exact = FALSE, !.unresolved = FALSE,
                   !.match = CASE h.segment # q.segment -> "NotCovered"
                               [] h.segment = q.segment /\ h.flag -> "Covered"
                               [] OTHER -> @]
    [] h.kind = "RHSA" -> [a EXCEPT !.value = <<h.segment>>]
    [] h.kind = "ANDD" -> [a EXCEPT !.value = <<at + MinLength["ANDD"], at + h.length>>]
    [] OTHER -> [a EXCEPT !.found = TRUE]

(* One scope.  ranges.insert answers Full when the ids no longer fit.      *)
Set == INSTANCE RequesterSet WITH members <- acc.ranges, asked <- {}, answer <- "Ok"

Overfills(q, s, a) ==
  Collects(q) /\ Requester(s) # NoBdf /\ Set!Runs(a.ranges \union {Requester(s)}) > Capacity

OnScope(q, s, a) ==
  LET r == Requester(s)
  IN CASE Collects(q) ->
            [a EXCEPT !.ranges = @ \union ({r} \ {NoBdf}), !.unresolved = @ \/ r = NoBdf]
       [] q.name = "drhd_requester_match" ->
            [a EXCEPT !.exact = @ \/ r = q.bdf, !.unresolved = @ \/ r = NoBdf]
       [] OTHER -> [a EXCEPT !.required = @ \/ r = q.bdf]

(* After the last scope of a structure.                                    *)
AfterScopesUnresolvedFirst(q, a) ==
  IF q.name = "drhd_requester_match"
  THEN [a EXCEPT !.match = CASE a.unresolved -> "Unresolved"
                             [] ~a.unresolved /\ a.exact -> "Covered"
                             [] OTHER -> "NotCovered"]
  ELSE a

AfterScopes(q, a) ==
  IF q.name = "drhd_requester_match"
  THEN [a EXCEPT !.match = CASE a.exact -> "Covered"
                             [] ~a.exact /\ a.unresolved -> "Unresolved"
                             [] OTHER -> "NotCovered"]
  ELSE a

(* The Ok value; the empty set and the empty sequence are Ok(None).        *)
Answer(q, a) ==
  CASE Collects(q) -> IF a.found /\ ~a.unresolved THEN a.ranges ELSE {}
    [] q.name = "drhd_requester_match" -> a.match
    [] q.name = "satc_device_ats_required" -> a.required
    [] OTHER -> a.value

-----------------------------------------------------------------------------
Init ==
  /\ session \in Sessions
  /\ sdt = <<>> /\ scopes = <<>>
  /\ query = NoQuery /\ pass = 1
  /\ offset = 0 /\ structure = Nowhere /\ scope = 0
  /\ acc = Fresh
  /\ answers = <<>> /\ errors = {}

Begin(q) ==
  /\ query = NoQuery
  /\ q \in session \ (DOMAIN answers \union errors)
  /\ query' = q
  /\ UNCHANGED <<session, sdt, scopes, walkVars, answers, errors>>

Reset ==
  /\ query' = NoQuery /\ pass' = 1
  /\ offset' = 0 /\ structure' = Nowhere /\ scope' = 0 /\ acc' = Fresh

Fail == Reset /\ errors' = errors \union {query} /\ UNCHANGED answers
Finish == Reset /\ answers' = Remember(answers, query, Answer(query, acc)) /\ UNCHANGED errors

(* has_sidp found none: the second walk starts.                            *)
SecondWalk ==
  /\ pass' = 2 /\ offset' = 0
  /\ UNCHANGED <<query, structure, scope, acc, answers, errors>>

BetweenStructures == query # NoQuery /\ structure = Nowhere

EndOfTable ==
  /\ BetweenStructures /\ offset >= TableLength
  /\ IF query.name = "satc_device_ats_required" /\ pass = 1 /\ ~acc.found
     THEN SecondWalk ELSE Finish
  /\ UNCHANGED <<session, sdt, scopes>>

TruncatedStructure ==
  /\ BetweenStructures
  /\ offset < TableLength /\ offset + HeaderLength > TableLength
  /\ Fail
  /\ UNCHANGED <<session, sdt, scopes>>

NextStructure ==
  /\ BetweenStructures /\ offset + HeaderLength <= TableLength
  /\ \E h \in Contents(sdt, offset, Structures) :
       /\ sdt' = Remember(sdt, offset, h)
       /\ \/ /\ ~(StructureFits(offset, h) /\ Parses(h))
             /\ Fail
          \/ /\ StructureFits(offset, h) /\ Parses(h)
             /\ offset' = offset + h.length
             /\ acc' = IF Selects(query, pass, h) THEN OnStructure(query, offset, h, acc) ELSE acc
             /\ structure' = IF Walks(query, pass, h) THEN offset ELSE Nowhere
             /\ scope' = MinLength[h.kind]
             /\ UNCHANGED <<query, pass, answers, errors>>
  /\ UNCHANGED <<session, scopes>>

InStructure == query # NoQuery /\ structure # Nowhere
length == sdt[structure].length

EndOfScopes ==
  /\ InStructure /\ scope >= length
  /\ acc' = AfterScopes(query, acc)
  /\ structure' = Nowhere
  /\ UNCHANGED <<session, sdt, scopes, query, pass, offset, scope, answers, errors>>

TruncatedScope ==
  /\ InStructure
  /\ scope < length /\ scope + ScopeHeader > length
  /\ Fail
  /\ UNCHANGED <<session, sdt, scopes>>

NextScope ==
  /\ InStructure /\ scope + ScopeHeader <= length
  /\ \E s \in Contents(scopes, structure + scope, Scopes) :
       /\ scopes' = Remember(scopes, structure + scope, s)
       /\ \/ /\ ~ScopeFits(scope, length, s) \/ Overfills(query, s, acc)
             /\ Fail
          \/ /\ ScopeFits(scope, length, s) /\ ~Overfills(query, s, acc)
             /\ acc' = OnScope(query, s, acc)
             /\ scope' = scope + s.length
             /\ UNCHANGED <<query, pass, offset, structure, answers, errors>>
  /\ UNCHANGED <<session, sdt>>

Walk ==
  \/ EndOfTable \/ TruncatedStructure \/ NextStructure
  \/ EndOfScopes \/ TruncatedScope \/ NextScope

Next == Walk \/ \E q \in Queries : Begin(q)

(* The walk is a loop of straight-line code: once begun it goes on.        *)
Spec == Init /\ [][Next]_vars /\ WF_vars(Walk)

-----------------------------------------------------------------------------
(* Every variable stays in its domain.                                     *)
TypeOK ==
  /\ \A o \in DOMAIN sdt : sdt[o] \in Structures
  /\ \A o \in DOMAIN scopes : scopes[o] \in Scopes
  /\ query \in Queries \union {NoQuery} /\ pass \in {1, 2}
  /\ offset \in Nat /\ scope \in Nat /\ structure \in DOMAIN sdt \union {Nowhere}
  /\ acc.ranges \subseteq Bdfs
  /\ acc.match \in {None, "Covered", "NotCovered", "Unresolved"}
  /\ errors \union DOMAIN answers \subseteq Queries

(* Whatever lengths the firmware declares, a structure being walked lies   *)
(* inside the table, its cursor inside the structure, and the iterator is  *)
(* already past it: the unchecked slices of walk_device_scopes never leave *)
(* the table, and no scope is read from another structure's bytes.         *)
CursorInBounds ==
  /\ TypeOK
  /\ offset <= TableLength
  /\ InStructure => structure + length <= offset /\ scope <= length

(* Every query returns: no declared length keeps a walk in place.          *)
QueryReturns == query # NoQuery ~> query = NoQuery

(* Reference definitions, over the structures and scopes of the table.     *)
ScopesOf(o) == {p \in DOMAIN scopes : o < p /\ p < o + sdt[o].length}
RequestersOf(o) == {Requester(scopes[p]) : p \in ScopesOf(o)}

UnitsAt(q) == {o \in DOMAIN sdt : sdt[o].kind = "DRHD" /\ sdt[o].window = q.window}
RegionsAt(q) ==
  {o \in DOMAIN sdt : sdt[o].kind = "RMRR" /\ sdt[o].window = q.window /\ sdt[o].segment = q.segment}

UnionOf(S) ==
  LET all == UNION {RequestersOf(o) : o \in S} IN IF NoBdf \in all THEN {} ELSE all

MatchOf(q, o) ==
  CASE sdt[o].segment # q.segment -> "NotCovered"
    [] sdt[o].segment = q.segment /\ (sdt[o].flag \/ q.bdf \in RequestersOf(o)) -> "Covered"
    [] OTHER -> IF NoBdf \in RequestersOf(o) THEN "Unresolved" ELSE "NotCovered"

Expected(q) ==
  CASE q.name = "drhd_bdf_ranges" -> UnionOf({o \in UnitsAt(q) : ~sdt[o].flag})
    [] q.name = "rmrr_bdf_ranges" -> UnionOf(RegionsAt(q))
    [] q.name = "drhd_requester_match" ->
         IF UnitsAt(q) = {} THEN None ELSE MatchOf(q, Max(UnitsAt(q)))
    [] q.name = "rhsa_proximity_domain_for_registers" ->
         LET S == {o \in DOMAIN sdt : sdt[o].kind = "RHSA" /\ sdt[o].window = q.window}
         IN IF S = {} THEN <<>> ELSE <<sdt[Max(S)].segment>>
    [] q.name = "andd_name_for_device_number" ->
         LET S == {o \in DOMAIN sdt : sdt[o].kind = "ANDD" /\ sdt[o].segment = q.number}
         IN IF S = {} THEN <<>>
            ELSE <<Max(S) + MinLength["ANDD"], Max(S) + sdt[Max(S)].length>>
    [] q.name = "satc_device_ats_required" ->
         /\ \A o \in DOMAIN sdt : sdt[o].kind # "SIDP"
         /\ \E o \in DOMAIN sdt :
              /\ sdt[o].kind = "SATC" /\ sdt[o].flag /\ sdt[o].segment = q.segment
              /\ q.bdf \in RequestersOf(o)

(* An Ok answer is the one the whole table defines, over any mixture of    *)
(* units, segments, unresolved paths and repeated structures: the ids of   *)
(* all structures of a window or none of them, the match of the last unit, *)
(* the domain or name of the last RHSA or ANDD, and ATS required unless    *)
(* the table has a SIDP.                                                   *)
AnswersCorrect == \A q \in DOMAIN answers : answers[q] = Expected(q)

=============================================================================
