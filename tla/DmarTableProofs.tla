--------------------------- MODULE DmarTableProofs ---------------------------
(***************************************************************************)
(* Proofs about DmarTable: whatever bytes the firmware has written and     *)
(* whichever queries are made of the table, in any order, the walks stay   *)
(* inside the table and an Ok answer is the one the whole table defines.   *)
(***************************************************************************)
EXTENDS DmarTable, WellFoundedInduction, TLAPS

-----------------------------------------------------------------------------
(* Structures and scopes in a memory.                                      *)

(* The cells at E are laid end to end from `first` up to `front`; D may    *)
(* hold one more, at the front, which a walk has read and refused.         *)
Laid(m, D, E, first, front) ==
  /\ E \subseteq D /\ D \subseteq E \union {front}
  /\ first \in E \union {front}
  /\ \A p \in E : first <= p /\ p < front /\ p + m[p].length \in E \union {front}
  /\ \A p, q \in E : p < q => p + m[p].length <= q

(* The structures of the table s that DmarStructures and its parsers take. *)
Good(s) == {o \in DOMAIN s : StructureFits(o, s[o]) /\ Parses(s[o])}

(* The scopes t read in structure o, and those walk_device_scopes takes.   *)
Inner(s, t, o) == {p \in DOMAIN t : o < p /\ p < o + s[o].length}
GoodInner(s, t, o) == {p \in Inner(s, t, o) : ScopeFits(p - o, s[o].length, t[p])}
FirstScope(s, o) == o + MinLength[s[o].kind]

(* The requesters named at the places P.                                   *)
Named(t, P) == {Requester(t[p]) : p \in P}

-----------------------------------------------------------------------------
(* The inductive invariant.                                                *)

AccTyped(a) ==
  /\ a = [found |-> a.found, ranges |-> a.ranges, unresolved |-> a.unresolved,
          exact |-> a.exact, match |-> a.match, required |-> a.required, value |-> a.value]
  /\ a.found \in BOOLEAN /\ a.unresolved \in BOOLEAN
  /\ a.exact \in BOOLEAN /\ a.required \in BOOLEAN
  /\ a.ranges \subseteq Bdfs
  /\ a.match \in {None, "Covered", "NotCovered", "Unresolved"}

Typed ==
  /\ session \in Sessions
  /\ DOMAIN sdt \subseteq Nat
  /\ \A o \in DOMAIN sdt : sdt[o] \in Structures /\ o + HeaderLength <= TableLength
  /\ DOMAIN scopes \subseteq Nat /\ \A o \in DOMAIN scopes : scopes[o] \in Scopes
  /\ query \in Queries \union {NoQuery} /\ pass \in {1, 2}
  /\ offset \in Nat /\ scope \in Nat
  /\ AccTyped(acc)
  /\ errors \union DOMAIN answers \subseteq Queries

(* Between queries nothing is left of the last one.                        *)
Idle ==
  query = NoQuery =>
    pass = 1 /\ offset = 0 /\ structure = Nowhere /\ scope = 0 /\ acc = Fresh

(* The structure being walked is the last one the iterator has passed.     *)
Cursor ==
  structure # Nowhere =>
    /\ query # NoQuery /\ structure \in Good(sdt) /\ structure + length = offset
    /\ Walks(query, pass, sdt[structure])
    /\ MinLength[sdt[structure].kind] <= scope /\ scope <= length

(* The structures read are laid out from the start of the table, and the   *)
(* iterator is at one of them or at their end.  A query that has returned  *)
(* Ok, or begun its second walk, has read them all.                        *)
TableLaid ==
  \E front \in 0 .. TableLength :
    /\ Laid(sdt, DOMAIN sdt, Good(sdt), 0, front)
    /\ offset \in Good(sdt) \union {front}
    /\ DOMAIN answers # {} \/ pass = 2 => front = TableLength
    /\ \A p \in DOMAIN scopes : p < front

(* The walk that decides a query's answer: satc_device_ats_required has a  *)
(* second one unless the table has a SIDP.                                 *)
LastPass(s) == IF \E o \in DOMAIN s : s[o].kind = "SIDP" THEN 1 ELSE 2

Done == {o \in DOMAIN sdt : o < offset /\ o # structure}

(* The structures whose scopes an answer depends on.                       *)
Needed(o) ==
  \/ \E q \in DOMAIN answers : Walks(q, LastPass(sdt), sdt[o])
  \/ query # NoQuery /\ o \in Done /\ Walks(query, pass, sdt[o])

(* So are the scopes of each structure, to its end if an answer depends on *)
(* them.                                                                   *)
ScopesLaid ==
  \A o \in Good(sdt) : \E front \in 0 .. o + sdt[o].length :
    /\ Laid(scopes, Inner(sdt, scopes, o), GoodInner(sdt, scopes, o), FirstScope(sdt, o), front)
    /\ Needed(o) => front = o + sdt[o].length
    /\ o = structure => o + scope \in GoodInner(sdt, scopes, o) \union {front}

(* What a query has collected from the structures at `done`, from the      *)
(* table s with scopes t, and from the requesters `part` of the structure  *)
(* `at` it is in.                                                          *)
Walked(q, n, s, done) == {o \in done : Walks(q, n, s[o])}
AllOf(q, n, s, t, done) == UNION {Named(t, Inner(s, t, o)) : o \in Walked(q, n, s, done)}

UnitsIn(q, s, done) == {o \in done : s[o].kind = "DRHD" /\ s[o].window = q.window}

MatchIn(q, s, t, o) ==
  CASE s[o].segment # q.segment -> "NotCovered"
    [] s[o].segment = q.segment /\ (s[o].flag \/ q.bdf \in Named(t, Inner(s, t, o))) -> "Covered"
    [] OTHER -> IF NoBdf \in Named(t, Inner(s, t, o)) THEN "Unresolved" ELSE "NotCovered"

Union(q, n, s, t, done, at, part, a) ==
  LET all == AllOf(q, n, s, t, done) \union part
  IN /\ a.ranges = all \ {NoBdf}
     /\ a.unresolved <=> NoBdf \in all
     /\ ~a.found => all = {} /\ at = Nowhere

Matched(q, n, s, t, done, at, part, a) ==
  IF at = Nowhere
  THEN a.match = IF UnitsIn(q, s, done) = {} THEN None
                 ELSE MatchIn(q, s, t, Max(UnitsIn(q, s, done)))
  ELSE (a.exact <=> q.bdf \in part) /\ (a.unresolved <=> NoBdf \in part)

DomainsIn(q, s, done) == {o \in done : s[o].kind = "RHSA" /\ s[o].window = q.window}
NamesIn(q, s, done) == {o \in done : s[o].kind = "ANDD" /\ s[o].segment = q.number}

LastDomain(q, s, done, a) ==
  a.value = IF DomainsIn(q, s, done) = {} THEN <<>> ELSE <<s[Max(DomainsIn(q, s, done))].segment>>

LastName(q, s, done, a) ==
  a.value = IF NamesIn(q, s, done) = {} THEN <<>>
            ELSE LET o == Max(NamesIn(q, s, done))
                 IN <<o + MinLength["ANDD"], o + s[o].length>>

Required(q, n, s, t, done, part, a) ==
  /\ n = 1 => ~a.required /\ (a.found <=> \E o \in done : s[o].kind = "SIDP")
  /\ n = 2 => (a.required <=> q.bdf \in AllOf(q, n, s, t, done) \union part)

Collected(q, n, s, t, done, at, part, a) ==
  CASE Collects(q) -> Union(q, n, s, t, done, at, part, a)
    [] q.name = "drhd_requester_match" -> Matched(q, n, s, t, done, at, part, a)
    [] q.name = "rhsa_proximity_domain_for_registers" -> LastDomain(q, s, done, a)
    [] q.name = "andd_name_for_device_number" -> LastName(q, s, done, a)
    [] OTHER -> Required(q, n, s, t, done, part, a)

(* The requesters of the structure being walked, up to the cursor.         *)
Part ==
  IF structure = Nowhere THEN {}
  ELSE Named(scopes, {p \in Inner(sdt, scopes, structure) : p < structure + scope})

Collecting ==
  query # NoQuery =>
    /\ Collected(query, pass, sdt, scopes, Done, structure, Part, acc)
    /\ pass = 2 => /\ query.name = "satc_device_ats_required"
                   /\ \A o \in DOMAIN sdt : sdt[o].kind # "SIDP"

(* The answer the structures and scopes of a table define.                 *)
Value(q, s, t) ==
  CASE Collects(q) -> LET all == AllOf(q, LastPass(s), s, t, DOMAIN s)
                      IN IF NoBdf \in all THEN {} ELSE all
    [] q.name = "drhd_requester_match" ->
         IF UnitsIn(q, s, DOMAIN s) = {} THEN None
         ELSE MatchIn(q, s, t, Max(UnitsIn(q, s, DOMAIN s)))
    [] q.name = "rhsa_proximity_domain_for_registers" ->
         IF DomainsIn(q, s, DOMAIN s) = {} THEN <<>>
         ELSE <<s[Max(DomainsIn(q, s, DOMAIN s))].segment>>
    [] q.name = "andd_name_for_device_number" ->
         IF NamesIn(q, s, DOMAIN s) = {} THEN <<>>
         ELSE LET o == Max(NamesIn(q, s, DOMAIN s))
              IN <<o + MinLength["ANDD"], o + s[o].length>>
    [] OTHER -> LastPass(s) = 2 /\ q.bdf \in AllOf(q, 2, s, t, DOMAIN s)

Answered == \A q \in DOMAIN answers : answers[q] = Value(q, sdt, scopes)

DmarInv ==
  Typed /\ Idle /\ Cursor /\ TableLaid /\ ScopesLaid /\ Collecting /\ Answered

-----------------------------------------------------------------------------
(* Bytes.                                                                  *)

(* What is remembered, and where.                                          *)
LEMMA RememberFacts ==
  ASSUME NEW m, NEW at, NEW x
  PROVE  /\ DOMAIN Remember(m, at, x) = DOMAIN m \union {at}
         /\ Remember(m, at, x)[at] = x
         /\ \A o \in DOMAIN m : o # at => Remember(m, at, x)[o] = m[o]
  BY DEF Remember

(* A read is of what was read there before.                                *)
LEMMA ReadAgain ==
  ASSUME NEW m, NEW at, NEW fresh, NEW x \in Contents(m, at, fresh)
  PROVE  /\ \A o \in DOMAIN m : Remember(m, at, x)[o] = m[o]
         /\ at \notin DOMAIN m => x \in fresh
         /\ at \in DOMAIN m => x = m[at]
  <1>1. /\ at \notin DOMAIN m => x \in fresh
        /\ at \in DOMAIN m => x = m[at]
    BY DEF Contents
  <1>2. ASSUME NEW o \in DOMAIN m PROVE Remember(m, at, x)[o] = m[o]
    <2>1. CASE o = at
      BY <1>1, <2>1 DEF Remember
    <2>2. CASE o # at
      BY <2>2 DEF Remember
    <2>3. QED
      BY <2>1, <2>2
  <1>3. QED
    BY <1>1, <1>2

(* The header of a structure.                                              *)
LEMMA StructureFacts ==
  ASSUME session \in Sessions, NEW h \in Structures
  PROVE  h.kind \in AllKinds /\ h.length \in Nat /\ h.flag \in BOOLEAN
  <1> DEFINE F(k, n) == IF n < MinLength[k] THEN {<<AnySegment, None, FALSE>>} ELSE Fields(session, k)
             H(k, n) == {Header(k, n, f[1], f[2], f[3]) : f \in F(k, n)}
  <1>1. Structures = UNION {H(k, n) : k \in Kinds, n \in StructureLengths}
    BY DEF Structures, StructuresFor
  <1> HIDE DEF H
  <1>2. PICK k \in Kinds, n \in StructureLengths : h \in H(k, n)
    BY <1>1
  <1>3. PICK f \in F(k, n) : h = Header(k, n, f[1], f[2], f[3])
    BY <1>2 DEF H
  <1>4. f[3] \in BOOLEAN
    <2>1. CASE n < MinLength[k]
      <3>1. f = <<AnySegment, None, FALSE>>
        BY <1>3, <2>1
      <3>2. f[3] = FALSE
        BY <3>1
      <3>3. QED
        BY <3>2
    <2>2. CASE ~(n < MinLength[k])
      <3>1. f \in Fields(session, k)
        BY <1>3, <2>2
      <3>2. QED
        BY <3>1 DEF Fields
    <2>3. QED
      BY <2>1, <2>2
  <1>5. h.kind = k /\ h.length = n /\ h.flag = f[3]
    BY <1>3 DEF Header
  <1>6. QED
    BY <1>4, <1>5, LengthsAssumption

(* The requester of a scope is an id or none, and none is no id.           *)
LEMMA ScopeFacts ==
  ASSUME NEW s \in Scopes
  PROVE  s.length \in Nat /\ Requester(s) \in Bdfs \union {NoBdf}
  <1>1. s.length \in ScopeLengths
    BY DEF Scopes
  <1>2. Depth(s.length) = 1 => s.first \in Bdfs \union {NoBdf}
    BY DEF Scopes
  <1>3. QED
    BY <1>1, <1>2, LengthsAssumption DEF Requester

(* NoBdf is no id.                                                         *)
LEMMA NoBdfIsNone == NoBdf \notin Bdfs
  BY LengthsAssumption DEF Bdfs, NoBdf

(* A good structure lies in the table and holds its fixed part.            *)
LEMMA GoodFacts ==
  ASSUME Typed, NEW o \in Good(sdt)
  PROVE  /\ o \in DOMAIN sdt /\ o \in Nat /\ sdt[o] \in Structures
         /\ sdt[o].kind \in AllKinds /\ sdt[o].length \in Nat /\ sdt[o].flag \in BOOLEAN
         /\ MinLength[sdt[o].kind] \in Nat \ {0} /\ MinLength[sdt[o].kind] <= sdt[o].length
         /\ o + sdt[o].length <= TableLength /\ sdt[o].length > 0
  <1>1. o \in DOMAIN sdt /\ o \in Nat /\ sdt[o] \in Structures /\ session \in Sessions
    BY DEF Typed, Good
  <1>2. sdt[o].kind \in AllKinds /\ sdt[o].length \in Nat /\ sdt[o].flag \in BOOLEAN
    BY <1>1, StructureFacts
  <1>3. MinLength[sdt[o].kind] \in Nat \ {0}
    BY <1>2, LengthsAssumption
  <1>4. MinLength[sdt[o].kind] <= sdt[o].length /\ o + sdt[o].length <= TableLength
    BY <1>2, <1>3 DEF Good, StructureFits, Parses
  <1>5. QED
    BY <1>1, <1>2, <1>3, <1>4

-----------------------------------------------------------------------------
(* Cells laid end to end.                                                  *)

(* One more, at the front.                                                 *)
LEMMA LaidGrows ==
  ASSUME NEW m, NEW D \in SUBSET Nat, NEW E, NEW first \in Nat, NEW f \in Nat,
         Laid(m, D, E, first, f), \A p \in E : m[p].length \in Nat,
         NEW n, \A p \in E : n[p] = m[p], n[f].length \in Nat \ {0}
  PROVE  Laid(n, D \union {f}, E \union {f}, first, f + n[f].length)
  <1> DEFINE g == f + n[f].length
             F == E \union {f}
  <1>1. /\ E \subseteq D /\ D \subseteq E \union {f} /\ first \in E \union {f}
        /\ \A p \in E : first <= p /\ p < f /\ p + m[p].length \in E \union {f}
        /\ \A p, q \in E : p < q => p + m[p].length <= q
    BY DEF Laid
  <1>2. g \in Nat /\ f < g /\ \A p \in E : p \in Nat
    BY <1>1
  <1>3. first <= f
    BY <1>1, <1>2
  <1>4. \A p \in F : first <= p /\ p < g /\ p + n[p].length \in F \union {g}
    <2>1. ASSUME NEW p \in E PROVE first <= p /\ p < g /\ p + n[p].length \in F \union {g}
      BY <1>1, <1>2
    <2>2. first <= f /\ f < g /\ f + n[f].length \in F \union {g}
      BY <1>2, <1>3
    <2>3. QED
      BY <2>1, <2>2
  <1>5. ASSUME NEW p \in F, NEW q \in F, p < q PROVE p + n[p].length <= q
    <2>1. p \in E
      BY <1>1, <1>2, <1>5
    <2>2. CASE q \in E
      BY <1>1, <1>5, <2>1, <2>2
    <2>3. CASE q = f
      <3>1. p + n[p].length \in E \union {f}
        BY <1>1, <2>1
      <3>2. QED
        BY <1>1, <1>2, <2>3, <3>1
    <2>4. QED
      BY <2>2, <2>3
  <1>6. F \subseteq D \union {f} /\ D \union {f} \subseteq F \union {g} /\ first \in F \union {g}
    BY <1>1
  <1>7. QED
    BY <1>4, <1>5, <1>6 DEF Laid

(* One read at the front and refused.                                      *)
LEMMA LaidRefuses ==
  ASSUME NEW m, NEW D, NEW E, NEW first, NEW f, Laid(m, D, E, first, f),
         NEW n, \A p \in E : n[p] = m[p]
  PROVE  Laid(n, D \union {f}, E, first, f)
  BY DEF Laid

(* One read again.                                                         *)
LEMMA LaidAgain ==
  ASSUME NEW m, NEW D, NEW E, NEW first, NEW f, Laid(m, D, E, first, f),
         NEW n, \A p \in E : n[p] = m[p]
  PROVE  Laid(n, D, E, first, f)
  BY DEF Laid

-----------------------------------------------------------------------------
(* Greatest elements.                                                      *)

(* A non-empty set of naturals has a least element.                        *)
LEMMA LeastElement ==
  ASSUME NEW T \in SUBSET Nat, T # {}
  PROVE  \E x \in T : \A y \in T : x <= y
  <1>1. PICK x \in T : \A y \in T : ~(<<y, x>> \in OpToRel(<, Nat))
    BY NatLessThanWellFounded, WFMin
  <1>2. \A y \in T : ~(y < x)
    BY <1>1 DEF OpToRel
  <1>3. QED
    BY <1>2

(* A bounded non-empty set of naturals has a greatest element.             *)
LEMMA GreatestElement ==
  ASSUME NEW n \in Nat, NEW S \in SUBSET (0 .. n), S # {}
  PROVE  Max(S) \in S /\ \A y \in S : y <= Max(S)
  <1> DEFINE T == {n - x : x \in S}
  <1>1. T \in SUBSET Nat
    <2>1. \A x \in S : n - x \in Nat
      OBVIOUS
    <2>2. QED
      BY <2>1
  <1>2. T # {}
    <2>1. PICK x : x \in S
      OBVIOUS
    <2>2. n - x \in T
      BY <2>1
    <2>3. QED
      BY <2>2
  <1>3. PICK t \in T : \A y \in T : t <= y
    BY <1>1, <1>2, LeastElement
  <1>4. PICK x \in S : t = n - x
    BY <1>3
  <1>5. \A y \in S : n - y \in T
    OBVIOUS
  <1>6. \A y \in S : x >= y
    BY <1>3, <1>4, <1>5
  <1>7. Max(S) \in S /\ \A y \in S : Max(S) >= y
    BY <1>6 DEF Max
  <1>8. QED
    BY <1>7

(* The greatest of a set and of something above it.                        *)
LEMMA MaxAdded ==
  ASSUME NEW S \in SUBSET Nat, NEW c \in Nat, \A x \in S : x < c
  PROVE  Max(S \union {c}) = c
  <1> DEFINE T == S \union {c}
  <1>1. c \in T /\ \A y \in T : c >= y
    OBVIOUS
  <1>2. Max(T) \in T /\ \A y \in T : Max(T) >= y
    BY <1>1 DEF Max
  <1> DEFINE x == Max(T)
  <1> HIDE DEF x
  <1>3. x \in T /\ x >= c
    BY <1>1, <1>2 DEF x
  <1>4. x = c
    BY <1>3
  <1>5. QED
    BY <1>4 DEF x

-----------------------------------------------------------------------------
(* What a query collects.                                                  *)

(* The queries that look at scopes, and the structures they look into.     *)
LEMMA WalkersAre ==
  ASSUME NEW q \in Queries, NEW n, NEW h, Walks(q, n, h)
  PROVE  /\ Selects(q, n, h)
         /\ q.name \in {"drhd_bdf_ranges", "rmrr_bdf_ranges", "drhd_requester_match",
                        "satc_device_ats_required"}
         /\ q.name = "satc_device_ats_required" => n = 2
         /\ q.name = "drhd_requester_match" =>
              /\ h.kind = "DRHD" /\ h.window = q.window
              /\ ~h.flag /\ h.segment = q.segment
  <1>1. Selects(q, n, h) /\ q.name \in QueryNames /\ h.kind \in Visits(q)
    BY SessionsAssumption DEF Walks, Selects
  <1>2. CASE q.name = "drhd_bdf_ranges"
    BY <1>1, <1>2
  <1>3. CASE q.name = "rmrr_bdf_ranges"
    BY <1>1, <1>3
  <1>4. CASE q.name = "drhd_requester_match"
    <2>1. h.kind = "DRHD"
      BY <1>1, <1>4 DEF Visits
    <2>2. h.window = q.window /\ ~h.flag /\ h.segment = q.segment
      BY <1>4, <2>1 DEF Walks, Selects
    <2>3. QED
      BY <1>1, <1>4, <2>1, <2>2
  <1>5. CASE q.name = "satc_device_ats_required"
    <2>1. h.kind = "SATC"
      BY <1>1, <1>5 DEF Visits, Walks
    <2>2. n = 2
      BY <2>1 DEF Walks, Selects
    <2>3. QED
      BY <1>1, <1>5, <2>2
  <1>6. CASE q.name = "rhsa_proximity_domain_for_registers"
    <2>1. h.kind = "RHSA"
      BY <1>1, <1>6 DEF Visits
    <2>2. QED
      BY <1>6, <2>1 DEF Walks
  <1>7. CASE q.name = "andd_name_for_device_number"
    <2>1. h.kind = "ANDD"
      BY <1>1, <1>7 DEF Visits
    <2>2. QED
      BY <1>7, <2>1 DEF Walks
  <1>8. QED
    BY <1>1, <1>2, <1>3, <1>4, <1>5, <1>6, <1>7 DEF QueryNames

(* Only satc_device_ats_required tells its walks apart.                    *)
LEMMA SameWalk ==
  ASSUME NEW q \in Queries, q.name # "satc_device_ats_required", NEW n, NEW k, NEW h
  PROVE  Walks(q, n, h) <=> Walks(q, k, h)
  <1>1. q.name \in QueryNames
    BY SessionsAssumption
  <1>2. h.kind \in Visits(q) => h.kind \notin {"SATC", "SIDP"}
    BY <1>1 DEF QueryNames, Visits
  <1>3. Selects(q, n, h) <=> Selects(q, k, h)
    BY <1>2 DEF Selects
  <1>4. QED
    BY <1>3 DEF Walks

(* What the structures passed have given does not change with the table    *)
(* behind them.                                                            *)
LEMMA AllOfSame ==
  ASSUME NEW q, NEW n, NEW done, NEW s, NEW t, NEW s2, NEW t2,
         \A o \in done : s2[o] = s[o],
         \A o \in done : Walks(q, n, s[o]) =>
           Inner(s2, t2, o) = Inner(s, t, o) /\ \A p \in Inner(s, t, o) : t2[p] = t[p]
  PROVE  AllOf(q, n, s2, t2, done) = AllOf(q, n, s, t, done)
  <1>1. Walked(q, n, s2, done) = Walked(q, n, s, done)
    BY DEF Walked
  <1>2. ASSUME NEW o \in Walked(q, n, s, done)
        PROVE  Named(t2, Inner(s2, t2, o)) = Named(t, Inner(s, t, o))
    BY DEF Walked, Named
  <1>3. QED
    BY <1>1, <1>2 DEF AllOf

(* A structure that has been walked adds its requesters.                   *)
LEMMA AllOfMore ==
  ASSUME NEW q, NEW n, NEW done, NEW s, NEW t, NEW c, Walks(q, n, s[c])
  PROVE  AllOf(q, n, s, t, done \union {c}) =
           AllOf(q, n, s, t, done) \union Named(t, Inner(s, t, c))
  <1>1. Walked(q, n, s, done \union {c}) = Walked(q, n, s, done) \union {c}
    BY DEF Walked
  <1>2. QED
    BY <1>1 DEF AllOf

(* One that has not adds none.                                             *)
LEMMA AllOfPassed ==
  ASSUME NEW q, NEW n, NEW done, NEW s, NEW t, NEW c, ~Walks(q, n, s[c])
  PROVE  AllOf(q, n, s, t, done \union {c}) = AllOf(q, n, s, t, done)
  <1>1. Walked(q, n, s, done \union {c}) = Walked(q, n, s, done)
    BY DEF Walked
  <1>2. QED
    BY <1>1 DEF AllOf

(* What a table answers depends on its structures and on the scopes of     *)
(* those the query walks.                                                  *)
LEMMA ValueSame ==
  ASSUME NEW q \in Queries, NEW s, NEW t, NEW s2, NEW t2, DOMAIN s \subseteq 0 .. TableLength,
         DOMAIN s2 = DOMAIN s, \A o \in DOMAIN s : s2[o] = s[o],
         \A o \in DOMAIN s : Walks(q, LastPass(s), s[o]) =>
           Inner(s2, t2, o) = Inner(s, t, o) /\ \A p \in Inner(s, t, o) : t2[p] = t[p]
  PROVE  Value(q, s2, t2) = Value(q, s, t)
  <1>1. LastPass(s2) = LastPass(s)
    BY DEF LastPass
  <1>2. AllOf(q, LastPass(s), s2, t2, DOMAIN s) = AllOf(q, LastPass(s), s, t, DOMAIN s)
    BY AllOfSame
  <1>3. /\ UnitsIn(q, s2, DOMAIN s) = UnitsIn(q, s, DOMAIN s)
        /\ DomainsIn(q, s2, DOMAIN s) = DomainsIn(q, s, DOMAIN s)
        /\ NamesIn(q, s2, DOMAIN s) = NamesIn(q, s, DOMAIN s)
    BY DEF UnitsIn, DomainsIn, NamesIn
  <1>4. q.name \in QueryNames
    BY SessionsAssumption
  <1>5. CASE Collects(q)
    <2>1. AllOf(q, LastPass(s2), s2, t2, DOMAIN s2) = AllOf(q, LastPass(s), s, t, DOMAIN s)
      BY <1>1, <1>2
    <2>2. QED
      BY <1>5, <2>1 DEF Value, Collects
  <1>6. CASE q.name = "drhd_requester_match"
    <2> DEFINE U == UnitsIn(q, s, DOMAIN s)
               o == Max(U)
    <2>1. ASSUME NEW x \in U PROVE MatchIn(q, s2, t2, x) = MatchIn(q, s, t, x)
      <3>1. x \in DOMAIN s /\ s2[x] = s[x] /\ s[x].kind = "DRHD" /\ s[x].window = q.window
        BY DEF UnitsIn
      <3>2. CASE s[x].segment = q.segment /\ ~s[x].flag
        <4>1. Selects(q, LastPass(s), s[x])
          BY <1>6, <3>1 DEF Selects, Visits
        <4>2. Walks(q, LastPass(s), s[x])
          BY <1>6, <3>2, <4>1 DEF Walks
        <4>3. Named(t2, Inner(s2, t2, x)) = Named(t, Inner(s, t, x))
          BY <3>1, <4>2 DEF Named
        <4>4. QED
          BY <3>1, <4>3 DEF MatchIn
      <3>3. CASE ~(s[x].segment = q.segment /\ ~s[x].flag)
        BY <3>1, <3>3 DEF MatchIn
      <3>4. QED
        BY <3>2, <3>3
    <2>2. CASE U = {}
      BY <1>3, <1>6, <2>2 DEF Value, Collects
    <2>3. CASE U # {}
      <3>1. U \in SUBSET (0 .. TableLength) /\ TableLength \in Nat
        BY LengthsAssumption DEF UnitsIn
      <3>2. o \in U
        BY <2>3, <3>1, GreatestElement
      <3>3. QED
        BY <1>3, <1>6, <2>1, <2>3, <3>2 DEF Value, Collects
    <2>4. QED
      BY <2>2, <2>3
  <1>7. CASE q.name = "satc_device_ats_required"
    BY <1>1, <1>2, <1>7 DEF Value, Collects
  <1>8. CASE q.name = "rhsa_proximity_domain_for_registers"
    <2> DEFINE U == DomainsIn(q, s, DOMAIN s)
    <2>1. U = {} \/ Max(U) \in U
      <3>1. U \in SUBSET (0 .. TableLength) /\ TableLength \in Nat
        BY LengthsAssumption DEF DomainsIn
      <3>2. QED
        BY <3>1, GreatestElement
    <2>2. U = {} \/ s2[Max(U)] = s[Max(U)]
      BY <2>1 DEF DomainsIn
    <2>3. DomainsIn(q, s2, DOMAIN s2) = U
      BY <1>3
    <2> HIDE DEF U
    <2>4. QED
      BY <1>8, <2>2, <2>3 DEF Value, Collects, U
  <1>9. CASE q.name = "andd_name_for_device_number"
    <2> DEFINE U == NamesIn(q, s, DOMAIN s)
    <2>1. U = {} \/ Max(U) \in U
      <3>1. U \in SUBSET (0 .. TableLength) /\ TableLength \in Nat
        BY LengthsAssumption DEF NamesIn
      <3>2. QED
        BY <3>1, GreatestElement
    <2>2. U = {} \/ s2[Max(U)] = s[Max(U)]
      BY <2>1 DEF NamesIn
    <2>3. NamesIn(q, s2, DOMAIN s2) = U
      BY <1>3
    <2> HIDE DEF U
    <2>4. QED
      BY <1>9, <2>2, <2>3 DEF Value, Collects, U
  <1>10. QED
    BY <1>4, <1>5, <1>6, <1>7, <1>8, <1>9 DEF QueryNames, Collects

-----------------------------------------------------------------------------
(* A structure passed: done grows by it, or its scopes are next.           *)

(* What the closure does with a structure, field by field.                 *)
LEMMA OnStructureFields ==
  ASSUME NEW q \in Queries, NEW n, NEW c, NEW h, NEW a, AccTyped(a), h.flag \in BOOLEAN,
         Selects(q, n, h), NEW b, b = OnStructure(q, c, h, a)
  PROVE  /\ AccTyped(b)
         /\ Collects(q) => b.found /\ b.ranges = a.ranges /\ b.unresolved = a.unresolved
         /\ q.name = "drhd_requester_match" =>
              /\ ~b.exact /\ ~b.unresolved
              /\ h.segment # q.segment => b.match = "NotCovered"
              /\ h.segment = q.segment /\ h.flag => b.match = "Covered"
         /\ q.name = "rhsa_proximity_domain_for_registers" => b.value = <<h.segment>>
         /\ q.name = "andd_name_for_device_number" =>
              b.value = <<c + MinLength["ANDD"], c + h.length>>
         /\ q.name = "satc_device_ats_required" => b.found /\ b.required = a.required
  <1> USE DEF AccTyped
  <1>1. q.name \in QueryNames /\ h.kind \in Visits(q)
    BY SessionsAssumption DEF Selects
  <1>2. CASE q.name = "drhd_requester_match"
    <2>1. h.kind \notin {"RHSA", "ANDD"}
      BY <1>1, <1>2 DEF Visits
    <2>2. CASE h.segment # q.segment
      <3>1. b = [a EXCEPT !.exact = FALSE, !.unresolved = FALSE, !.match = "NotCovered"]
        BY <1>2, <2>1, <2>2 DEF OnStructure
      <3>2. QED
        BY <1>2, <2>2, <3>1 DEF Collects
    <2>3. CASE h.segment = q.segment /\ h.flag
      <3>1. b = [a EXCEPT !.exact = FALSE, !.unresolved = FALSE, !.match = "Covered"]
        BY <1>2, <2>1, <2>3 DEF OnStructure
      <3>2. QED
        BY <1>2, <2>3, <3>1 DEF Collects
    <2>4. CASE h.segment = q.segment /\ ~h.flag
      <3>1. b = [a EXCEPT !.exact = FALSE, !.unresolved = FALSE]
        BY <1>2, <2>1, <2>4 DEF OnStructure
      <3>2. QED
        BY <1>2, <2>4, <3>1 DEF Collects
    <2>5. QED
      BY <2>2, <2>3, <2>4
  <1>3. CASE q.name = "rhsa_proximity_domain_for_registers"
    <2>1. h.kind = "RHSA"
      BY <1>1, <1>3 DEF Visits
    <2>2. b = [a EXCEPT !.value = <<h.segment>>]
      BY <1>3, <2>1 DEF OnStructure
    <2>3. QED
      BY <1>3, <2>2 DEF Collects
  <1>4. CASE q.name = "andd_name_for_device_number"
    <2>1. h.kind = "ANDD"
      BY <1>1, <1>4 DEF Visits
    <2>2. b = [a EXCEPT !.value = <<c + MinLength["ANDD"], c + h.length>>]
      BY <1>4, <2>1 DEF OnStructure
    <2>3. QED
      BY <1>4, <2>2 DEF Collects
  <1>5. CASE q.name \in {"drhd_bdf_ranges", "rmrr_bdf_ranges", "satc_device_ats_required"}
    <2>1. h.kind \notin {"RHSA", "ANDD"}
      BY <1>1, <1>5 DEF Visits
    <2>2. b = [a EXCEPT !.found = TRUE]
      BY <1>5, <2>1 DEF OnStructure
    <2>3. QED
      BY <1>5, <2>2 DEF Collects
  <1>6. QED
    BY <1>1, <1>2, <1>3, <1>4, <1>5 DEF QueryNames

(* What a query takes of a structure at c, as its code does.               *)
Took(q, n, c, h, a) == IF Selects(q, n, h) THEN OnStructure(q, c, h, a) ELSE a

(* The union of requesters: a structure adds its own later, or none.       *)
LEMMA UnionPasses ==
  ASSUME NEW q \in Queries, NEW n, NEW s, NEW s2, NEW t, NEW done \in SUBSET Nat, NEW c \in Nat,
         \A o \in done : s2[o] = s[o] /\ o < c, s2[c].flag \in BOOLEAN,
         NEW a, AccTyped(a), Collects(q), Union(q, n, s, t, done, Nowhere, {}, a)
  PROVE  LET b == Took(q, n, c, s2[c], a)
         IN /\ Walks(q, n, s2[c]) => Union(q, n, s2, t, done, c, {}, b)
            /\ ~Walks(q, n, s2[c]) => Union(q, n, s2, t, done \union {c}, Nowhere, {}, b)
  <1> DEFINE h == s2[c]
             b == Took(q, n, c, h, a)
             all == AllOf(q, n, s, t, done)
  <1>1. AllOf(q, n, s2, t, done) = all
    BY AllOfSame DEF Inner
  <1>2. ~Walks(q, n, h) => AllOf(q, n, s2, t, done \union {c}) = all
    BY <1>1, AllOfPassed
  <1>3. a.ranges = all \ {NoBdf} /\ (a.unresolved <=> NoBdf \in all) /\ (~a.found => all = {})
    BY DEF Union
  <1> HIDE DEF all
  <1>4. b.ranges = a.ranges /\ b.unresolved = a.unresolved /\ (a.found => b.found)
        /\ (Walks(q, n, h) => b.found)
    <2>1. CASE Selects(q, n, h)
      BY <2>1, OnStructureFields DEF Took
    <2>2. CASE ~Selects(q, n, h)
      BY <2>2 DEF Took, Walks
    <2>3. QED
      BY <2>1, <2>2
  <1> HIDE DEF b, h
  <1>5. Walks(q, n, h) => Union(q, n, s2, t, done, c, {}, b)
    BY <1>1, <1>3, <1>4 DEF Union
  <1>6. ~Walks(q, n, h) => Union(q, n, s2, t, done \union {c}, Nowhere, {}, b)
    BY <1>2, <1>3, <1>4 DEF Union
  <1>7. QED
    BY <1>5, <1>6 DEF b, h

(* The match: that of the last unit, known at once if it covers all        *)
(* devices or is of another segment.                                       *)
LEMMA MatchPasses ==
  ASSUME NEW q \in Queries, NEW n, NEW s, NEW s2, NEW t, NEW done \in SUBSET Nat, NEW c \in Nat,
         done \subseteq 0 .. TableLength,
         \A o \in done : s2[o] = s[o] /\ o < c, s2[c].flag \in BOOLEAN,
         NEW a, AccTyped(a), q.name = "drhd_requester_match",
         Matched(q, n, s, t, done, Nowhere, {}, a)
  PROVE  LET b == Took(q, n, c, s2[c], a)
         IN /\ Walks(q, n, s2[c]) => Matched(q, n, s2, t, done, c, {}, b)
            /\ ~Walks(q, n, s2[c]) => Matched(q, n, s2, t, done \union {c}, Nowhere, {}, b)
  <1> DEFINE h == s2[c]
             b == Took(q, n, c, h, a)
             U == UnitsIn(q, s, done)
  <1>1. a.match = IF U = {} THEN None ELSE MatchIn(q, s, t, Max(U))
    BY DEF Matched
  <1>2. Selects(q, n, h) <=> h.kind = "DRHD" /\ h.window = q.window
    BY DEF Selects, Visits
  <1>3. Walks(q, n, h) <=> Selects(q, n, h) /\ ~h.flag /\ h.segment = q.segment
    BY DEF Walks
  <1>4. UnitsIn(q, s2, done \union {c}) = IF Selects(q, n, h) THEN U \union {c} ELSE U
    BY <1>2 DEF UnitsIn
  <1>5. CASE ~Selects(q, n, h)
    <2>1. b = a /\ ~Walks(q, n, h) /\ UnitsIn(q, s2, done \union {c}) = U
      BY <1>3, <1>4, <1>5 DEF Took
    <2>2. U # {} => MatchIn(q, s2, t, Max(U)) = MatchIn(q, s, t, Max(U))
      <3>1. U \in SUBSET (0 .. TableLength) /\ TableLength \in Nat
        BY LengthsAssumption DEF UnitsIn
      <3>2. U # {} => Max(U) \in U
        BY <3>1, GreatestElement
      <3>3. U # {} => s2[Max(U)] = s[Max(U)]
        BY <3>2 DEF UnitsIn
      <3> HIDE DEF U
      <3>4. QED
        BY <3>3 DEF MatchIn, Inner
    <2> HIDE DEF U
    <2>3. Matched(q, n, s2, t, done \union {c}, Nowhere, {}, b)
      BY <1>1, <2>1, <2>2 DEF Matched
    <2>4. QED
      BY <2>1, <2>3
  <1>6. CASE Walks(q, n, h)
    <2>1. ~b.exact /\ ~b.unresolved /\ AccTyped(b)
      BY <1>3, <1>6, OnStructureFields DEF Took
    <2>2. c # Nowhere
      BY DEF Nowhere
    <2> HIDE DEF b
    <2>3. Matched(q, n, s2, t, done, c, {}, b)
      BY <2>1, <2>2 DEF Matched
    <2>4. QED
      BY <1>6, <2>3 DEF b
  <1>7. CASE Selects(q, n, h) /\ ~Walks(q, n, h)
    <2>1. /\ h.segment # q.segment => b.match = "NotCovered"
          /\ h.segment = q.segment /\ h.flag => b.match = "Covered"
      BY <1>7, OnStructureFields DEF Took
    <2>2. b.match = MatchIn(q, s2, t, c)
      BY <1>3, <1>7, <2>1 DEF MatchIn
    <2>3. Max(U \union {c}) = c
      <3>1. U \in SUBSET Nat /\ \A x \in U : x < c
        BY DEF UnitsIn
      <3>2. QED
        BY <3>1, MaxAdded
    <2>4. UnitsIn(q, s2, done \union {c}) = U \union {c} /\ U \union {c} # {}
      BY <1>4, <1>7
    <2> HIDE DEF b, U
    <2>5. Matched(q, n, s2, t, done \union {c}, Nowhere, {}, b)
      BY <2>2, <2>3, <2>4 DEF Matched
    <2>6. QED
      BY <1>7, <2>5 DEF b
  <1>8. QED
    BY <1>3, <1>5, <1>6, <1>7

(* The proximity domain: that of the last RHSA.                            *)
LEMMA DomainPasses ==
  ASSUME NEW q \in Queries, NEW n, NEW s, NEW s2, NEW done, NEW c \in Nat,
         done \subseteq 0 .. TableLength,
         \A o \in done : s2[o] = s[o] /\ o < c, s2[c].flag \in BOOLEAN,
         NEW a, AccTyped(a), q.name = "rhsa_proximity_domain_for_registers",
         LastDomain(q, s, done, a)
  PROVE  LastDomain(q, s2, done \union {c}, Took(q, n, c, s2[c], a))
  <1> DEFINE h == s2[c]
             b == Took(q, n, c, h, a)
             U == DomainsIn(q, s, done)
  <1>1. a.value = IF U = {} THEN <<>> ELSE <<s[Max(U)].segment>>
    BY DEF LastDomain
  <1>2. Selects(q, n, h) <=> h.kind = "RHSA" /\ h.window = q.window
    BY DEF Selects, Visits
  <1>3. DomainsIn(q, s2, done \union {c}) = IF Selects(q, n, h) THEN U \union {c} ELSE U
    BY <1>2 DEF DomainsIn
  <1>4. U \in SUBSET (0 .. TableLength) /\ TableLength \in Nat
    BY LengthsAssumption DEF DomainsIn
  <1>5. CASE ~Selects(q, n, h)
    <2>1. b = a /\ DomainsIn(q, s2, done \union {c}) = U
      BY <1>3, <1>5 DEF Took
    <2>2. U # {} => s2[Max(U)] = s[Max(U)]
      <3>1. U # {} => Max(U) \in U
        BY <1>4, GreatestElement
      <3>2. QED
        BY <3>1 DEF DomainsIn
    <2> HIDE DEF U, b
    <2>3. QED
      BY <1>1, <2>1, <2>2 DEF LastDomain, b
  <1>6. CASE Selects(q, n, h)
    <2>1. b.value = <<h.segment>>
      BY <1>6, OnStructureFields DEF Took
    <2>2. Max(U \union {c}) = c
      <3>1. U \in SUBSET Nat /\ \A x \in U : x < c
        BY <1>4 DEF DomainsIn
      <3>2. QED
        BY <3>1, MaxAdded
    <2>3. DomainsIn(q, s2, done \union {c}) = U \union {c} /\ U \union {c} # {}
      BY <1>3, <1>6
    <2> HIDE DEF U, b
    <2>4. QED
      BY <2>1, <2>2, <2>3 DEF LastDomain, b
  <1>7. QED
    BY <1>5, <1>6

(* The name: that of the last ANDD.                                        *)
LEMMA NamePasses ==
  ASSUME NEW q \in Queries, NEW n, NEW s, NEW s2, NEW done, NEW c \in Nat,
         done \subseteq 0 .. TableLength,
         \A o \in done : s2[o] = s[o] /\ o < c, s2[c].flag \in BOOLEAN,
         NEW a, AccTyped(a), q.name = "andd_name_for_device_number",
         LastName(q, s, done, a)
  PROVE  LastName(q, s2, done \union {c}, Took(q, n, c, s2[c], a))
  <1> DEFINE h == s2[c]
             b == Took(q, n, c, h, a)
             U == NamesIn(q, s, done)
  <1>1. a.value = IF U = {} THEN <<>> ELSE <<Max(U) + MinLength["ANDD"], Max(U) + s[Max(U)].length>>
    BY DEF LastName
  <1>2. Selects(q, n, h) <=> h.kind = "ANDD" /\ h.segment = q.number
    BY DEF Selects, Visits
  <1>3. NamesIn(q, s2, done \union {c}) = IF Selects(q, n, h) THEN U \union {c} ELSE U
    BY <1>2 DEF NamesIn
  <1>4. U \in SUBSET (0 .. TableLength) /\ TableLength \in Nat
    BY LengthsAssumption DEF NamesIn
  <1>5. CASE ~Selects(q, n, h)
    <2>1. b = a /\ NamesIn(q, s2, done \union {c}) = U
      BY <1>3, <1>5 DEF Took
    <2>2. U # {} => s2[Max(U)] = s[Max(U)]
      <3>1. U # {} => Max(U) \in U
        BY <1>4, GreatestElement
      <3>2. QED
        BY <3>1 DEF NamesIn
    <2> HIDE DEF U, b
    <2>3. QED
      BY <1>1, <2>1, <2>2 DEF LastName, b
  <1>6. CASE Selects(q, n, h)
    <2>1. b.value = <<c + MinLength["ANDD"], c + h.length>>
      BY <1>6, OnStructureFields DEF Took
    <2>2. Max(U \union {c}) = c
      <3>1. U \in SUBSET Nat /\ \A x \in U : x < c
        BY <1>4 DEF NamesIn
      <3>2. QED
        BY <3>1, MaxAdded
    <2>3. NamesIn(q, s2, done \union {c}) = U \union {c} /\ U \union {c} # {}
      BY <1>3, <1>6
    <2> HIDE DEF U, b
    <2>4. QED
      BY <2>1, <2>2, <2>3 DEF LastName, b
  <1>7. QED
    BY <1>5, <1>6

(* The first walk of satc_device_ats_required looks for a SIDP; the second *)
(* one collects requesters.                                                *)
LEMMA RequiredPasses ==
  ASSUME NEW q \in Queries, NEW n \in {1, 2}, NEW s, NEW s2, NEW t,
         NEW done \in SUBSET Nat, NEW c \in Nat,
         \A o \in done : s2[o] = s[o] /\ o < c, s2[c].flag \in BOOLEAN,
         NEW a, AccTyped(a), q.name = "satc_device_ats_required",
         Required(q, n, s, t, done, {}, a)
  PROVE  LET b == Took(q, n, c, s2[c], a)
         IN /\ Walks(q, n, s2[c]) => Required(q, n, s2, t, done, {}, b)
            /\ ~Walks(q, n, s2[c]) => Required(q, n, s2, t, done \union {c}, {}, b)
  <1> DEFINE h == s2[c]
             b == Took(q, n, c, h, a)
             all == AllOf(q, n, s, t, done)
  <1>1. AllOf(q, n, s2, t, done) = all
    BY AllOfSame DEF Inner
  <1>2. ~Walks(q, n, h) => AllOf(q, n, s2, t, done \union {c}) = all
    BY <1>1, AllOfPassed
  <1>3. /\ n = 1 => ~a.required /\ (a.found <=> \E o \in done : s[o].kind = "SIDP")
        /\ n = 2 => (a.required <=> q.bdf \in all)
    BY DEF Required
  <1>4. b.required = a.required /\ (b.found <=> a.found \/ Selects(q, n, h))
    <2>1. CASE Selects(q, n, h)
      BY <2>1, OnStructureFields DEF Took
    <2>2. CASE ~Selects(q, n, h)
      BY <2>2 DEF Took
    <2>3. QED
      BY <2>1, <2>2
  <1>5. n = 1 => ~Walks(q, n, h) /\ (Selects(q, n, h) <=> h.kind = "SIDP")
    <2>1. h.kind \in Visits(q) <=> h.kind \in {"SATC", "SIDP"}
      BY DEF Visits
    <2>2. ASSUME n = 1 PROVE Selects(q, n, h) <=> h.kind = "SIDP"
      <3>1. h.kind = "SIDP" => Selects(q, n, h)
        BY <2>1, <2>2 DEF Selects
      <3>2. h.kind = "SATC" => ~Selects(q, n, h)
        BY <2>2 DEF Selects
      <3>3. h.kind \notin {"SATC", "SIDP"} => ~Selects(q, n, h)
        BY <2>1 DEF Selects
      <3>4. QED
        BY <3>1, <3>2, <3>3
    <2>3. QED
      BY <2>2 DEF Walks
  <1>6. (\E o \in done \union {c} : s2[o].kind = "SIDP") <=>
          (\E o \in done : s[o].kind = "SIDP") \/ h.kind = "SIDP"
    OBVIOUS
  <1> HIDE DEF b, h, all
  <1>7. CASE n = 1
    <2>1. ~Walks(q, n, h) /\ ~b.required /\ (b.found <=> \E o \in done \union {c} : s2[o].kind = "SIDP")
      BY <1>3, <1>4, <1>5, <1>6, <1>7
    <2>2. Required(q, n, s2, t, done \union {c}, {}, b)
      BY <1>7, <2>1 DEF Required
    <2>3. QED
      BY <2>1, <2>2 DEF b, h
  <1>8. CASE n = 2
    <2>1. Walks(q, n, h) => Required(q, n, s2, t, done, {}, b)
      BY <1>1, <1>3, <1>4, <1>8 DEF Required
    <2>2. ~Walks(q, n, h) => Required(q, n, s2, t, done \union {c}, {}, b)
      BY <1>2, <1>3, <1>4, <1>8 DEF Required
    <2>3. QED
      BY <2>1, <2>2 DEF b, h
  <1>9. QED
    BY <1>7, <1>8

(* Whatever the query.                                                     *)
LEMMA CollectStructure ==
  ASSUME NEW q \in Queries, NEW n \in {1, 2}, NEW s, NEW s2, NEW t,
         NEW done, done \subseteq 0 .. TableLength, NEW c \in Nat,
         \A o \in done : s2[o] = s[o] /\ o < c, s2[c].flag \in BOOLEAN,
         NEW a, AccTyped(a), Collected(q, n, s, t, done, Nowhere, {}, a)
  PROVE  LET b == Took(q, n, c, s2[c], a)
         IN /\ AccTyped(b)
            /\ Walks(q, n, s2[c]) => Collected(q, n, s2, t, done, c, {}, b)
            /\ ~Walks(q, n, s2[c]) => Collected(q, n, s2, t, done \union {c}, Nowhere, {}, b)
  <1> DEFINE h == s2[c]
             b == Took(q, n, c, h, a)
  <1>1. AccTyped(b)
    <2>1. CASE Selects(q, n, h)
      BY <2>1, OnStructureFields DEF Took
    <2>2. CASE ~Selects(q, n, h)
      BY <2>2 DEF Took
    <2>3. QED
      BY <2>1, <2>2
  <1>2. q.name \in QueryNames /\ done \in SUBSET Nat
    BY SessionsAssumption, LengthsAssumption
  <1> HIDE DEF b, h
  <1>3. CASE Collects(q)
    <2>1. Union(q, n, s, t, done, Nowhere, {}, a)
      BY <1>3 DEF Collected, Collects
    <2>2. /\ Walks(q, n, h) => Union(q, n, s2, t, done, c, {}, b)
          /\ ~Walks(q, n, h) => Union(q, n, s2, t, done \union {c}, Nowhere, {}, b)
      BY <1>2, <1>3, <2>1, UnionPasses DEF b, h
    <2>3. /\ Walks(q, n, h) => Collected(q, n, s2, t, done, c, {}, b)
          /\ ~Walks(q, n, h) => Collected(q, n, s2, t, done \union {c}, Nowhere, {}, b)
      BY <1>3, <2>2 DEF Collected, Collects
    <2>4. QED
      BY <1>1, <2>3 DEF b, h
  <1>4. CASE q.name = "drhd_requester_match"
    <2>1. Matched(q, n, s, t, done, Nowhere, {}, a)
      BY <1>4 DEF Collected, Collects
    <2>2. /\ Walks(q, n, h) => Matched(q, n, s2, t, done, c, {}, b)
          /\ ~Walks(q, n, h) => Matched(q, n, s2, t, done \union {c}, Nowhere, {}, b)
      BY <1>2, <1>4, <2>1, MatchPasses DEF b, h
    <2>3. /\ Walks(q, n, h) => Collected(q, n, s2, t, done, c, {}, b)
          /\ ~Walks(q, n, h) => Collected(q, n, s2, t, done \union {c}, Nowhere, {}, b)
      BY <1>4, <2>2 DEF Collected, Collects
    <2>4. QED
      BY <1>1, <2>3 DEF b, h
  <1>5. CASE q.name = "rhsa_proximity_domain_for_registers"
    <2>1. LastDomain(q, s, done, a)
      BY <1>5 DEF Collected, Collects
    <2>2. LastDomain(q, s2, done \union {c}, b)
      BY <1>5, <2>1, DomainPasses DEF b, h
    <2>3. ~Walks(q, n, h)
      BY <1>5, WalkersAre
    <2>4. Collected(q, n, s2, t, done \union {c}, Nowhere, {}, b)
      BY <1>5, <2>2 DEF Collected, Collects
    <2>5. QED
      BY <1>1, <2>3, <2>4 DEF b, h
  <1>6. CASE q.name = "andd_name_for_device_number"
    <2>1. LastName(q, s, done, a)
      BY <1>6 DEF Collected, Collects
    <2>2. LastName(q, s2, done \union {c}, b)
      BY <1>6, <2>1, NamePasses DEF b, h
    <2>3. ~Walks(q, n, h)
      BY <1>6, WalkersAre
    <2>4. Collected(q, n, s2, t, done \union {c}, Nowhere, {}, b)
      BY <1>6, <2>2 DEF Collected, Collects
    <2>5. QED
      BY <1>1, <2>3, <2>4 DEF b, h
  <1>7. CASE q.name = "satc_device_ats_required"
    <2>1. Required(q, n, s, t, done, {}, a)
      BY <1>7 DEF Collected, Collects
    <2>2. /\ Walks(q, n, h) => Required(q, n, s2, t, done, {}, b)
          /\ ~Walks(q, n, h) => Required(q, n, s2, t, done \union {c}, {}, b)
      BY <1>2, <1>7, <2>1, RequiredPasses DEF b, h
    <2>3. /\ Walks(q, n, h) => Collected(q, n, s2, t, done, c, {}, b)
          /\ ~Walks(q, n, h) => Collected(q, n, s2, t, done \union {c}, Nowhere, {}, b)
      BY <1>7, <2>2 DEF Collected, Collects
    <2>4. QED
      BY <1>1, <2>3 DEF b, h
  <1>8. QED
    BY <1>2, <1>3, <1>4, <1>5, <1>6, <1>7 DEF QueryNames, Collects

-----------------------------------------------------------------------------
(* A scope read, and the end of a structure's scopes.                      *)

(* What the closure does with a scope, field by field.                     *)
LEMMA OnScopeFields ==
  ASSUME NEW q \in Queries, NEW sc \in Scopes, NEW a, AccTyped(a), NEW b, b = OnScope(q, sc, a)
  PROVE  /\ AccTyped(b)
         /\ Collects(q) =>
              /\ b.found = a.found /\ b.ranges = a.ranges \union ({Requester(sc)} \ {NoBdf})
              /\ b.unresolved <=> a.unresolved \/ Requester(sc) = NoBdf
         /\ q.name = "drhd_requester_match" =>
              /\ b.exact <=> a.exact \/ Requester(sc) = q.bdf
              /\ b.unresolved <=> a.unresolved \/ Requester(sc) = NoBdf
         /\ q.name = "satc_device_ats_required" =>
              (b.required <=> a.required \/ Requester(sc) = q.bdf)
  <1> DEFINE r == Requester(sc)
  <1>1. r \in Bdfs \union {NoBdf}
    BY ScopeFacts
  <1> HIDE DEF r
  <1>2. CASE Collects(q)
    <2>1. b = [a EXCEPT !.ranges = a.ranges \union ({r} \ {NoBdf}),
                        !.unresolved = a.unresolved \/ r = NoBdf]
      BY <1>2 DEF OnScope, Collects, r
    <2>2. /\ b.found = a.found /\ b.ranges = a.ranges \union ({r} \ {NoBdf})
          /\ b.unresolved = (a.unresolved \/ r = NoBdf)
          /\ b.exact = a.exact /\ b.match = a.match /\ b.required = a.required /\ b.value = a.value
          /\ b = [found |-> b.found, ranges |-> b.ranges, unresolved |-> b.unresolved,
                  exact |-> b.exact, match |-> b.match, required |-> b.required, value |-> b.value]
      BY <2>1 DEF AccTyped
    <2>3. AccTyped(b)
      BY <1>1, <2>2 DEF AccTyped
    <2>4. QED
      BY <1>2, <2>2, <2>3 DEF Collects, r
  <1>3. CASE q.name = "drhd_requester_match"
    <2>1. b = [a EXCEPT !.exact = a.exact \/ r = q.bdf,
                        !.unresolved = a.unresolved \/ r = NoBdf]
      BY <1>3 DEF OnScope, Collects, r
    <2>2. /\ b.found = a.found /\ b.ranges = a.ranges
          /\ b.unresolved = (a.unresolved \/ r = NoBdf)
          /\ b.exact = (a.exact \/ r = q.bdf)
          /\ b.match = a.match /\ b.required = a.required /\ b.value = a.value
          /\ b = [found |-> b.found, ranges |-> b.ranges, unresolved |-> b.unresolved,
                  exact |-> b.exact, match |-> b.match, required |-> b.required, value |-> b.value]
      BY <2>1 DEF AccTyped
    <2>3. AccTyped(b)
      BY <2>2 DEF AccTyped
    <2>4. QED
      BY <1>3, <2>2, <2>3 DEF Collects, r
  <1>4. CASE ~Collects(q) /\ q.name # "drhd_requester_match"
    <2>1. b = [a EXCEPT !.required = a.required \/ r = q.bdf]
      BY <1>4 DEF OnScope, r
    <2>2. /\ b.found = a.found /\ b.ranges = a.ranges /\ b.unresolved = a.unresolved
          /\ b.exact = a.exact /\ b.match = a.match /\ b.value = a.value
          /\ b.required = (a.required \/ r = q.bdf)
          /\ b = [found |-> b.found, ranges |-> b.ranges, unresolved |-> b.unresolved,
                  exact |-> b.exact, match |-> b.match, required |-> b.required, value |-> b.value]
      BY <2>1 DEF AccTyped
    <2>3. AccTyped(b)
      BY <2>2 DEF AccTyped
    <2>4. QED
      BY <1>4, <2>2, <2>3 DEF r
  <1>5. QED
    BY <1>2, <1>3, <1>4

(* The requester of a scope joins those of its structure.                  *)
LEMMA CollectScope ==
  ASSUME NEW q \in Queries, NEW n \in {1, 2}, NEW s, NEW t, NEW t2, NEW done, NEW at, at # Nowhere,
         NEW part, NEW a, AccTyped(a), Collected(q, n, s, t, done, at, part, a),
         Walks(q, n, s[at]), NEW sc \in Scopes,
         \A o \in done : Inner(s, t2, o) = Inner(s, t, o) /\ \A p \in Inner(s, t, o) : t2[p] = t[p]
  PROVE  /\ AccTyped(OnScope(q, sc, a))
         /\ Collected(q, n, s, t2, done, at, part \union {Requester(sc)}, OnScope(q, sc, a))
  <1> DEFINE b == OnScope(q, sc, a)
             all == AllOf(q, n, s, t, done)
             r == Requester(sc)
  <1>1. AllOf(q, n, s, t2, done) = all
    BY AllOfSame
  <1>2. AccTyped(b)
    BY OnScopeFields
  <1>3. /\ q.name \in {"drhd_bdf_ranges", "rmrr_bdf_ranges", "drhd_requester_match",
                       "satc_device_ats_required"}
        /\ q.name = "satc_device_ats_required" => n = 2
    BY WalkersAre
  <1>4. CASE Collects(q)
    <2>1. /\ a.ranges = (all \union part) \ {NoBdf}
          /\ a.unresolved <=> NoBdf \in all \union part
          /\ a.found
      BY <1>4 DEF Collected, Union, Collects
    <2>2. /\ b.found = a.found /\ b.ranges = a.ranges \union ({r} \ {NoBdf})
          /\ b.unresolved <=> a.unresolved \/ r = NoBdf
      BY <1>4, OnScopeFields
    <2> HIDE DEF b, all, r
    <2>3. Union(q, n, s, t2, done, at, part \union {r}, b)
      BY <1>1, <2>1, <2>2 DEF Union
    <2>4. Collected(q, n, s, t2, done, at, part \union {r}, b)
      BY <1>4, <2>3 DEF Collected, Collects
    <2>5. QED
      BY <1>2, <2>4 DEF b, r
  <1>5. CASE q.name = "drhd_requester_match"
    <2>1. (a.exact <=> q.bdf \in part) /\ (a.unresolved <=> NoBdf \in part)
      BY <1>5 DEF Collected, Matched, Collects
    <2>2. /\ b.exact <=> a.exact \/ r = q.bdf
          /\ b.unresolved <=> a.unresolved \/ r = NoBdf
      BY <1>5, OnScopeFields
    <2> HIDE DEF b, all, r
    <2>3. Matched(q, n, s, t2, done, at, part \union {r}, b)
      BY <2>1, <2>2 DEF Matched
    <2>4. Collected(q, n, s, t2, done, at, part \union {r}, b)
      BY <1>5, <2>3 DEF Collected, Collects
    <2>5. QED
      BY <1>2, <2>4 DEF b, r
  <1>6. CASE q.name = "satc_device_ats_required"
    <2>1. n = 2 /\ n # 1 /\ (a.required <=> q.bdf \in all \union part)
      BY <1>3, <1>6 DEF Collected, Required, Collects
    <2>2. b.required <=> a.required \/ r = q.bdf
      BY <1>6, OnScopeFields
    <2> HIDE DEF b, all, r
    <2>3. Required(q, n, s, t2, done, part \union {r}, b)
      BY <1>1, <2>1, <2>2 DEF Required
    <2>4. Collected(q, n, s, t2, done, at, part \union {r}, b)
      BY <1>6, <2>3 DEF Collected, Collects
    <2>5. QED
      BY <1>2, <2>4 DEF b, r
  <1>7. QED
    BY <1>3, <1>4, <1>5, <1>6 DEF Collects

(* What is done after the last scope, field by field.                      *)
LEMMA AfterScopesFields ==
  ASSUME NEW q \in Queries, NEW a, AccTyped(a), NEW b, b = AfterScopes(q, a)
  PROVE  /\ AccTyped(b)
         /\ q.name # "drhd_requester_match" => b = a
         /\ q.name = "drhd_requester_match" =>
              b.match = IF a.exact THEN "Covered"
                        ELSE IF a.unresolved THEN "Unresolved" ELSE "NotCovered"
  <1>1. CASE q.name # "drhd_requester_match"
    BY <1>1 DEF AfterScopes
  <1>2. CASE q.name = "drhd_requester_match"
    <2>1. PICK m : /\ m = CASE a.exact -> "Covered"
                            [] ~a.exact /\ a.unresolved -> "Unresolved"
                            [] OTHER -> "NotCovered"
                   /\ b = [a EXCEPT !.match = m]
      BY <1>2 DEF AfterScopes
    <2>2. m = IF a.exact THEN "Covered" ELSE IF a.unresolved THEN "Unresolved" ELSE "NotCovered"
      BY <2>1
    <2>3. b = [a EXCEPT !.match = m]
      BY <2>1
    <2>4. m \in {"Covered", "NotCovered", "Unresolved"}
      BY <2>2
    <2>5. AccTyped(b) /\ b.match = m
      BY <2>3, <2>4 DEF AccTyped
    <2>6. QED
      BY <1>2, <2>2, <2>5
  <1>3. QED
    BY <1>1, <1>2

(* With its last scope a structure is done.                                *)
LEMMA CollectAfter ==
  ASSUME NEW q \in Queries, NEW n \in {1, 2}, NEW s, NEW t, NEW done \in SUBSET Nat, NEW at \in Nat,
         \A o \in done : o < at, NEW a, AccTyped(a), Walks(q, n, s[at]),
         s[at].flag \in BOOLEAN,
         Collected(q, n, s, t, done, at, Named(t, Inner(s, t, at)), a)
  PROVE  /\ AccTyped(AfterScopes(q, a))
         /\ Collected(q, n, s, t, done \union {at}, Nowhere, {}, AfterScopes(q, a))
  <1> DEFINE b == AfterScopes(q, a)
             part == Named(t, Inner(s, t, at))
             all == AllOf(q, n, s, t, done)
             d2 == done \union {at}
  <1>1. AccTyped(b)
    BY AfterScopesFields
  <1>2. AllOf(q, n, s, t, d2) = all \union part
    BY AllOfMore
  <1>3. /\ q.name \in {"drhd_bdf_ranges", "rmrr_bdf_ranges", "drhd_requester_match",
                       "satc_device_ats_required"}
        /\ q.name = "satc_device_ats_required" => n = 2
    BY WalkersAre
  <1>4. at # Nowhere
    BY DEF Nowhere
  <1>5. CASE Collects(q)
    <2>1. b = a
      BY <1>5, AfterScopesFields DEF Collects
    <2>2. /\ a.ranges = (all \union part) \ {NoBdf}
          /\ a.unresolved <=> NoBdf \in all \union part
          /\ a.found
      BY <1>4, <1>5 DEF Collected, Union, Collects
    <2> HIDE DEF b, all, part, d2
    <2>3. Union(q, n, s, t, d2, Nowhere, {}, b)
      BY <1>2, <2>1, <2>2 DEF Union
    <2>4. Collected(q, n, s, t, d2, Nowhere, {}, b)
      BY <1>5, <2>3 DEF Collected, Collects
    <2>5. QED
      BY <1>1, <2>4 DEF b, d2
  <1>6. CASE q.name = "drhd_requester_match"
    <2>1. (a.exact <=> q.bdf \in part) /\ (a.unresolved <=> NoBdf \in part)
      BY <1>4, <1>6 DEF Collected, Matched, Collects
    <2>2. b.match = IF a.exact THEN "Covered" ELSE IF a.unresolved THEN "Unresolved" ELSE "NotCovered"
      BY <1>6, AfterScopesFields
    <2>3. s[at].kind = "DRHD" /\ s[at].window = q.window /\ ~s[at].flag /\ s[at].segment = q.segment
      BY <1>6, WalkersAre
    <2>4. b.match = MatchIn(q, s, t, at)
      BY <2>1, <2>2, <2>3 DEF MatchIn
    <2>5. UnitsIn(q, s, d2) = UnitsIn(q, s, done) \union {at}
      BY <2>3 DEF UnitsIn
    <2>6. Max(UnitsIn(q, s, done) \union {at}) = at
      <3>1. UnitsIn(q, s, done) \in SUBSET Nat /\ \A x \in UnitsIn(q, s, done) : x < at
        BY DEF UnitsIn
      <3>2. QED
        BY <3>1, MaxAdded
    <2>7. UnitsIn(q, s, d2) # {} /\ Max(UnitsIn(q, s, d2)) = at
      BY <2>5, <2>6
    <2> HIDE DEF b, all, part, d2
    <2>8. Matched(q, n, s, t, d2, Nowhere, {}, b)
      BY <2>4, <2>7 DEF Matched
    <2>9. Collected(q, n, s, t, d2, Nowhere, {}, b)
      BY <1>6, <2>8 DEF Collected, Collects
    <2>10. QED
      BY <1>1, <2>9 DEF b, d2
  <1>7. CASE q.name = "satc_device_ats_required"
    <2>1. n = 2 /\ n # 1 /\ b = a /\ (a.required <=> q.bdf \in all \union part)
      BY <1>3, <1>7, AfterScopesFields DEF Collected, Required, Collects
    <2> HIDE DEF b, all, part, d2
    <2>2. Required(q, n, s, t, d2, {}, b)
      BY <1>2, <2>1 DEF Required
    <2>3. Collected(q, n, s, t, d2, Nowhere, {}, b)
      BY <1>7, <2>2 DEF Collected, Collects
    <2>4. QED
      BY <1>1, <2>3 DEF b, d2
  <1>8. QED
    BY <1>3, <1>5, <1>6, <1>7 DEF Collects

-----------------------------------------------------------------------------
(* The start and the end of a query.                                       *)

(* Nothing has been collected of no structure.                             *)
LEMMA CollectNone ==
  ASSUME NEW q \in Queries, NEW s, NEW t
  PROVE  AccTyped(Fresh) /\ Collected(q, 1, s, t, {}, Nowhere, {}, Fresh)
  <1>1. /\ ~Fresh.found /\ Fresh.ranges = {} /\ ~Fresh.unresolved /\ ~Fresh.exact
        /\ Fresh.match = None /\ ~Fresh.required /\ Fresh.value = <<>>
    BY DEF Fresh
  <1>2. AccTyped(Fresh)
    BY DEF AccTyped, Fresh
  <1>3. /\ AllOf(q, 1, s, t, {}) = {} /\ UnitsIn(q, s, {}) = {}
        /\ DomainsIn(q, s, {}) = {} /\ NamesIn(q, s, {}) = {}
    BY DEF AllOf, Walked, UnitsIn, DomainsIn, NamesIn
  <1>4. CASE Collects(q)
    <2>1. Union(q, 1, s, t, {}, Nowhere, {}, Fresh)
      BY <1>1, <1>3 DEF Union
    <2>2. QED
      BY <1>2, <1>4, <2>1 DEF Collected, Collects
  <1>5. CASE q.name = "drhd_requester_match"
    <2>1. Matched(q, 1, s, t, {}, Nowhere, {}, Fresh)
      BY <1>1, <1>3 DEF Matched
    <2>2. QED
      BY <1>2, <1>5, <2>1 DEF Collected, Collects
  <1>6. CASE q.name = "rhsa_proximity_domain_for_registers"
    <2>1. LastDomain(q, s, {}, Fresh)
      BY <1>1, <1>3 DEF LastDomain
    <2>2. QED
      BY <1>2, <1>6, <2>1 DEF Collected, Collects
  <1>7. CASE q.name = "andd_name_for_device_number"
    <2>1. LastName(q, s, {}, Fresh)
      BY <1>1, <1>3 DEF LastName
    <2>2. QED
      BY <1>2, <1>7, <2>1 DEF Collected, Collects
  <1>8. CASE q.name = "satc_device_ats_required"
    <2>1. Required(q, 1, s, t, {}, {}, Fresh)
      BY <1>1 DEF Required
    <2>2. QED
      BY <1>2, <1>8, <2>1 DEF Collected, Collects
  <1>9. q.name \in QueryNames
    BY SessionsAssumption
  <1>10. QED
    BY <1>4, <1>5, <1>6, <1>7, <1>8, <1>9 DEF QueryNames, Collects

(* The second walk of satc_device_ats_required starts anew.                *)
LEMMA CollectAgain ==
  ASSUME NEW q, NEW s, NEW t, NEW a, q.name = "satc_device_ats_required",
         Collected(q, 1, s, t, DOMAIN s, Nowhere, {}, a), ~a.found
  PROVE  /\ Collected(q, 2, s, t, {}, Nowhere, {}, a)
         /\ \A o \in DOMAIN s : s[o].kind # "SIDP"
  <1>1. ~a.required /\ (a.found <=> \E o \in DOMAIN s : s[o].kind = "SIDP")
    BY DEF Collected, Required, Collects
  <1>2. AllOf(q, 2, s, t, {}) = {}
    BY DEF AllOf, Walked
  <1>3. Required(q, 2, s, t, {}, {}, a)
    BY <1>1, <1>2 DEF Required
  <1>4. QED
    BY <1>1, <1>3 DEF Collected, Collects

(* At the end of the walk that decides it, what has been collected is the  *)
(* answer the table defines.                                               *)
LEMMA AnswerIsValue ==
  ASSUME NEW q \in Queries, NEW n \in {1, 2}, NEW s, NEW t, NEW a, AccTyped(a),
         Collected(q, n, s, t, DOMAIN s, Nowhere, {}, a),
         q.name = "satc_device_ats_required" /\ n = 1 => a.found,
         n = 2 => \A o \in DOMAIN s : s[o].kind # "SIDP"
  PROVE  /\ Answer(q, a) = Value(q, s, t)
         /\ \A o \in DOMAIN s : Walks(q, LastPass(s), s[o]) => Walks(q, n, s[o])
  <1>1. q.name \in QueryNames
    BY SessionsAssumption
  <1>2. CASE q.name # "satc_device_ats_required"
    <2>1. \A o \in DOMAIN s : Walks(q, LastPass(s), s[o]) <=> Walks(q, n, s[o])
      BY <1>2, SameWalk
    <2>2. AllOf(q, LastPass(s), s, t, DOMAIN s) = AllOf(q, n, s, t, DOMAIN s)
      BY <2>1 DEF AllOf, Walked
    <2>3. CASE Collects(q)
      <3> DEFINE all == AllOf(q, n, s, t, DOMAIN s)
      <3>1. /\ a.ranges = all \ {NoBdf} /\ (a.unresolved <=> NoBdf \in all)
            /\ ~a.found => all = {}
        BY <2>3 DEF Collected, Union, Collects
      <3>2. Answer(q, a) = IF a.found /\ ~a.unresolved THEN a.ranges ELSE {}
        BY <2>3 DEF Answer, Collects
      <3>3. Value(q, s, t) = IF NoBdf \in all THEN {} ELSE all
        BY <2>2, <2>3 DEF Value, Collects
      <3> HIDE DEF all
      <3>4. Answer(q, a) = Value(q, s, t)
        BY <3>1, <3>2, <3>3
      <3>5. QED
        BY <2>1, <3>4
    <2>4. CASE q.name = "drhd_requester_match"
      <3>1. Matched(q, n, s, t, DOMAIN s, Nowhere, {}, a)
        BY <2>4 DEF Collected, Collects
      <3>2. a.match = Value(q, s, t)
        BY <2>4, <3>1 DEF Matched, Value, Collects
      <3>3. Answer(q, a) = a.match
        BY <2>4 DEF Answer, Collects
      <3>4. QED
        BY <2>1, <3>2, <3>3
    <2>5. CASE q.name = "rhsa_proximity_domain_for_registers"
      <3>1. LastDomain(q, s, DOMAIN s, a)
        BY <2>5 DEF Collected, Collects
      <3>2. a.value = Value(q, s, t)
        BY <2>5, <3>1 DEF LastDomain, Value, Collects
      <3>3. Answer(q, a) = a.value
        BY <2>5 DEF Answer, Collects
      <3>4. QED
        BY <2>1, <3>2, <3>3
    <2>6. CASE q.name = "andd_name_for_device_number"
      <3>1. LastName(q, s, DOMAIN s, a)
        BY <2>6 DEF Collected, Collects
      <3>2. a.value = Value(q, s, t)
        BY <2>6, <3>1 DEF LastName, Value, Collects
      <3>3. Answer(q, a) = a.value
        BY <2>6 DEF Answer, Collects
      <3>4. QED
        BY <2>1, <3>2, <3>3
    <2>7. QED
      BY <1>1, <1>2, <2>3, <2>4, <2>5, <2>6 DEF QueryNames, Collects
  <1>3. CASE q.name = "satc_device_ats_required"
    <2>1. Required(q, n, s, t, DOMAIN s, {}, a)
      BY <1>3 DEF Collected, Collects
    <2>2. Answer(q, a) = a.required
      BY <1>3 DEF Answer, Collects
    <2>3. Value(q, s, t) = (LastPass(s) = 2 /\ q.bdf \in AllOf(q, 2, s, t, DOMAIN s))
      BY <1>3 DEF Value, Collects
    <2>4. LastPass(s) = n
      BY <1>3, <2>1 DEF Required, LastPass
    <2>5. a.required <=> (n = 2 /\ q.bdf \in AllOf(q, 2, s, t, DOMAIN s))
      BY <2>1 DEF Required
    <2>6. a.required \in BOOLEAN
      BY DEF AccTyped
    <2>7. a.required = (n = 2 /\ q.bdf \in AllOf(q, 2, s, t, DOMAIN s))
      BY <2>5, <2>6
    <2>8. QED
      BY <2>2, <2>3, <2>4, <2>7
  <1>4. QED
    BY <1>2, <1>3

-----------------------------------------------------------------------------
(* A structure read from the table.                                        *)

(* The structures and the scopes of one structure, as far as they are      *)
(* read.                                                                   *)
TableRead(front) ==
  Laid(sdt, DOMAIN sdt, Good(sdt), 0, front) /\ \A p \in DOMAIN scopes : p < front

ScopesRead(o, front) ==
  Laid(scopes, Inner(sdt, scopes, o), GoodInner(sdt, scopes, o), FirstScope(sdt, o), front)

Fits(h) == StructureFits(offset, h) /\ Parses(h)

(* The bytes read now join those read before.                              *)
ReadsStructure(h) ==
  /\ BetweenStructures /\ offset + HeaderLength <= TableLength
  /\ h \in Contents(sdt, offset, Structures)
  /\ sdt' = Remember(sdt, offset, h)
  /\ UNCHANGED <<session, scopes>>

(* The memory after the read, and the structure it has found.              *)
LEMMA StructureBytes ==
  ASSUME DmarInv, NEW h, ReadsStructure(h)
  PROVE  /\ DOMAIN sdt' = DOMAIN sdt \union {offset} /\ sdt'[offset] = h
         /\ \A o \in DOMAIN sdt : sdt'[o] = sdt[o]
         /\ offset \in DOMAIN sdt => h = sdt[offset]
         /\ h \in Structures /\ h.kind \in AllKinds /\ h.length \in Nat /\ h.flag \in BOOLEAN
         /\ Good(sdt') = IF Fits(h) THEN Good(sdt) \union {offset} ELSE Good(sdt)
         /\ Fits(h) => /\ MinLength[h.kind] \in Nat \ {0} /\ MinLength[h.kind] <= h.length
                       /\ offset + h.length <= TableLength /\ h.length > 0
  <1>1. /\ DOMAIN sdt' = DOMAIN sdt \union {offset} /\ sdt'[offset] = h
        /\ \A o \in DOMAIN sdt : sdt'[o] = sdt[o]
        /\ offset \in DOMAIN sdt => h = sdt[offset]
        /\ offset \notin DOMAIN sdt => h \in Structures
    <2>1. h \in Contents(sdt, offset, Structures) /\ sdt' = Remember(sdt, offset, h)
      BY DEF ReadsStructure
    <2>2. DOMAIN sdt' = DOMAIN sdt \union {offset} /\ sdt'[offset] = h
      BY <2>1 DEF Remember
    <2>3. QED
      BY <2>1, <2>2, ReadAgain
  <1>2. h \in Structures /\ session \in Sessions
    BY <1>1 DEF DmarInv, Typed
  <1>3. h.kind \in AllKinds /\ h.length \in Nat /\ h.flag \in BOOLEAN
    BY <1>2, StructureFacts
  <1>4. Good(sdt') = IF Fits(h) THEN Good(sdt) \union {offset} ELSE Good(sdt)
    <2>1. \A o \in DOMAIN sdt : o \in Good(sdt') <=> o \in Good(sdt)
      BY <1>1 DEF Good
    <2>2. offset \in Good(sdt') <=> Fits(h)
      BY <1>1 DEF Good, Fits
    <2>3. Good(sdt') \subseteq DOMAIN sdt \union {offset} /\ Good(sdt) \subseteq DOMAIN sdt
      BY <1>1 DEF Good
    <2>4. QED
      BY <2>1, <2>2, <2>3
  <1>5. MinLength[h.kind] \in Nat \ {0}
    BY <1>3, LengthsAssumption
  <1>6. Fits(h) => MinLength[h.kind] <= h.length /\ offset + h.length <= TableLength /\ h.length > 0
    BY <1>3, <1>5 DEF Fits, StructureFits, Parses
  <1>7. QED
    BY <1>1, <1>2, <1>3, <1>4, <1>5, <1>6

(* The structures read stay laid out; a new one is behind the others, and  *)
(* there is none once a query has read the whole table.                    *)
LEMMA StructuresStayLaid ==
  ASSUME DmarInv, NEW h, ReadsStructure(h)
  PROVE  /\ \E f \in 0 .. TableLength :
              /\ TableRead(f)' /\ (DOMAIN answers # {} \/ pass = 2 => f = TableLength)
              /\ Fits(h) => offset + h.length \in Good(sdt') \union {f}
         /\ DOMAIN answers # {} \/ pass = 2 => offset \in Good(sdt)
         /\ offset \notin Good(sdt) => \A p \in DOMAIN scopes : p < offset
         /\ Fits(h) => \A o \in Good(sdt') : o < offset + h.length => o <= offset
  <1>1. PICK f \in 0 .. TableLength :
          /\ Laid(sdt, DOMAIN sdt, Good(sdt), 0, f) /\ offset \in Good(sdt) \union {f}
          /\ DOMAIN answers # {} \/ pass = 2 => f = TableLength
          /\ \A p \in DOMAIN scopes : p < f
    BY DEF DmarInv, TableLaid
  <1>2. /\ DOMAIN sdt' = DOMAIN sdt \union {offset} /\ sdt'[offset] = h
        /\ \A o \in DOMAIN sdt : sdt'[o] = sdt[o]
        /\ offset \in DOMAIN sdt => h = sdt[offset]
        /\ h.length \in Nat
        /\ Good(sdt') = IF Fits(h) THEN Good(sdt) \union {offset} ELSE Good(sdt)
        /\ Fits(h) => offset + h.length <= TableLength /\ h.length > 0
    BY StructureBytes
  <1>3. /\ TableLength \in Nat /\ HeaderLength \in Nat \ {0} /\ offset \in Nat /\ f \in Nat
        /\ DOMAIN sdt \in SUBSET Nat
        /\ offset + HeaderLength <= TableLength /\ scopes' = scopes
    BY LengthsAssumption DEF DmarInv, Typed, ReadsStructure
  <1>4. /\ Good(sdt) \subseteq DOMAIN sdt
        /\ \A o \in Good(sdt) : sdt[o].length \in Nat /\ sdt[o].length > 0
        /\ \A o \in Good(sdt) : sdt'[o] = sdt[o]
    BY <1>2, GoodFacts DEF DmarInv, Good
  <1>5. DOMAIN answers # {} \/ pass = 2 => offset \in Good(sdt)
    BY <1>1, <1>3
  <1>6. offset \notin Good(sdt) => offset = f /\ \A p \in DOMAIN scopes : p < offset
    BY <1>1
  <1>7. CASE offset \in Good(sdt)
    <2>1. Fits(h) /\ DOMAIN sdt' = DOMAIN sdt /\ Good(sdt') = Good(sdt) /\ h = sdt[offset]
      BY <1>2, <1>4, <1>7 DEF Good, Fits
    <2>2. Laid(sdt', DOMAIN sdt', Good(sdt'), 0, f)
      BY <1>1, <1>4, <2>1, LaidAgain
    <2>3. TableRead(f)'
      BY <1>1, <1>3, <2>2 DEF TableRead
    <2>4. offset + h.length \in Good(sdt') \union {f}
      BY <1>1, <1>7, <2>1 DEF Laid
    <2>5. \A o \in Good(sdt') : offset < o => offset + h.length <= o
      BY <1>1, <1>7, <2>1 DEF Laid
    <2>6. \A o \in Good(sdt') : o < offset + h.length => o <= offset
      BY <1>2, <1>3, <1>4, <2>1, <2>5
    <2>7. QED
      BY <1>1, <1>7, <2>3, <2>4, <2>6
  <1>8. CASE offset \notin Good(sdt) /\ Fits(h)
    <2> PICK g : g = offset + h.length
      OBVIOUS
    <2>1. /\ offset = f /\ Good(sdt') = Good(sdt) \union {f}
          /\ DOMAIN sdt' = DOMAIN sdt \union {f} /\ sdt'[f] = h /\ h.length \in Nat \ {0}
      BY <1>2, <1>6, <1>8
    <2>2. Laid(sdt', DOMAIN sdt \union {f}, Good(sdt) \union {f}, 0, f + sdt'[f].length)
      BY <1>1, <1>3, <1>4, <2>1, LaidGrows
    <2>3. Laid(sdt', DOMAIN sdt', Good(sdt'), 0, g)
      BY <2>1, <2>2
    <2>4. g \in 0 .. TableLength /\ f < g
      BY <1>2, <1>3, <1>8, <2>1
    <2>5. \A p \in DOMAIN scopes : p < g
      <3>1. \A p \in DOMAIN scopes : p \in Nat /\ p < f
        BY <1>1 DEF DmarInv, Typed
      <3>2. QED
        BY <1>3, <2>4, <3>1
    <2>6. TableRead(g)'
      BY <1>3, <2>3, <2>5 DEF TableRead
    <2>7. \A o \in Good(sdt') : o <= offset
      <3>1. \A o \in Good(sdt) : o \in Nat /\ o < f
        BY <1>1, <1>3, <1>4 DEF Laid
      <3>2. QED
        BY <1>3, <2>1, <3>1
    <2>8. DOMAIN answers # {} \/ pass = 2 => g = TableLength
      BY <1>5, <1>8
    <2>9. g \in Good(sdt') \union {g}
      OBVIOUS
    <2>10. QED
      BY <1>5, <1>6, <1>8, <2>4, <2>6, <2>7, <2>8, <2>9
  <1>9. CASE offset \notin Good(sdt) /\ ~Fits(h)
    <2>1. offset = f /\ Good(sdt') = Good(sdt) /\ DOMAIN sdt' = DOMAIN sdt \union {f}
      BY <1>2, <1>6, <1>9
    <2>2. Laid(sdt', DOMAIN sdt \union {f}, Good(sdt), 0, f)
      BY <1>1, <1>4, LaidRefuses
    <2>3. Laid(sdt', DOMAIN sdt', Good(sdt'), 0, f)
      BY <2>1, <2>2
    <2>4. TableRead(f)'
      BY <1>1, <1>3, <2>3 DEF TableRead
    <2>5. QED
      BY <1>1, <1>5, <1>6, <1>9, <2>4
  <1>10. QED
    BY <1>5, <1>6, <1>7, <1>8, <1>9

(* The scopes read lie in the structures read before; a new structure has  *)
(* none yet.                                                               *)
LEMMA ScopesUnderStructures ==
  ASSUME DmarInv, NEW h, ReadsStructure(h), answers' = answers
  PROVE  /\ \A o \in DOMAIN sdt : Inner(sdt', scopes', o) = Inner(sdt, scopes, o)
         /\ offset \notin Good(sdt) => Inner(sdt', scopes', offset) = {}
         /\ \A o \in Good(sdt') : \E g \in 0 .. o + sdt'[o].length :
              /\ ScopesRead(o, g)'
              /\ (\E q \in DOMAIN answers' : Walks(q, LastPass(sdt'), sdt'[o]))
                   \/ (o \in Done /\ query # NoQuery /\ Walks(query, pass, sdt[o]))
                 => g = o + sdt'[o].length
  <1>1. /\ DOMAIN sdt' = DOMAIN sdt \union {offset} /\ sdt'[offset] = h
        /\ \A o \in DOMAIN sdt : sdt'[o] = sdt[o]
        /\ Good(sdt') = IF Fits(h) THEN Good(sdt) \union {offset} ELSE Good(sdt)
        /\ Fits(h) => MinLength[h.kind] \in Nat /\ MinLength[h.kind] <= h.length /\ h.length \in Nat
    BY StructureBytes
  <1>2. /\ DOMAIN answers # {} \/ pass = 2 => offset \in Good(sdt)
        /\ offset \notin Good(sdt) => \A p \in DOMAIN scopes : p < offset
    BY StructuresStayLaid
  <1>3. /\ scopes' = scopes /\ offset \in Nat /\ DOMAIN scopes \subseteq Nat
        /\ Good(sdt) \subseteq DOMAIN sdt
    BY DEF DmarInv, Typed, ReadsStructure, Good
  <1>4. \A o \in DOMAIN sdt : Inner(sdt', scopes', o) = Inner(sdt, scopes, o)
    BY <1>1, <1>3 DEF Inner
  <1>5. ASSUME offset \notin Good(sdt) PROVE Inner(sdt', scopes', offset) = {}
    <2>1. \A p \in DOMAIN scopes : p \in Nat /\ p < offset
      BY <1>2, <1>3, <1>5
    <2>2. \A p \in DOMAIN scopes : ~(offset < p)
      BY <1>3, <2>1
    <2>3. QED
      BY <1>3, <2>2 DEF Inner
  <1>6. ASSUME NEW o \in Good(sdt)
        PROVE  \E g \in 0 .. o + sdt'[o].length :
                 /\ ScopesRead(o, g)'
                 /\ (\E q \in DOMAIN answers' : Walks(q, LastPass(sdt'), sdt'[o]))
                      \/ (o \in Done /\ query # NoQuery /\ Walks(query, pass, sdt[o]))
                    => g = o + sdt'[o].length
    <2>1. PICK g \in 0 .. o + sdt[o].length :
            /\ Laid(scopes, Inner(sdt, scopes, o), GoodInner(sdt, scopes, o), FirstScope(sdt, o), g)
            /\ Needed(o) => g = o + sdt[o].length
      BY DEF DmarInv, ScopesLaid
    <2>2. sdt'[o] = sdt[o] /\ Inner(sdt', scopes', o) = Inner(sdt, scopes, o)
      BY <1>1, <1>3, <1>4
    <2>3. /\ GoodInner(sdt', scopes', o) = GoodInner(sdt, scopes, o)
          /\ FirstScope(sdt', o) = FirstScope(sdt, o)
      BY <1>3, <2>2 DEF GoodInner, FirstScope
    <2>4. ScopesRead(o, g)'
      BY <1>3, <2>1, <2>2, <2>3 DEF ScopesRead
    <2>5. ASSUME NEW q \in DOMAIN answers, Walks(q, LastPass(sdt'), sdt'[o]) PROVE Needed(o)
      <3>1. offset \in DOMAIN sdt
        BY <1>2, <1>3
      <3>2. LastPass(sdt') = LastPass(sdt)
        BY <1>1, <3>1 DEF LastPass
      <3>3. QED
        BY <2>2, <2>5, <3>2 DEF Needed
    <2>6. o \in Done /\ query # NoQuery /\ Walks(query, pass, sdt[o]) => Needed(o)
      BY DEF Needed
    <2>7. QED
      BY <2>1, <2>2, <2>4, <2>5, <2>6
  <1>7. ASSUME offset \notin Good(sdt), Fits(h), NEW o, o = offset, NEW g, g = o + MinLength[h.kind]
        PROVE  /\ g \in 0 .. o + sdt'[o].length /\ ScopesRead(o, g)'
               /\ o \notin Done /\ ~\E q \in DOMAIN answers' : Walks(q, LastPass(sdt'), sdt'[o])
    <2>1. DOMAIN answers' = {}
      BY <1>2, <1>7
    <2>2. Inner(sdt', scopes', o) = {} /\ GoodInner(sdt', scopes', o) = {}
      BY <1>5, <1>7 DEF GoodInner
    <2>3. FirstScope(sdt', o) = g
      BY <1>1, <1>7 DEF FirstScope
    <2>4. Laid(scopes', {}, {}, g, g)
      BY DEF Laid
    <2>5. o \notin Done
      BY <1>3, <1>7 DEF Done
    <2>6. ScopesRead(o, g)'
      BY <2>2, <2>3, <2>4 DEF ScopesRead
    <2>7. g \in 0 .. o + sdt'[o].length
      BY <1>1, <1>3, <1>7
    <2>8. QED
      BY <2>1, <2>5, <2>6, <2>7
  <1>8. ASSUME NEW o \in Good(sdt')
        PROVE  \E g \in 0 .. o + sdt'[o].length :
                 /\ ScopesRead(o, g)'
                 /\ (\E q \in DOMAIN answers' : Walks(q, LastPass(sdt'), sdt'[o]))
                      \/ (o \in Done /\ query # NoQuery /\ Walks(query, pass, sdt[o]))
                    => g = o + sdt'[o].length
    <2>1. CASE o \in Good(sdt)
      BY <1>6, <2>1
    <2>2. CASE o \notin Good(sdt)
      <3>1. o = offset /\ Fits(h) /\ offset \notin Good(sdt)
        BY <1>1, <1>8, <2>2
      <3> PICK g : g = o + MinLength[h.kind]
        OBVIOUS
      <3>2. QED
        BY <1>7, <3>1
    <2>3. QED
      BY <2>1, <2>2
  <1>9. QED
    BY <1>4, <1>5, <1>8

(* What the table answers to the queries that have returned is unchanged.  *)
LEMMA AnswersUnderStructures ==
  ASSUME DmarInv, NEW h, ReadsStructure(h), answers' = answers
  PROVE  Answered'
  <1> SUFFICES ASSUME NEW q \in DOMAIN answers PROVE answers[q] = Value(q, sdt', scopes')
    BY DEF Answered
  <1>1. q \in Queries /\ answers[q] = Value(q, sdt, scopes)
    BY DEF DmarInv, Typed, Answered
  <1>2. /\ DOMAIN sdt' = DOMAIN sdt \union {offset}
        /\ \A o \in DOMAIN sdt : sdt'[o] = sdt[o]
    BY StructureBytes
  <1>3. offset \in DOMAIN sdt
    <2>1. offset \in Good(sdt)
      BY StructuresStayLaid
    <2>2. QED
      BY <2>1 DEF Good
  <1>4. \A o \in DOMAIN sdt : Inner(sdt', scopes', o) = Inner(sdt, scopes, o)
    BY ScopesUnderStructures
  <1>5. scopes' = scopes
    BY DEF ReadsStructure
  <1>6. DOMAIN sdt \subseteq 0 .. TableLength
    BY LengthsAssumption DEF DmarInv, Typed
  <1>7. QED
    BY <1>1, <1>2, <1>3, <1>4, <1>5, <1>6, ValueSame

-----------------------------------------------------------------------------
(* The end of a query.                                                     *)

(* The bytes known after a step are of a table and of scopes.              *)
BytesTyped ==
  /\ session \in Sessions
  /\ DOMAIN sdt \subseteq Nat
  /\ \A o \in DOMAIN sdt : sdt[o] \in Structures /\ o + HeaderLength <= TableLength
  /\ DOMAIN scopes \subseteq Nat /\ \A o \in DOMAIN scopes : scopes[o] \in Scopes
  /\ errors \union DOMAIN answers \subseteq Queries

(* What a query that ends leaves behind.                                   *)
LEMMA AfterReset ==
  ASSUME Reset, BytesTyped', Answered', NEW f \in 0 .. TableLength, TableRead(f)',
         DOMAIN answers' # {} => f = TableLength,
         \A o \in Good(sdt') : \E g \in 0 .. o + sdt'[o].length :
           /\ ScopesRead(o, g)'
           /\ (\E q \in DOMAIN answers' : Walks(q, LastPass(sdt'), sdt'[o])) =>
                g = o + sdt'[o].length
  PROVE  DmarInv'
  <1>1. /\ query' = NoQuery /\ pass' = 1 /\ offset' = 0 /\ structure' = Nowhere
        /\ scope' = 0 /\ acc' = Fresh
    BY DEF Reset
  <1>2. Typed'
    <2>1. AccTyped(Fresh)
      BY DEF AccTyped, Fresh
    <2>2. query' \in Queries \union {NoQuery} /\ pass' \in {1, 2} /\ offset' \in Nat /\ scope' \in Nat
      BY <1>1
    <2>3. AccTyped(acc)'
      BY <1>1, <2>1 DEF AccTyped
    <2>4. QED
      BY <2>2, <2>3 DEF BytesTyped, Typed
  <1>3. Idle' /\ Cursor' /\ Collecting'
    BY <1>1 DEF Idle, Cursor, Collecting, Fresh
  <1>4. TableLaid'
    <2>1. /\ Laid(sdt', DOMAIN sdt', Good(sdt'), 0, f)
          /\ \A p \in DOMAIN scopes' : p < f
      BY DEF TableRead
    <2>2. offset' \in Good(sdt') \union {f} /\ pass' # 2
      BY <1>1, <2>1 DEF Laid
    <2>3. QED
      BY <2>1, <2>2 DEF TableLaid
  <1>5. ScopesLaid'
    <2> SUFFICES ASSUME NEW o \in Good(sdt')
                 PROVE  \E g \in 0 .. o + sdt'[o].length :
                          /\ Laid(scopes', Inner(sdt', scopes', o), GoodInner(sdt', scopes', o),
                                  FirstScope(sdt', o), g)
                          /\ Needed(o)' => g = o + sdt'[o].length
                          /\ o = structure' => o + scope' \in GoodInner(sdt', scopes', o) \union {g}
      BY DEF ScopesLaid
    <2>1. PICK g \in 0 .. o + sdt'[o].length :
            /\ ScopesRead(o, g)'
            /\ (\E q \in DOMAIN answers' : Walks(q, LastPass(sdt'), sdt'[o])) =>
                 g = o + sdt'[o].length
      OBVIOUS
    <2>2. Needed(o)' => \E q \in DOMAIN answers' : Walks(q, LastPass(sdt'), sdt'[o])
      BY <1>1 DEF Needed
    <2>3. o # structure'
      <3>1. o \in Nat
        BY DEF Good, BytesTyped
      <3>2. QED
        BY <1>1, <3>1 DEF Nowhere
    <2>4. QED
      BY <2>1, <2>2, <2>3 DEF ScopesRead
  <1>6. QED
    BY <1>2, <1>3, <1>4, <1>5 DEF DmarInv

(* A query that fails without having read more.                            *)
LEMMA FailsUnread ==
  ASSUME DmarInv, query # NoQuery, Fail, UNCHANGED <<session, sdt, scopes>>
  PROVE  DmarInv'
  <1>1. Reset /\ errors' = errors \union {query} /\ answers' = answers
    BY DEF Fail
  <1>2. BytesTyped' /\ Answered'
    <2>1. query \in Queries
      BY DEF DmarInv, Typed
    <2>2. Answered'
      BY <1>1 DEF DmarInv, Answered
    <2>3. BytesTyped'
      BY <1>1, <2>1 DEF DmarInv, Typed, BytesTyped, Structures
    <2>4. QED
      BY <2>2, <2>3
  <1>3. PICK f \in 0 .. TableLength :
          /\ Laid(sdt, DOMAIN sdt, Good(sdt), 0, f)
          /\ DOMAIN answers # {} => f = TableLength
          /\ \A p \in DOMAIN scopes : p < f
    BY DEF DmarInv, TableLaid
  <1>4. TableRead(f)' /\ (DOMAIN answers' # {} => f = TableLength)
    BY <1>1, <1>3 DEF TableRead, Good
  <1>5. ASSUME NEW o \in Good(sdt')
        PROVE  \E g \in 0 .. o + sdt'[o].length :
                 /\ ScopesRead(o, g)'
                 /\ (\E q \in DOMAIN answers' : Walks(q, LastPass(sdt'), sdt'[o])) =>
                      g = o + sdt'[o].length
    <2>1. o \in Good(sdt)
      BY <1>5 DEF Good
    <2>2. PICK g \in 0 .. o + sdt[o].length :
            /\ Laid(scopes, Inner(sdt, scopes, o), GoodInner(sdt, scopes, o), FirstScope(sdt, o), g)
            /\ Needed(o) => g = o + sdt[o].length
      BY <2>1 DEF DmarInv, ScopesLaid
    <2>3. ScopesRead(o, g)'
      BY <2>2 DEF ScopesRead
    <2>4. (\E q \in DOMAIN answers' : Walks(q, LastPass(sdt'), sdt'[o])) => Needed(o)
      BY <1>1 DEF Needed
    <2>5. QED
      BY <2>2, <2>3, <2>4
  <1>6. QED
    BY <1>1, <1>2, <1>3, <1>4, <1>5, AfterReset

(* A query that fails on the structure it has read.                        *)
LEMMA FailsOnStructure ==
  ASSUME DmarInv, NEW h, ReadsStructure(h), Fail
  PROVE  DmarInv'
  <1>1. /\ Reset /\ errors' = errors \union {query} /\ answers' = answers /\ query # NoQuery
        /\ scopes' = scopes /\ session' = session
    BY DEF Fail, ReadsStructure, BetweenStructures
  <1>2. Answered'
    BY <1>1, AnswersUnderStructures
  <1>3. BytesTyped'
    <2>1. /\ DOMAIN sdt' = DOMAIN sdt \union {offset} /\ sdt'[offset] = h
          /\ \A o \in DOMAIN sdt : sdt'[o] = sdt[o]
          /\ h \in Structures
      BY StructureBytes
    <2>2. Structures' = Structures
      BY <1>1 DEF Structures
    <2>3. offset \in Nat /\ offset + HeaderLength <= TableLength /\ query \in Queries
      BY <1>1 DEF DmarInv, Typed, ReadsStructure
    <2>4. \A o \in DOMAIN sdt' : sdt'[o] \in Structures' /\ o + HeaderLength <= TableLength
      BY <2>1, <2>2, <2>3 DEF DmarInv, Typed
    <2>5. DOMAIN sdt' \subseteq Nat /\ DOMAIN scopes' \subseteq Nat
          /\ \A o \in DOMAIN scopes' : scopes'[o] \in Scopes
      BY <1>1, <2>1, <2>3 DEF DmarInv, Typed
    <2>6. session' \in Sessions /\ errors' \union DOMAIN answers' \subseteq Queries
      BY <1>1, <2>3 DEF DmarInv, Typed
    <2>7. QED
      BY <2>4, <2>5, <2>6 DEF BytesTyped
  <1>4. PICK f \in 0 .. TableLength : TableRead(f)' /\ (DOMAIN answers # {} => f = TableLength)
    BY StructuresStayLaid
  <1>5. DOMAIN answers' # {} => f = TableLength
    BY <1>1, <1>4
  <1>6. \A o \in Good(sdt') : \E g \in 0 .. o + sdt'[o].length :
          /\ ScopesRead(o, g)'
          /\ (\E q \in DOMAIN answers' : Walks(q, LastPass(sdt'), sdt'[o])) =>
               g = o + sdt'[o].length
    BY <1>1, ScopesUnderStructures
  <1>7. QED
    BY <1>1, <1>2, <1>3, <1>4, <1>5, <1>6, AfterReset

-----------------------------------------------------------------------------
(* A structure passed, or entered.                                         *)

(* Every structure behind the cursor and not being walked is done.         *)
LEMMA DoneFacts ==
  ASSUME DmarInv
  PROVE  Done \subseteq Good(sdt) /\ Done \subseteq 0 .. TableLength /\ DOMAIN sdt \subseteq 0 .. TableLength
  <1>1. PICK f \in 0 .. TableLength :
          /\ Laid(sdt, DOMAIN sdt, Good(sdt), 0, f) /\ offset \in Good(sdt) \union {f}
    BY DEF DmarInv, TableLaid
  <1>2. /\ DOMAIN sdt \subseteq Nat /\ TableLength \in Nat /\ offset \in Nat /\ Good(sdt) \subseteq DOMAIN sdt
        /\ \A o \in DOMAIN sdt : o + HeaderLength <= TableLength
    BY LengthsAssumption DEF DmarInv, Typed, Good
  <1>3. DOMAIN sdt \subseteq 0 .. TableLength
    BY <1>2, LengthsAssumption
  <1>4. ASSUME NEW o \in Done PROVE o \in Good(sdt)
    <2>1. o \in DOMAIN sdt /\ o < offset /\ o \in Nat
      BY <1>2, <1>4 DEF Done
    <2>2. offset <= f /\ f \in Nat
      BY <1>1, <1>2 DEF Laid
    <2>3. o # f
      BY <1>2, <2>1, <2>2
    <2>4. QED
      BY <1>1, <2>1, <2>3 DEF Laid
  <1>5. QED
    BY <1>2, <1>3, <1>4 DEF Done

(* A structure its iterator and parser take.                               *)
LEMMA PassesStructure ==
  ASSUME DmarInv, NEW h, ReadsStructure(h), Fits(h),
         offset' = offset + h.length,
         acc' = IF Selects(query, pass, h) THEN OnStructure(query, offset, h, acc) ELSE acc,
         structure' = IF Walks(query, pass, h) THEN offset ELSE Nowhere,
         scope' = MinLength[h.kind],
         UNCHANGED <<query, pass, answers, errors>>
  PROVE  DmarInv'
  <1>1. /\ DOMAIN sdt' = DOMAIN sdt \union {offset} /\ sdt'[offset] = h
        /\ \A o \in DOMAIN sdt : sdt'[o] = sdt[o]
        /\ h \in Structures /\ h.length \in Nat /\ h.flag \in BOOLEAN
        /\ Good(sdt') = Good(sdt) \union {offset}
        /\ MinLength[h.kind] \in Nat \ {0} /\ MinLength[h.kind] <= h.length
        /\ offset + h.length <= TableLength /\ h.length > 0
    BY StructureBytes
  <1>2. /\ query \in Queries /\ query # NoQuery /\ structure = Nowhere
        /\ query' = query /\ pass' = pass /\ answers' = answers /\ errors' = errors
        /\ scopes' = scopes /\ session' = session
        /\ offset \in Nat /\ offset + HeaderLength <= TableLength
        /\ pass \in {1, 2} /\ AccTyped(acc) /\ DOMAIN sdt \subseteq Nat
        /\ Structures' = Structures
    BY DEF DmarInv, Typed, ReadsStructure, BetweenStructures, Structures
  <1>3. PICK f \in 0 .. TableLength :
          /\ TableRead(f)' /\ (DOMAIN answers # {} \/ pass = 2 => f = TableLength)
          /\ offset + h.length \in Good(sdt') \union {f}
    BY StructuresStayLaid
  <1>4. \A o \in Good(sdt') : o < offset + h.length => o <= offset
    BY StructuresStayLaid
  <1>5. /\ Done \subseteq Good(sdt) /\ Done \subseteq 0 .. TableLength
        /\ DOMAIN sdt \subseteq 0 .. TableLength /\ Done \subseteq DOMAIN sdt
        /\ \A o \in Done : o < offset
    BY DoneFacts DEF Done
  <1>6. Done' = IF Walks(query, pass, h) THEN Done ELSE Done \union {offset}
    <2>1. ASSUME NEW o \in DOMAIN sdt', o < offset' PROVE o < offset \/ o = offset
      <3>1. offset' \in Good(sdt') \union {f} /\ \A p \in Good(sdt') : p < f /\ DOMAIN sdt' \subseteq Good(sdt') \union {f}
        BY <1>3 DEF TableRead, Laid
      <3>2. f \in Nat /\ o \in Nat /\ offset' \in Nat
        BY <1>1, <1>2, LengthsAssumption
      <3>3. o # f
        BY <2>1, <3>1, <3>2, <1>1
      <3>4. o \in Good(sdt')
        BY <1>3, <2>1, <3>3 DEF TableRead, Laid
      <3>5. o <= offset
        BY <1>4, <2>1, <3>4
      <3>6. QED
        BY <1>2, <3>2, <3>5
    <2>2. offset < offset' /\ \A o \in DOMAIN sdt : o < offset => o < offset'
      BY <1>1, <1>2
    <2>3. /\ \A o \in DOMAIN sdt : o # structure
          /\ structure' = Nowhere => \A o \in DOMAIN sdt' : o # structure'
      BY <1>1, <1>2 DEF Nowhere
    <2>4. CASE Walks(query, pass, h)
      <3>1. structure' = offset
        BY <2>4
      <3>2. \A o : o \in Done' <=> o \in DOMAIN sdt' /\ o < offset' /\ o # offset
        BY <3>1 DEF Done
      <3>3. \A o : o \in Done <=> o \in DOMAIN sdt /\ o < offset
        BY <2>3 DEF Done
      <3>4. \A o \in DOMAIN sdt : o < offset => o # offset
        BY <1>2
      <3>5. QED
        BY <1>1, <2>1, <2>2, <2>4, <3>2, <3>3, <3>4
    <2>5. CASE ~Walks(query, pass, h)
      <3>1. structure' = Nowhere
        BY <2>5
      <3>2. \A o : o \in Done' <=> o \in DOMAIN sdt' /\ o < offset'
        BY <2>3, <3>1 DEF Done
      <3>3. \A o : o \in Done <=> o \in DOMAIN sdt /\ o < offset
        BY <2>3 DEF Done
      <3>4. QED
        BY <1>1, <2>1, <2>2, <2>5, <3>2, <3>3
    <2>6. QED
      BY <2>4, <2>5
  <1>7. /\ AccTyped(acc')
        /\ Walks(query, pass, h) =>
             Collected(query, pass, sdt', scopes, Done, offset, {}, acc')
        /\ ~Walks(query, pass, h) =>
             Collected(query, pass, sdt', scopes, Done \union {offset}, Nowhere, {}, acc')
    <2>1. Collected(query, pass, sdt, scopes, Done, Nowhere, {}, acc)
      BY <1>2 DEF DmarInv, Collecting, Part
    <2>2. acc' = Took(query, pass, offset, sdt'[offset], acc)
      BY <1>1 DEF Took
    <2>3. \A o \in Done : sdt'[o] = sdt[o] /\ o < offset
      BY <1>1, <1>5
    <2>4. /\ query \in Queries /\ pass \in {1, 2} /\ Done \subseteq 0 .. TableLength /\ offset \in Nat
          /\ sdt'[offset].flag \in BOOLEAN /\ AccTyped(acc)
      BY <1>1, <1>2, <1>5
    <2> DEFINE b == Took(query, pass, offset, sdt'[offset], acc)
    <2>5. /\ AccTyped(b)
          /\ Walks(query, pass, sdt'[offset]) =>
               Collected(query, pass, sdt', scopes, Done, offset, {}, b)
          /\ ~Walks(query, pass, sdt'[offset]) =>
               Collected(query, pass, sdt', scopes, Done \union {offset}, Nowhere, {}, b)
      BY <2>1, <2>3, <2>4, CollectStructure
    <2>6. acc' = b /\ sdt'[offset] = h
      BY <1>1, <2>2
    <2> HIDE DEF b
    <2>7. QED
      BY <2>5, <2>6
  <1>8. Typed'
    <2>1. \A o \in DOMAIN sdt' : sdt'[o] \in Structures' /\ o + HeaderLength <= TableLength
      BY <1>1, <1>2 DEF DmarInv, Typed
    <2>2. DOMAIN sdt' \subseteq Nat
      BY <1>1, <1>2
    <2>3. offset' \in Nat /\ scope' \in Nat
      BY <1>1, <1>2
    <2>4. AccTyped(acc)'
      BY <1>7 DEF AccTyped
    <2>5. QED
      BY <1>2, <2>1, <2>2, <2>3, <2>4 DEF DmarInv, Typed
  <1>9. Idle'
    BY <1>2 DEF Idle
  <1>10. Cursor'
    <2>1. CASE Walks(query, pass, h)
      <3>1. structure' = offset /\ length' = h.length
        BY <1>1, <2>1 DEF length
      <3>2. sdt'[structure'] = h /\ structure' \in Good(sdt')
        BY <1>1, <3>1
      <3>3. QED
        BY <1>1, <1>2, <2>1, <3>1, <3>2 DEF Cursor
    <2>2. CASE ~Walks(query, pass, h)
      BY <2>2 DEF Cursor
    <2>3. QED
      BY <2>1, <2>2
  <1>11. TableLaid'
    BY <1>2, <1>3 DEF TableLaid, TableRead
  <1>12. ScopesLaid'
    <2> SUFFICES ASSUME NEW o \in Good(sdt')
                 PROVE  \E g \in 0 .. o + sdt'[o].length :
                          /\ Laid(scopes', Inner(sdt', scopes', o), GoodInner(sdt', scopes', o),
                                  FirstScope(sdt', o), g)
                          /\ Needed(o)' => g = o + sdt'[o].length
                          /\ o = structure' => o + scope' \in GoodInner(sdt', scopes', o) \union {g}
      BY DEF ScopesLaid
    <2>1. PICK g \in 0 .. o + sdt'[o].length :
            /\ ScopesRead(o, g)'
            /\ (\E q \in DOMAIN answers' : Walks(q, LastPass(sdt'), sdt'[o]))
                 \/ (o \in Done /\ query # NoQuery /\ Walks(query, pass, sdt[o]))
               => g = o + sdt'[o].length
      BY <1>2, ScopesUnderStructures
    <2>2. Needed(o)' =>
            (\E q \in DOMAIN answers' : Walks(q, LastPass(sdt'), sdt'[o]))
              \/ (o \in Done /\ query # NoQuery /\ Walks(query, pass, sdt[o]))
      <3>1. o \in Done' /\ Walks(query, pass, sdt'[o]) => o \in Done /\ Walks(query, pass, sdt[o])
        BY <1>1, <1>5, <1>6
      <3>2. QED
        BY <1>2, <3>1 DEF Needed
    <2>3. o = structure' => o + scope' = FirstScope(sdt', o)
      <3>1. structure' \in {offset, Nowhere} /\ o # Nowhere
        BY <1>1, <1>2 DEF Nowhere, Good
      <3>2. o = structure' => sdt'[o] = h
        BY <1>1, <3>1
      <3>3. QED
        BY <3>2 DEF FirstScope
    <2>4. FirstScope(sdt', o) \in GoodInner(sdt', scopes', o) \union {g}
      BY <2>1 DEF ScopesRead, Laid
    <2>5. QED
      BY <2>1, <2>2, <2>3, <2>4 DEF ScopesRead
  <1>13. Collecting'
    <2>1. Part' = {}
      <3>1. CASE Walks(query, pass, h)
        <4>1. structure' = offset /\ offset \in Good(sdt')
          BY <1>1, <3>1
        <4> PICK o : o = offset
          OBVIOUS
        <4>3. PICK k \in 0 .. o + sdt'[o].length : ScopesRead(o, k)'
          BY <1>2, <4>1, ScopesUnderStructures
        <4>4. \A p \in GoodInner(sdt', scopes', o) : FirstScope(sdt', o) <= p /\ p < k
          BY <4>3 DEF ScopesRead, Laid
        <4>5. FirstScope(sdt', o) = o + scope'
          BY <1>1 DEF FirstScope
        <4>6. FirstScope(sdt', o) <= k
          <5>1. FirstScope(sdt', o) \in GoodInner(sdt', scopes', o) \union {k}
            BY <4>3 DEF ScopesRead, Laid
          <5>2. FirstScope(sdt', o) \in Nat /\ k \in Nat
            BY <1>1, <1>2, <4>5
          <5>3. QED
            BY <4>4, <5>1, <5>2
        <4>7. \A p \in Inner(sdt', scopes', o) : FirstScope(sdt', o) <= p
          <5>1. Inner(sdt', scopes', o) \subseteq GoodInner(sdt', scopes', o) \union {k}
            BY <4>3 DEF ScopesRead, Laid
          <5>2. QED
            BY <4>4, <4>6, <5>1
        <4>8. \A p \in Inner(sdt', scopes', o) : ~(p < o + scope')
          <5>1. \A p \in Inner(sdt', scopes', o) : p \in Nat
            BY <1>2 DEF Inner, DmarInv, Typed
          <5>2. FirstScope(sdt', o) \in Nat
            BY <1>1, <1>2, <4>5
          <5>3. QED
            BY <4>5, <4>7, <5>1, <5>2
        <4>9. {p \in Inner(sdt', scopes', structure') : p < structure' + scope'} = {}
          BY <4>1, <4>8
        <4>10. QED
          BY <4>9 DEF Part, Named
      <3>2. CASE ~Walks(query, pass, h)
        BY <3>2 DEF Part
      <3>3. QED
        BY <3>1, <3>2
    <2>2. Collected(query', pass', sdt', scopes', Done', structure', Part', acc')
      BY <1>2, <1>6, <1>7, <2>1
    <2>3. pass' = 2 => /\ query'.name = "satc_device_ats_required"
                       /\ \A o \in DOMAIN sdt' : sdt'[o].kind # "SIDP"
      <3>1. pass = 2 => offset \in DOMAIN sdt
        <4>1. pass = 2 => offset \in Good(sdt)
          BY StructuresStayLaid
        <4>2. QED
          BY <4>1 DEF Good
      <3>2. QED
        BY <1>1, <1>2, <3>1 DEF DmarInv, Collecting
    <2>4. QED
      BY <2>2, <2>3 DEF Collecting
  <1>14. Answered'
    BY <1>2, AnswersUnderStructures
  <1>15. QED
    BY <1>8, <1>9, <1>10, <1>11, <1>12, <1>13, <1>14 DEF DmarInv

-----------------------------------------------------------------------------
(* A device scope read from a structure.                                   *)

(* The bytes read now join those read before.                              *)
ReadsScope(s) ==
  /\ InStructure /\ scope + ScopeHeader <= length
  /\ s \in Contents(scopes, structure + scope, Scopes)
  /\ scopes' = Remember(scopes, structure + scope, s)
  /\ UNCHANGED <<session, sdt>>

(* A scope is read from the bytes of the structure being walked.           *)
LEMMA ScopeBytes ==
  ASSUME DmarInv, NEW s, ReadsScope(s), NEW c, c = structure, NEW at, at = c + scope
  PROVE  /\ DOMAIN scopes' = DOMAIN scopes \union {at} /\ scopes'[at] = s
         /\ \A p \in DOMAIN scopes : scopes'[p] = scopes[p]
         /\ at \in DOMAIN scopes => s = scopes[at]
         /\ s \in Scopes /\ s.length \in Nat
         /\ c \in Good(sdt) /\ c \in Nat /\ sdt[c].length \in Nat /\ c + sdt[c].length = offset
         /\ at \in Nat /\ c < at /\ at < c + sdt[c].length /\ FirstScope(sdt, c) <= at
         /\ query \in Queries /\ query # NoQuery /\ sdt' = sdt /\ session' = session
         /\ Walks(query, pass, sdt[c])
  <1>1. /\ c \in Good(sdt) /\ c + length = offset /\ Walks(query, pass, sdt[c])
        /\ MinLength[sdt[c].kind] <= scope /\ length = sdt[c].length
    BY DEF DmarInv, Cursor, ReadsScope, InStructure, length
  <1>2. c \in Nat /\ sdt[c].length \in Nat /\ MinLength[sdt[c].kind] \in Nat \ {0} /\ scope \in Nat
    BY <1>1, GoodFacts DEF DmarInv, Typed
  <1>3. scope + ScopeHeader <= sdt[c].length /\ ScopeHeader \in Nat \ {0}
    BY <1>1, LengthsAssumption DEF ReadsScope
  <1>4. at \in Nat /\ c < at /\ at < c + sdt[c].length /\ FirstScope(sdt, c) <= at
    BY <1>1, <1>2, <1>3 DEF FirstScope
  <1>5. s \in Contents(scopes, at, Scopes) /\ scopes' = Remember(scopes, at, s)
    BY DEF ReadsScope
  <1>6. DOMAIN scopes' = DOMAIN scopes \union {at} /\ scopes'[at] = s
    BY <1>5 DEF Remember
  <1>7. /\ \A p \in DOMAIN scopes : scopes'[p] = scopes[p]
        /\ at \in DOMAIN scopes => s = scopes[at]
        /\ at \notin DOMAIN scopes => s \in Scopes
    BY <1>5, ReadAgain
  <1>8. s \in Scopes
    BY <1>7 DEF DmarInv, Typed
  <1>9. s.length \in Nat
    BY <1>8, ScopeFacts
  <1>10. query \in Queries /\ query # NoQuery /\ sdt' = sdt /\ session' = session
    BY DEF ReadsScope, InStructure, DmarInv, Typed
  <1>11. QED
    BY <1>1, <1>2, <1>4, <1>6, <1>7, <1>8, <1>9, <1>10

(* Structures do not overlap: no other structure's scopes change.          *)
LEMMA ScopesElsewhere ==
  ASSUME DmarInv, NEW s, ReadsScope(s), NEW o \in Good(sdt), o # structure
  PROVE  /\ Inner(sdt', scopes', o) = Inner(sdt, scopes, o)
         /\ GoodInner(sdt', scopes', o) = GoodInner(sdt, scopes, o)
         /\ FirstScope(sdt', o) = FirstScope(sdt, o)
         /\ \A p \in Inner(sdt, scopes, o) : scopes'[p] = scopes[p]
  <1> PICK c : c = structure
    OBVIOUS
  <1> PICK at : at = c + scope
    OBVIOUS
  <1>1. /\ DOMAIN scopes' = DOMAIN scopes \union {at}
        /\ \A p \in DOMAIN scopes : scopes'[p] = scopes[p]
        /\ c \in Good(sdt) /\ c \in Nat /\ sdt[c].length \in Nat /\ sdt' = sdt
        /\ at \in Nat /\ c < at /\ at < c + sdt[c].length
    BY ScopeBytes
  <1>2. o \in Nat /\ sdt[o].length \in Nat
    BY GoodFacts DEF DmarInv
  <1>3. /\ o < c => o + sdt[o].length <= c
        /\ c < o => c + sdt[c].length <= o
    BY <1>1 DEF DmarInv, TableLaid, Laid
  <1>4. ~(o < at /\ at < o + sdt[o].length)
    BY <1>1, <1>2, <1>3
  <1>5. Inner(sdt', scopes', o) = Inner(sdt, scopes, o)
    BY <1>1, <1>4 DEF Inner
  <1>6. \A p \in Inner(sdt, scopes, o) : scopes'[p] = scopes[p]
    BY <1>1 DEF Inner
  <1>7. GoodInner(sdt', scopes', o) = GoodInner(sdt, scopes, o)
    BY <1>1, <1>5, <1>6 DEF GoodInner
  <1>8. FirstScope(sdt', o) = FirstScope(sdt, o)
    BY <1>1 DEF FirstScope
  <1>9. QED
    BY <1>5, <1>6, <1>7, <1>8

Takes(s) == ScopeFits(scope, length, s)

(* In the structure being walked there is one scope more, or it is one     *)
(* read again.                                                             *)
LEMMA ScopesHere ==
  ASSUME DmarInv, NEW s, ReadsScope(s), NEW c, c = structure, NEW at, at = c + scope
  PROVE  /\ Inner(sdt', scopes', c) = Inner(sdt, scopes, c) \union {at}
         /\ GoodInner(sdt', scopes', c) =
              IF Takes(s) THEN GoodInner(sdt, scopes, c) \union {at} ELSE GoodInner(sdt, scopes, c)
         /\ at \in GoodInner(sdt, scopes, c) => Takes(s)
         /\ \A p \in Inner(sdt, scopes, c) : scopes'[p] = scopes[p] /\ p \in Nat /\ scopes[p].length \in Nat
         /\ Takes(s) => s.length \in Nat \ {0} /\ at + s.length <= c + sdt[c].length
  <1>1. /\ DOMAIN scopes' = DOMAIN scopes \union {at} /\ scopes'[at] = s
        /\ \A p \in DOMAIN scopes : scopes'[p] = scopes[p]
        /\ at \in DOMAIN scopes => s = scopes[at]
        /\ c \in Nat /\ sdt[c].length \in Nat /\ sdt' = sdt /\ s.length \in Nat
        /\ at \in Nat /\ c < at /\ at < c + sdt[c].length
    BY ScopeBytes
  <1>2. scope \in Nat /\ at - c = scope /\ length = sdt[c].length
    BY <1>1 DEF DmarInv, Typed, length
  <1>3. Inner(sdt', scopes', c) = Inner(sdt, scopes, c) \union {at}
    BY <1>1 DEF Inner
  <1>4. \A p \in Inner(sdt, scopes, c) : scopes'[p] = scopes[p] /\ p \in Nat /\ scopes[p].length \in Nat
    BY <1>1, ScopeFacts DEF Inner, DmarInv, Typed
  <1>5. at \in GoodInner(sdt', scopes', c) <=> Takes(s)
    BY <1>1, <1>2, <1>3 DEF GoodInner, Takes
  <1>6. \A p \in Inner(sdt, scopes, c) :
          p \in GoodInner(sdt', scopes', c) <=> p \in GoodInner(sdt, scopes, c)
    BY <1>1, <1>3, <1>4 DEF GoodInner
  <1>7. /\ GoodInner(sdt', scopes', c) \subseteq Inner(sdt, scopes, c) \union {at}
        /\ GoodInner(sdt, scopes, c) \subseteq Inner(sdt, scopes, c)
    BY <1>3 DEF GoodInner
  <1>8. at \in GoodInner(sdt, scopes, c) => Takes(s)
    BY <1>5, <1>6, <1>7
  <1>9. GoodInner(sdt', scopes', c) =
          IF Takes(s) THEN GoodInner(sdt, scopes, c) \union {at} ELSE GoodInner(sdt, scopes, c)
    BY <1>5, <1>6, <1>7, <1>8
  <1>10. Takes(s) => s.length \in Nat \ {0} /\ at + s.length <= c + sdt[c].length
    BY <1>1, <1>2, LengthsAssumption DEF Takes, ScopeFits
  <1>11. QED
    BY <1>3, <1>4, <1>8, <1>9, <1>10

(* They stay laid out; a new one is behind the others, and there is none   *)
(* once an answer depends on them.                                         *)
LEMMA ScopesStayLaid ==
  ASSUME DmarInv, NEW s, ReadsScope(s), NEW c, c = structure, NEW at, at = c + scope
  PROVE  /\ \E f \in 0 .. c + sdt[c].length :
              /\ ScopesRead(c, f)' /\ (Needed(c) => f = c + sdt[c].length)
              /\ Takes(s) => at + s.length \in GoodInner(sdt', scopes', c) \union {f}
         /\ Needed(c) => at \in GoodInner(sdt, scopes, c)
         /\ Takes(s) => \A p \in Inner(sdt', scopes', c) : p < at + s.length => p <= at
  <1> DEFINE G == GoodInner(sdt, scopes, c)
             D == Inner(sdt, scopes, c)
             first == FirstScope(sdt, c)
             end == c + sdt[c].length
  <1>1. /\ scopes'[at] = s /\ (at \in DOMAIN scopes => s = scopes[at])
        /\ c \in Good(sdt) /\ c \in Nat /\ sdt[c].length \in Nat /\ sdt' = sdt
        /\ at \in Nat /\ c < at /\ at < end /\ s.length \in Nat
    BY ScopeBytes
  <1>2. /\ Inner(sdt', scopes', c) = D \union {at}
        /\ GoodInner(sdt', scopes', c) = IF Takes(s) THEN G \union {at} ELSE G
        /\ at \in G => Takes(s)
        /\ \A p \in D : scopes'[p] = scopes[p] /\ p \in Nat /\ scopes[p].length \in Nat
        /\ Takes(s) => s.length \in Nat \ {0} /\ at + s.length <= end
    BY ScopesHere
  <1>3. PICK f \in 0 .. end :
          /\ Laid(scopes, D, G, first, f) /\ (Needed(c) => f = end) /\ at \in G \union {f}
    BY <1>1 DEF DmarInv, ScopesLaid
  <1>4. first \in Nat /\ FirstScope(sdt', c) = first /\ end \in Nat /\ f \in Nat
    <2>1. MinLength[sdt[c].kind] \in Nat
      BY <1>1, GoodFacts DEF DmarInv
    <2>2. QED
      BY <1>1, <2>1 DEF FirstScope
  <1>5. G \subseteq D /\ D \in SUBSET Nat /\ (at \in D => s = scopes[at])
    BY <1>1, <1>2 DEF GoodInner, Inner
  <1>6. Needed(c) => at \in G
    BY <1>1, <1>3, <1>4
  <1> HIDE DEF G, D, first
  <1>7. CASE at \in G
    <2>1. Takes(s) /\ D \union {at} = D /\ G \union {at} = G /\ at \in D
      BY <1>2, <1>5, <1>7
    <2>2. Laid(scopes', D, G, first, f)
      BY <1>2, <1>3, <1>5, LaidAgain
    <2>3. ScopesRead(c, f)'
      BY <1>2, <1>4, <2>1, <2>2 DEF ScopesRead, first
    <2>4. scopes[at] = s
      BY <1>5, <2>1
    <2>5. at + s.length \in G \union {f}
      BY <1>3, <1>7, <2>4 DEF Laid
    <2>6. ASSUME NEW p \in D, p < at + s.length PROVE p <= at
      <3>1. D \subseteq G \union {f} /\ \A x \in G : x < f
        BY <1>3 DEF Laid
      <3>2. p \in Nat /\ at + s.length \in Nat
        BY <1>1, <1>2
      <3>3. p \in G
        BY <1>4, <2>5, <2>6, <3>1, <3>2
      <3>4. at < p => at + scopes[at].length <= p
        BY <1>3, <1>7, <3>3 DEF Laid
      <3>5. QED
        BY <1>1, <2>4, <2>6, <3>2, <3>4
    <2>7. QED
      BY <1>2, <1>3, <1>7, <2>1, <2>3, <2>5, <2>6 DEF G
  <1>8. CASE at \notin G /\ Takes(s)
    <2> PICK g : g = at + s.length
      OBVIOUS
    <2>1. at = f /\ ~Needed(c) /\ g \in Nat /\ g <= end /\ f < g
      BY <1>1, <1>2, <1>3, <1>6, <1>8
    <2>2. Laid(scopes', D \union {f}, G \union {f}, first, f + scopes'[f].length)
      <3>1. /\ \A p \in G : scopes[p].length \in Nat /\ scopes'[p] = scopes[p]
            /\ scopes'[f].length \in Nat \ {0} /\ D \in SUBSET Nat
        BY <1>1, <1>2, <1>5, <1>8, <2>1
      <3>2. QED
        BY <1>3, <1>4, <3>1, LaidGrows
    <2>3. ScopesRead(c, g)'
      BY <1>1, <1>2, <1>4, <1>8, <2>1, <2>2 DEF ScopesRead, first
    <2>4. g \in 0 .. end
      BY <1>4, <2>1
    <2>5. \A p \in D \union {at} : p <= at
      <3>1. D \subseteq G \union {f} /\ \A x \in G : x < f
        BY <1>3 DEF Laid
      <3>2. QED
        BY <1>1, <1>2, <2>1, <3>1
    <2>6. QED
      BY <1>2, <1>8, <2>1, <2>3, <2>4, <2>5 DEF G
  <1>9. CASE at \notin G /\ ~Takes(s)
    <2>1. at = f /\ ~Needed(c)
      BY <1>3, <1>6, <1>9
    <2>2. Laid(scopes', D \union {f}, G, first, f)
      BY <1>2, <1>3, <1>5, LaidRefuses
    <2>3. ScopesRead(c, f)'
      BY <1>2, <1>4, <1>9, <2>1, <2>2 DEF ScopesRead, first
    <2>4. QED
      BY <1>3, <1>9, <2>1, <2>3 DEF G
  <1>10. QED
    BY <1>7, <1>8, <1>9

(* So every structure's scopes stay laid out.                              *)
LEMMA ScopesEverywhere ==
  ASSUME DmarInv, NEW s, ReadsScope(s)
  PROVE  \A o \in Good(sdt') : \E g \in 0 .. o + sdt'[o].length :
           /\ ScopesRead(o, g)' /\ (Needed(o) => g = o + sdt'[o].length)
           /\ o = structure /\ Takes(s) =>
                o + (scope + s.length) \in GoodInner(sdt', scopes', o) \union {g}
  <1> PICK c : c = structure
    OBVIOUS
  <1> PICK at : at = c + scope
    OBVIOUS
  <1>1. /\ sdt' = sdt /\ c \in Good(sdt) /\ c \in Nat /\ s.length \in Nat /\ scope \in Nat
    BY ScopeBytes DEF DmarInv, Typed
  <1>2. Good(sdt') = Good(sdt)
    BY <1>1
  <1>3. ASSUME NEW o \in Good(sdt), o # c
        PROVE  \E g \in 0 .. o + sdt'[o].length :
                 ScopesRead(o, g)' /\ (Needed(o) => g = o + sdt'[o].length)
    <2>1. PICK g \in 0 .. o + sdt[o].length :
            /\ Laid(scopes, Inner(sdt, scopes, o), GoodInner(sdt, scopes, o), FirstScope(sdt, o), g)
            /\ Needed(o) => g = o + sdt[o].length
      BY DEF DmarInv, ScopesLaid
    <2>2. /\ Inner(sdt', scopes', o) = Inner(sdt, scopes, o)
          /\ GoodInner(sdt', scopes', o) = GoodInner(sdt, scopes, o)
          /\ FirstScope(sdt', o) = FirstScope(sdt, o)
          /\ \A p \in Inner(sdt, scopes, o) : scopes'[p] = scopes[p]
      BY <1>3, ScopesElsewhere
    <2>3. \A p \in GoodInner(sdt, scopes, o) : scopes'[p] = scopes[p]
      BY <2>2 DEF GoodInner
    <2>4. Laid(scopes', Inner(sdt, scopes, o), GoodInner(sdt, scopes, o), FirstScope(sdt, o), g)
      BY <2>1, <2>3, LaidAgain
    <2>5. ScopesRead(o, g)'
      BY <2>2, <2>4 DEF ScopesRead
    <2>6. QED
      BY <1>1, <2>1, <2>5
  <1>4. PICK f \in 0 .. c + sdt[c].length :
          /\ ScopesRead(c, f)' /\ (Needed(c) => f = c + sdt[c].length)
          /\ Takes(s) => at + s.length \in GoodInner(sdt', scopes', c) \union {f}
    BY ScopesStayLaid
  <1>5. c + (scope + s.length) = at + s.length
    BY <1>1
  <1>6. ASSUME NEW o \in Good(sdt)
        PROVE  \E g \in 0 .. o + sdt'[o].length :
                 /\ ScopesRead(o, g)' /\ (Needed(o) => g = o + sdt'[o].length)
                 /\ o = c /\ Takes(s) =>
                      o + (scope + s.length) \in GoodInner(sdt', scopes', o) \union {g}
    <2>1. CASE o = c
      BY <1>1, <1>4, <1>5, <2>1
    <2>2. CASE o # c
      BY <1>3, <2>2
    <2>3. QED
      BY <2>1, <2>2
  <1>7. QED
    BY <1>2, <1>6

(* And the answers given hold: a scope they depend on was read before.     *)
LEMMA AnswersUnderScopes ==
  ASSUME DmarInv, NEW s, ReadsScope(s), answers' = answers
  PROVE  Answered'
  <1> SUFFICES ASSUME NEW q \in DOMAIN answers PROVE answers[q] = Value(q, sdt', scopes')
    BY DEF Answered
  <1> PICK c : c = structure
    OBVIOUS
  <1> PICK at : at = c + scope
    OBVIOUS
  <1>1. q \in Queries /\ answers[q] = Value(q, sdt, scopes) /\ sdt' = sdt
    BY ScopeBytes DEF DmarInv, Typed, Answered
  <1>2. PICK f \in 0 .. TableLength :
          Laid(sdt, DOMAIN sdt, Good(sdt), 0, f) /\ f = TableLength
    BY DEF DmarInv, TableLaid
  <1>3. DOMAIN sdt \subseteq 0 .. TableLength /\ DOMAIN sdt = Good(sdt)
    <2>1. /\ DOMAIN sdt \subseteq Nat /\ TableLength \in Nat /\ HeaderLength \in Nat \ {0}
          /\ \A o \in DOMAIN sdt : o + HeaderLength <= TableLength
      BY LengthsAssumption DEF DmarInv, Typed
    <2>2. \A o \in DOMAIN sdt : o < TableLength
      BY <2>1
    <2>3. \A o \in DOMAIN sdt : o # f
      BY <1>2, <2>1, <2>2
    <2>4. QED
      BY <1>2, <2>1, <2>2, <2>3 DEF Laid
  <1>4. ASSUME NEW o \in DOMAIN sdt, Walks(q, LastPass(sdt), sdt[o])
        PROVE  /\ Inner(sdt', scopes', o) = Inner(sdt, scopes, o)
               /\ \A p \in Inner(sdt, scopes, o) : scopes'[p] = scopes[p]
    <2>1. o \in Good(sdt) /\ Needed(o)
      BY <1>3, <1>4 DEF Needed
    <2>2. CASE o = c
      <3>1. at \in GoodInner(sdt, scopes, c)
        BY <2>1, <2>2, ScopesStayLaid
      <3>2. at \in Inner(sdt, scopes, c)
        BY <3>1 DEF GoodInner
      <3>3. /\ Inner(sdt', scopes', c) = Inner(sdt, scopes, c) \union {at}
            /\ \A p \in Inner(sdt, scopes, c) : scopes'[p] = scopes[p]
        BY ScopesHere
      <3> DEFINE D == Inner(sdt, scopes, c)
      <3> HIDE DEF D
      <3>4. Inner(sdt', scopes', c) = D /\ \A p \in D : scopes'[p] = scopes[p]
        BY <3>2, <3>3 DEF D
      <3>5. QED
        BY <2>2, <3>4 DEF D
    <2>3. CASE o # c
      BY <2>1, <2>3, ScopesElsewhere
    <2>4. QED
      BY <2>2, <2>3
  <1>5. QED
    BY <1>1, <1>3, <1>4, ValueSame

(* The structures are as they were, and the scopes lie before their end.   *)
LEMMA TableUnderScopes ==
  ASSUME DmarInv, NEW s, ReadsScope(s)
  PROVE  \E f \in 0 .. TableLength :
           /\ TableRead(f)' /\ offset \in Good(sdt') \union {f}
           /\ DOMAIN answers # {} \/ pass = 2 => f = TableLength
  <1> PICK c : c = structure
    OBVIOUS
  <1> PICK at : at = c + scope
    OBVIOUS
  <1>1. /\ DOMAIN scopes' = DOMAIN scopes \union {at} /\ sdt' = sdt
        /\ at \in Nat /\ at < offset /\ offset \in Nat
    BY ScopeBytes DEF DmarInv, Typed
  <1>2. PICK f \in 0 .. TableLength :
          /\ Laid(sdt, DOMAIN sdt, Good(sdt), 0, f) /\ offset \in Good(sdt) \union {f}
          /\ DOMAIN answers # {} \/ pass = 2 => f = TableLength
          /\ \A p \in DOMAIN scopes : p < f
    BY DEF DmarInv, TableLaid
  <1>3. offset <= f /\ f \in Nat
    BY <1>1, <1>2, LengthsAssumption DEF Laid
  <1>4. \A p \in DOMAIN scopes' : p < f
    BY <1>1, <1>2, <1>3
  <1>5. TableRead(f)'
    BY <1>1, <1>2, <1>4 DEF TableRead
  <1>6. QED
    BY <1>1, <1>2, <1>5

(* A query that fails on the scope it has read.                            *)
LEMMA FailsOnScope ==
  ASSUME DmarInv, NEW s, ReadsScope(s), Fail
  PROVE  DmarInv'
  <1> PICK c : c = structure
    OBVIOUS
  <1> PICK at : at = c + scope
    OBVIOUS
  <1>1. Reset /\ errors' = errors \union {query} /\ answers' = answers
    BY DEF Fail
  <1>2. Answered'
    BY <1>1, AnswersUnderScopes
  <1>3. BytesTyped'
    <2>1. /\ DOMAIN scopes' = DOMAIN scopes \union {at} /\ scopes'[at] = s
          /\ \A p \in DOMAIN scopes : scopes'[p] = scopes[p]
          /\ s \in Scopes /\ at \in Nat /\ query \in Queries /\ sdt' = sdt /\ session' = session
      BY ScopeBytes
    <2>2. DOMAIN scopes' \subseteq Nat /\ \A p \in DOMAIN scopes' : scopes'[p] \in Scopes
      BY <2>1 DEF DmarInv, Typed
    <2>3. Structures' = Structures
      BY <2>1 DEF Structures
    <2>4. errors' \union DOMAIN answers' \subseteq Queries
      BY <1>1, <2>1 DEF DmarInv, Typed
    <2>5. QED
      BY <2>1, <2>2, <2>3, <2>4 DEF BytesTyped, DmarInv, Typed
  <1>4. PICK f \in 0 .. TableLength : TableRead(f)' /\ (DOMAIN answers' # {} => f = TableLength)
    BY <1>1, TableUnderScopes
  <1>5. ASSUME NEW o \in Good(sdt')
        PROVE  \E g \in 0 .. o + sdt'[o].length :
                 /\ ScopesRead(o, g)'
                 /\ (\E q \in DOMAIN answers' : Walks(q, LastPass(sdt'), sdt'[o])) =>
                      g = o + sdt'[o].length
    <2>1. PICK g \in 0 .. o + sdt'[o].length :
            ScopesRead(o, g)' /\ (Needed(o) => g = o + sdt'[o].length)
      BY ScopesEverywhere
    <2>2. sdt' = sdt
      BY DEF ReadsScope
    <2>3. (\E q \in DOMAIN answers' : Walks(q, LastPass(sdt'), sdt'[o])) => Needed(o)
      BY <1>1, <2>2 DEF Needed
    <2>4. QED
      BY <2>1, <2>3
  <1>6. QED
    BY <1>1, <1>2, <1>3, <1>4, <1>5, AfterReset

(* A scope taken: its requester joins the part collected.                  *)
LEMMA PassesScope ==
  ASSUME DmarInv, NEW s, ReadsScope(s), Takes(s),
         acc' = OnScope(query, s, acc), scope' = scope + s.length,
         UNCHANGED <<query, pass, offset, structure, answers, errors>>
  PROVE  DmarInv'
  <1> PICK c : c = structure
    OBVIOUS
  <1> PICK at : at = c + scope
    OBVIOUS
  <1>1. /\ DOMAIN scopes' = DOMAIN scopes \union {at} /\ scopes'[at] = s
        /\ \A p \in DOMAIN scopes : scopes'[p] = scopes[p]
        /\ s \in Scopes /\ s.length \in Nat
        /\ c \in Good(sdt) /\ c \in Nat /\ sdt[c].length \in Nat /\ c + sdt[c].length = offset
        /\ at \in Nat /\ c < at
        /\ query \in Queries /\ query # NoQuery /\ sdt' = sdt /\ session' = session
        /\ Walks(query, pass, sdt[c])
    BY ScopeBytes
  <1>2. /\ query' = query /\ pass' = pass /\ offset' = offset /\ structure' = c
        /\ answers' = answers /\ errors' = errors
        /\ scope \in Nat /\ pass \in {1, 2} /\ AccTyped(acc) /\ Structures' = Structures
    BY <1>1 DEF DmarInv, Typed, Structures
  <1>3. /\ Inner(sdt', scopes', c) = Inner(sdt, scopes, c) \union {at}
        /\ \A p \in Inner(sdt, scopes, c) : scopes'[p] = scopes[p] /\ p \in Nat
        /\ s.length \in Nat \ {0} /\ at + s.length <= c + sdt[c].length
    BY ScopesHere
  <1>4. \A p \in Inner(sdt', scopes', c) : p < at + s.length => p <= at
    BY ScopesStayLaid
  <1>5. /\ AccTyped(acc')
        /\ Collected(query, pass, sdt, scopes', Done, c, Part \union {Requester(s)}, acc')
    <2>1. Collected(query, pass, sdt, scopes, Done, c, Part, acc)
      BY <1>1 DEF DmarInv, Collecting
    <2>2. \A o \in Done : o \in Good(sdt) /\ o # structure
      BY DoneFacts DEF Done
    <2>3. \A o \in Done : /\ Inner(sdt, scopes', o) = Inner(sdt, scopes, o)
                          /\ \A p \in Inner(sdt, scopes, o) : scopes'[p] = scopes[p]
      BY <1>1, <2>2, ScopesElsewhere
    <2>4. c # Nowhere
      BY <1>1 DEF Nowhere
    <2>5. QED
      BY <1>1, <1>2, <2>1, <2>3, <2>4, CollectScope
  <1>6. Part' = Part \union {Requester(s)}
    <2> DEFINE D == Inner(sdt, scopes, c)
               E == {p \in D : p < at}
    <2>1. c + (scope + s.length) = at + s.length /\ c # Nowhere
      BY <1>1, <1>2 DEF Nowhere
    <2>2. Part = {Requester(scopes[p]) : p \in E}
      BY <2>1 DEF Part, Named
    <2>3. Part' = {Requester(scopes'[p]) :
                     p \in {x \in Inner(sdt', scopes', c) : x < at + s.length}}
      BY <1>2, <2>1 DEF Part, Named
    <2>4. {x \in Inner(sdt', scopes', c) : x < at + s.length} = E \union {at}
      <3>1. \A x \in Inner(sdt', scopes', c) : x \in D \union {at} /\ x \in Nat
        BY <1>1, <1>3
      <3>2. \A x \in Inner(sdt', scopes', c) : x < at + s.length => x = at \/ x < at
        BY <1>1, <1>4, <3>1
      <3>3. \A x \in D : x < at => x < at + s.length
        BY <1>1, <1>3
      <3>4. at < at + s.length
        BY <1>1, <1>3
      <3>5. QED
        BY <1>3, <3>2, <3>3, <3>4
    <2>5. \A p \in E : scopes'[p] = scopes[p]
      BY <1>3
    <2> HIDE DEF E
    <2>6. {Requester(scopes'[p]) : p \in E \union {at}} =
            {Requester(scopes[p]) : p \in E} \union {Requester(s)}
      BY <1>1, <2>5
    <2>7. QED
      BY <2>2, <2>3, <2>4, <2>6
  <1>7. Typed'
    <2>1. DOMAIN scopes' \subseteq Nat /\ \A p \in DOMAIN scopes' : scopes'[p] \in Scopes
      BY <1>1 DEF DmarInv, Typed
    <2>2. scope' \in Nat
      BY <1>1, <1>2
    <2>3. AccTyped(acc)'
      BY <1>5 DEF AccTyped
    <2>4. QED
      BY <1>1, <1>2, <2>1, <2>2, <2>3 DEF DmarInv, Typed
  <1>8. Idle'
    BY <1>1, <1>2 DEF Idle
  <1>9. Cursor'
    <2>1. length' = sdt[c].length /\ length = sdt[c].length
      BY <1>1, <1>2 DEF length
    <2>2. MinLength[sdt[c].kind] <= scope /\ MinLength[sdt[c].kind] \in Nat
      BY <1>1, GoodFacts DEF DmarInv, Cursor, ReadsScope, InStructure
    <2>3. scope' <= sdt[c].length /\ MinLength[sdt[c].kind] <= scope'
      BY <1>1, <1>2, <2>1, <2>2 DEF Takes, ScopeFits
    <2>4. QED
      BY <1>1, <1>2, <2>1, <2>3 DEF Cursor
  <1>10. TableLaid'
    <2>1. PICK f \in 0 .. TableLength :
            /\ TableRead(f)' /\ offset \in Good(sdt') \union {f}
            /\ DOMAIN answers # {} \/ pass = 2 => f = TableLength
      BY TableUnderScopes
    <2>2. QED
      BY <1>2, <2>1 DEF TableLaid, TableRead
  <1>11. ScopesLaid'
    <2> SUFFICES ASSUME NEW o \in Good(sdt')
                 PROVE  \E g \in 0 .. o + sdt'[o].length :
                          /\ Laid(scopes', Inner(sdt', scopes', o), GoodInner(sdt', scopes', o),
                                  FirstScope(sdt', o), g)
                          /\ Needed(o)' => g = o + sdt'[o].length
                          /\ o = structure' => o + scope' \in GoodInner(sdt', scopes', o) \union {g}
      BY DEF ScopesLaid
    <2>1. PICK g \in 0 .. o + sdt'[o].length :
            /\ ScopesRead(o, g)' /\ (Needed(o) => g = o + sdt'[o].length)
            /\ o = structure /\ Takes(s) =>
                 o + (scope + s.length) \in GoodInner(sdt', scopes', o) \union {g}
      BY ScopesEverywhere
    <2>2. Needed(o)' <=> Needed(o)
      BY <1>1, <1>2 DEF Needed, Done
    <2>3. QED
      BY <1>2, <2>1, <2>2 DEF ScopesRead
  <1>12. Collecting'
    <2>1. Done' = Done
      BY <1>1, <1>2 DEF Done
    <2>2. Collected(query', pass', sdt', scopes', Done', structure', Part', acc')
      BY <1>1, <1>2, <1>5, <1>6, <2>1
    <2>3. QED
      BY <1>1, <1>2, <2>2 DEF DmarInv, Collecting
  <1>13. Answered'
    BY <1>2, AnswersUnderScopes
  <1>14. QED
    BY <1>7, <1>8, <1>9, <1>10, <1>11, <1>12, <1>13 DEF DmarInv

-----------------------------------------------------------------------------
(* The end of a structure's scopes, and of the table.                      *)

(* A structure whose scopes have all been walked joins those done.         *)
LEMMA EndsScopes ==
  ASSUME DmarInv, EndOfScopes
  PROVE  DmarInv'
  <1> PICK c : c = structure
    OBVIOUS
  <1>1. /\ query # NoQuery /\ c # Nowhere /\ scope >= length
        /\ acc' = AfterScopes(query, acc) /\ structure' = Nowhere
        /\ session' = session /\ sdt' = sdt /\ scopes' = scopes /\ query' = query /\ pass' = pass
        /\ offset' = offset /\ scope' = scope /\ answers' = answers /\ errors' = errors
    BY DEF EndOfScopes, InStructure
  <1>2. /\ query \in Queries /\ pass \in {1, 2} /\ AccTyped(acc) /\ Structures' = Structures
        /\ scope \in Nat /\ offset \in Nat /\ DOMAIN sdt \subseteq Nat
    BY <1>1 DEF DmarInv, Typed, Structures
  <1>3. /\ c \in Good(sdt) /\ c + length = offset /\ length = sdt[c].length
        /\ Walks(query, pass, sdt[c]) /\ scope <= length
    BY <1>1 DEF DmarInv, Cursor, length
  <1>4. c \in DOMAIN sdt /\ c \in Nat /\ length \in Nat \ {0} /\ sdt[c].flag \in BOOLEAN
    BY <1>3, GoodFacts DEF DmarInv
  <1>5. scope = length /\ c + scope = offset /\ c < offset
    BY <1>1, <1>2, <1>3, <1>4
  <1>6. \A o \in Done : o \in Good(sdt) /\ o \in Nat /\ o < c
    <2> SUFFICES ASSUME NEW o \in Done PROVE o \in Good(sdt) /\ o \in Nat /\ o < c
      OBVIOUS
    <2>1. o \in Good(sdt) /\ o \in Nat /\ o # c /\ o < offset
      BY <1>2, DoneFacts DEF Done
    <2>2. c < o => c + sdt[c].length <= o
      BY <1>3, <2>1 DEF DmarInv, TableLaid, Laid
    <2>3. QED
      BY <1>2, <1>3, <1>4, <2>1, <2>2
  <1>7. Done' = Done \union {c}
    <2>1. \A o : o \in Done' <=> o \in DOMAIN sdt /\ o < offset
      BY <1>1, <1>2 DEF Done, Nowhere
    <2>2. \A o : o \in Done <=> o \in DOMAIN sdt /\ o < offset /\ o # c
      BY DEF Done
    <2>3. QED
      BY <1>4, <1>5, <2>1, <2>2
  <1>8. Part = Named(scopes, Inner(sdt, scopes, c))
    <2>1. Part = Named(scopes, {p \in Inner(sdt, scopes, c) : p < c + scope})
      BY <1>1 DEF Part
    <2>2. {p \in Inner(sdt, scopes, c) : p < c + scope} = Inner(sdt, scopes, c)
      BY <1>3, <1>5 DEF Inner
    <2>3. QED
      BY <2>1, <2>2
  <1>9. /\ AccTyped(acc')
        /\ Collected(query, pass, sdt, scopes, Done \union {c}, Nowhere, {}, acc')
    <2>1. Collected(query, pass, sdt, scopes, Done, c, Named(scopes, Inner(sdt, scopes, c)), acc)
      BY <1>1, <1>8 DEF DmarInv, Collecting
    <2>2. Done \in SUBSET Nat /\ \A o \in Done : o < c
      BY <1>6
    <2>3. QED
      BY <1>1, <1>2, <1>3, <1>4, <2>1, <2>2, CollectAfter
  <1>10. Typed'
    <2>1. AccTyped(acc)'
      BY <1>9 DEF AccTyped
    <2>2. QED
      BY <1>1, <1>2, <2>1 DEF DmarInv, Typed
  <1>11. Idle' /\ Cursor'
    BY <1>1 DEF Idle, Cursor
  <1>12. TableLaid'
    BY <1>1 DEF DmarInv, TableLaid, Good
  <1>13. ScopesLaid'
    <2> SUFFICES ASSUME NEW o \in Good(sdt)
                 PROVE  \E g \in 0 .. o + sdt[o].length :
                          /\ Laid(scopes, Inner(sdt, scopes, o), GoodInner(sdt, scopes, o),
                                  FirstScope(sdt, o), g)
                          /\ Needed(o)' => g = o + sdt[o].length
                          /\ o = structure' => o + scope \in GoodInner(sdt, scopes, o) \union {g}
      BY <1>1 DEF ScopesLaid
    <2>1. PICK g \in 0 .. o + sdt[o].length :
            /\ Laid(scopes, Inner(sdt, scopes, o), GoodInner(sdt, scopes, o), FirstScope(sdt, o), g)
            /\ Needed(o) => g = o + sdt[o].length
            /\ o = c => o + scope \in GoodInner(sdt, scopes, o) \union {g}
      BY DEF DmarInv, ScopesLaid
    <2>2. o \in Nat /\ o # structure'
      BY <1>1, <1>2 DEF Good, Nowhere
    <2>3. CASE o = c
      <3>1. \A p \in GoodInner(sdt, scopes, o) : p < offset
        BY <1>3, <2>3 DEF GoodInner, Inner
      <3>2. offset \notin GoodInner(sdt, scopes, o)
        BY <1>2, <3>1
      <3>3. g = o + sdt[o].length
        BY <1>3, <1>5, <2>1, <2>3, <3>2
      <3>4. QED
        BY <2>1, <2>2, <3>3
    <2>4. CASE o # c
      <3>1. Needed(o)' => Needed(o)
        BY <1>1, <1>7, <2>4 DEF Needed
      <3>2. QED
        BY <2>1, <2>2, <3>1
    <2>5. QED
      BY <2>3, <2>4
  <1>14. Collecting'
    <2>1. Part' = {}
      BY <1>1 DEF Part
    <2>2. Collected(query', pass', sdt', scopes', Done', structure', Part', acc')
      BY <1>1, <1>7, <1>9, <2>1
    <2>3. QED
      BY <1>1, <2>2 DEF DmarInv, Collecting
  <1>15. Answered'
    BY <1>1 DEF DmarInv, Answered
  <1>16. QED
    BY <1>10, <1>11, <1>12, <1>13, <1>14, <1>15 DEF DmarInv

(* At the end of the table every structure has been read and passed.       *)
LEMMA WholeTable ==
  ASSUME DmarInv, BetweenStructures, offset >= TableLength
  PROVE  /\ Laid(sdt, DOMAIN sdt, Good(sdt), 0, TableLength)
         /\ \A p \in DOMAIN scopes : p < TableLength
         /\ Done = DOMAIN sdt
         /\ Collected(query, pass, sdt, scopes, DOMAIN sdt, Nowhere, {}, acc)
  <1>1. PICK f \in 0 .. TableLength :
          /\ Laid(sdt, DOMAIN sdt, Good(sdt), 0, f) /\ offset \in Good(sdt) \union {f}
          /\ \A p \in DOMAIN scopes : p < f
    BY DEF DmarInv, TableLaid
  <1>2. /\ TableLength \in Nat /\ HeaderLength \in Nat \ {0} /\ offset \in Nat /\ DOMAIN sdt \subseteq Nat
        /\ \A o \in DOMAIN sdt : o + HeaderLength <= TableLength
        /\ query # NoQuery /\ structure = Nowhere
    BY LengthsAssumption DEF DmarInv, Typed, BetweenStructures
  <1>3. \A o \in DOMAIN sdt : o \in Nat /\ o < TableLength /\ o < offset
    BY <1>2
  <1>4. offset = f /\ f = TableLength
    BY <1>1, <1>2, <1>3 DEF Good
  <1>5. Done = DOMAIN sdt
    BY <1>2, <1>3 DEF Done, Nowhere
  <1>6. Part = {}
    BY <1>2 DEF Part
  <1>7. QED
    BY <1>1, <1>2, <1>4, <1>5, <1>6 DEF DmarInv, Collecting

(* A query that returns Ok returns what the table defines.                 *)
LEMMA Finishes ==
  ASSUME DmarInv, BetweenStructures, offset >= TableLength,
         ~(query.name = "satc_device_ats_required" /\ pass = 1 /\ ~acc.found),
         Finish, UNCHANGED <<session, sdt, scopes>>
  PROVE  DmarInv'
  <1>1. /\ Reset /\ answers' = Remember(answers, query, Answer(query, acc)) /\ errors' = errors
        /\ session' = session /\ sdt' = sdt /\ scopes' = scopes
    BY DEF Finish
  <1>2. /\ Laid(sdt, DOMAIN sdt, Good(sdt), 0, TableLength)
        /\ \A p \in DOMAIN scopes : p < TableLength
        /\ Done = DOMAIN sdt
        /\ Collected(query, pass, sdt, scopes, DOMAIN sdt, Nowhere, {}, acc)
    BY WholeTable
  <1>3. /\ query \in Queries /\ query # NoQuery /\ pass \in {1, 2} /\ AccTyped(acc)
        /\ acc.found \in BOOLEAN
        /\ Structures' = Structures
    BY <1>1 DEF BetweenStructures, DmarInv, Typed, AccTyped, Structures
  <1>4. /\ Answer(query, acc) = Value(query, sdt, scopes)
        /\ \A o \in DOMAIN sdt : Walks(query, LastPass(sdt), sdt[o]) => Walks(query, pass, sdt[o])
    <2>1. query.name = "satc_device_ats_required" /\ pass = 1 => acc.found
      BY <1>3
    <2>2. pass = 2 => \A o \in DOMAIN sdt : sdt[o].kind # "SIDP"
      BY <1>3 DEF DmarInv, Collecting
    <2>3. QED
      BY <1>2, <1>3, <2>1, <2>2, AnswerIsValue
  <1>5. /\ DOMAIN answers' = DOMAIN answers \union {query}
        /\ answers'[query] = Answer(query, acc)
        /\ \A q \in DOMAIN answers : q # query => answers'[q] = answers[q]
    <2> PICK x : x = Answer(query, acc)
      OBVIOUS
    <2>1. answers' = Remember(answers, query, x)
      BY <1>1
    <2>2. QED
      BY <2>1 DEF Remember
  <1>6. Answered'
    BY <1>1, <1>4, <1>5 DEF DmarInv, Answered
  <1>7. BytesTyped'
    BY <1>1, <1>3, <1>5 DEF DmarInv, Typed, BytesTyped
  <1>8. TableRead(TableLength)'
    BY <1>1, <1>2 DEF TableRead
  <1>9. ASSUME NEW o \in Good(sdt')
        PROVE  \E g \in 0 .. o + sdt'[o].length :
                 /\ ScopesRead(o, g)'
                 /\ (\E q \in DOMAIN answers' : Walks(q, LastPass(sdt'), sdt'[o])) =>
                      g = o + sdt'[o].length
    <2>1. o \in Good(sdt) /\ o \in DOMAIN sdt
      BY <1>1, <1>9 DEF Good
    <2>2. PICK g \in 0 .. o + sdt[o].length :
            /\ Laid(scopes, Inner(sdt, scopes, o), GoodInner(sdt, scopes, o), FirstScope(sdt, o), g)
            /\ Needed(o) => g = o + sdt[o].length
      BY <2>1 DEF DmarInv, ScopesLaid
    <2>3. ScopesRead(o, g)'
      BY <1>1, <2>2 DEF ScopesRead
    <2>4. ASSUME NEW q \in DOMAIN answers', Walks(q, LastPass(sdt'), sdt'[o]) PROVE Needed(o)
      <3>1. CASE q \in DOMAIN answers
        BY <1>1, <2>4, <3>1 DEF Needed
      <3>2. CASE q = query
        BY <1>1, <1>2, <1>3, <1>4, <2>1, <2>4, <3>2 DEF Needed
      <3>3. QED
        BY <1>5, <3>1, <3>2
    <2>5. QED
      BY <1>1, <2>2, <2>3, <2>4
  <1>10. TableLength \in 0 .. TableLength
    BY LengthsAssumption
  <1>11. QED
    BY <1>1, <1>6, <1>7, <1>8, <1>9, <1>10, AfterReset

(* satc_device_ats_required walks the table again.                         *)
LEMMA WalksAgain ==
  ASSUME DmarInv, BetweenStructures, offset >= TableLength,
         query.name = "satc_device_ats_required" /\ pass = 1 /\ ~acc.found,
         SecondWalk, UNCHANGED <<session, sdt, scopes>>
  PROVE  DmarInv'
  <1>1. /\ pass' = 2 /\ offset' = 0 /\ query' = query /\ structure' = Nowhere /\ structure = Nowhere
        /\ scope' = scope /\ acc' = acc /\ answers' = answers /\ errors' = errors
        /\ session' = session /\ sdt' = sdt /\ scopes' = scopes /\ query # NoQuery
    BY DEF SecondWalk, BetweenStructures
  <1>2. /\ Laid(sdt, DOMAIN sdt, Good(sdt), 0, TableLength)
        /\ \A p \in DOMAIN scopes : p < TableLength
        /\ Collected(query, 1, sdt, scopes, DOMAIN sdt, Nowhere, {}, acc)
    BY WholeTable
  <1>3. /\ Collected(query, 2, sdt, scopes, {}, Nowhere, {}, acc)
        /\ \A o \in DOMAIN sdt : sdt[o].kind # "SIDP"
    BY <1>2, CollectAgain
  <1>4. Done' = {} /\ Part' = {}
    <2>1. \A o \in DOMAIN sdt : ~(o < 0)
      BY DEF DmarInv, Typed
    <2>2. QED
      BY <1>1, <2>1 DEF Done, Part
  <1>5. Typed'
    <2>1. AccTyped(acc)'
      BY <1>1 DEF AccTyped, DmarInv, Typed
    <2>2. QED
      BY <1>1, <2>1 DEF DmarInv, Typed, Structures
  <1>6. Idle' /\ Cursor'
    BY <1>1 DEF Idle, Cursor
  <1>7. TableLaid'
    <2>1. TableLength \in 0 .. TableLength
      BY LengthsAssumption
    <2>2. 0 \in Good(sdt) \union {TableLength}
      BY <1>2 DEF Laid
    <2>3. QED
      BY <1>1, <1>2, <2>1, <2>2 DEF TableLaid, Good
  <1>8. ScopesLaid'
    <2> SUFFICES ASSUME NEW o \in Good(sdt)
                 PROVE  \E g \in 0 .. o + sdt[o].length :
                          /\ Laid(scopes, Inner(sdt, scopes, o), GoodInner(sdt, scopes, o),
                                  FirstScope(sdt, o), g)
                          /\ Needed(o)' => g = o + sdt[o].length
                          /\ o = structure' => o + scope' \in GoodInner(sdt, scopes, o) \union {g}
      BY <1>1 DEF ScopesLaid
    <2>1. PICK g \in 0 .. o + sdt[o].length :
            /\ Laid(scopes, Inner(sdt, scopes, o), GoodInner(sdt, scopes, o), FirstScope(sdt, o), g)
            /\ Needed(o) => g = o + sdt[o].length
      BY DEF DmarInv, ScopesLaid
    <2>2. Needed(o)' => Needed(o)
      BY <1>1, <1>4 DEF Needed
    <2>3. o # structure'
      BY <1>1 DEF Good, Nowhere, DmarInv, Typed
    <2>4. QED
      BY <2>1, <2>2, <2>3
  <1>9. Collecting'
    BY <1>1, <1>3, <1>4 DEF Collecting
  <1>10. Answered'
    BY <1>1 DEF DmarInv, Answered
  <1>11. QED
    BY <1>5, <1>6, <1>7, <1>8, <1>9, <1>10 DEF DmarInv

(* A query begins with nothing collected.                                  *)
LEMMA Begins ==
  ASSUME DmarInv, NEW q \in Queries, Begin(q)
  PROVE  DmarInv'
  <1>1. /\ query = NoQuery /\ query' = q
        /\ pass' = pass /\ offset' = offset /\ structure' = structure /\ scope' = scope /\ acc' = acc
        /\ answers' = answers /\ errors' = errors
        /\ session' = session /\ sdt' = sdt /\ scopes' = scopes
    BY DEF Begin, walkVars
  <1>2. pass = 1 /\ offset = 0 /\ structure = Nowhere /\ acc = Fresh
    BY <1>1 DEF DmarInv, Idle
  <1>3. Done = {} /\ Done' = {} /\ Part' = {}
    <2>1. \A o \in DOMAIN sdt : ~(o < 0)
      BY DEF DmarInv, Typed
    <2>2. QED
      BY <1>1, <1>2, <2>1 DEF Done, Part
  <1>4. Typed'
    <2>1. AccTyped(acc)'
      BY <1>1 DEF AccTyped, DmarInv, Typed
    <2>2. QED
      BY <1>1, <2>1 DEF DmarInv, Typed, Structures
  <1>5. Idle'
    <2>1. q.name \in QueryNames
      BY SessionsAssumption
    <2>2. NoQuery.name \notin QueryNames
      BY DEF NoQuery, None, QueryNames
    <2>3. QED
      BY <1>1, <2>1, <2>2 DEF Idle
  <1>6. Cursor' /\ TableLaid'
    BY <1>1, <1>2 DEF DmarInv, Cursor, TableLaid, Good
  <1>7. ScopesLaid'
    <2> SUFFICES ASSUME NEW o \in Good(sdt)
                 PROVE  \E g \in 0 .. o + sdt[o].length :
                          /\ Laid(scopes, Inner(sdt, scopes, o), GoodInner(sdt, scopes, o),
                                  FirstScope(sdt, o), g)
                          /\ Needed(o)' => g = o + sdt[o].length
                          /\ o = structure' => o + scope' \in GoodInner(sdt, scopes, o) \union {g}
      BY <1>1 DEF ScopesLaid
    <2>1. PICK g \in 0 .. o + sdt[o].length :
            /\ Laid(scopes, Inner(sdt, scopes, o), GoodInner(sdt, scopes, o), FirstScope(sdt, o), g)
            /\ Needed(o) => g = o + sdt[o].length
      BY DEF DmarInv, ScopesLaid
    <2>2. Needed(o)' => Needed(o)
      BY <1>1, <1>3 DEF Needed
    <2>3. o # structure'
      BY <1>1, <1>2 DEF Good, Nowhere, DmarInv, Typed
    <2>4. QED
      BY <2>1, <2>2, <2>3
  <1>8. Collecting'
    <2>1. Collected(q, 1, sdt, scopes, {}, Nowhere, {}, Fresh)
      BY CollectNone
    <2>2. QED
      BY <1>1, <1>2, <1>3, <2>1 DEF Collecting
  <1>9. Answered'
    BY <1>1 DEF DmarInv, Answered
  <1>10. QED
    BY <1>4, <1>5, <1>6, <1>7, <1>8, <1>9 DEF DmarInv

-----------------------------------------------------------------------------
(* The theorems.                                                           *)

(* Before anything is read.                                                *)
LEMMA AtFirst == ASSUME Init PROVE DmarInv
  <1>1. /\ session \in Sessions /\ sdt = <<>> /\ scopes = <<>> /\ query = NoQuery /\ pass = 1
        /\ offset = 0 /\ structure = Nowhere /\ scope = 0 /\ acc = Fresh
        /\ answers = <<>> /\ errors = {}
    BY DEF Init
  <1>2. DOMAIN sdt = {} /\ DOMAIN scopes = {} /\ DOMAIN answers = {}
    BY <1>1
  <1>3. Good(sdt) = {}
    BY <1>2 DEF Good
  <1>4. Typed
    <2>1. AccTyped(acc)
      BY <1>1 DEF AccTyped, Fresh
    <2>2. QED
      BY <1>1, <1>2, <2>1 DEF Typed
  <1>5. Idle /\ Cursor /\ Collecting
    BY <1>1 DEF Idle, Cursor, Collecting
  <1>6. TableLaid
    <2>1. Laid(sdt, DOMAIN sdt, Good(sdt), 0, 0) /\ \A p \in DOMAIN scopes : p < 0
      BY <1>2, <1>3 DEF Laid
    <2>2. 0 \in 0 .. TableLength
      BY LengthsAssumption
    <2>3. QED
      BY <1>1, <1>2, <1>3, <2>1, <2>2 DEF TableLaid
  <1>7. ScopesLaid /\ Answered
    BY <1>2, <1>3 DEF ScopesLaid, Answered
  <1>8. QED
    BY <1>4, <1>5, <1>6, <1>7 DEF DmarInv

(* Every step keeps the invariant.                                         *)
LEMMA EveryStep == ASSUME DmarInv, [Next]_vars PROVE DmarInv'
  <1>1. CASE EndOfTable
    <2>1. BetweenStructures /\ offset >= TableLength /\ UNCHANGED <<session, sdt, scopes>>
      BY <1>1 DEF EndOfTable
    <2>2. CASE query.name = "satc_device_ats_required" /\ pass = 1 /\ ~acc.found
      <3>1. SecondWalk
        BY <1>1, <2>2 DEF EndOfTable
      <3>2. QED
        BY <2>1, <2>2, <3>1, WalksAgain
    <2>3. CASE ~(query.name = "satc_device_ats_required" /\ pass = 1 /\ ~acc.found)
      <3>1. Finish
        BY <1>1, <2>3 DEF EndOfTable
      <3>2. QED
        BY <2>1, <2>3, <3>1, Finishes
    <2>4. QED
      BY <2>2, <2>3
  <1>2. CASE TruncatedStructure
    BY <1>2, FailsUnread DEF TruncatedStructure, BetweenStructures
  <1>3. CASE NextStructure
    <2>1. PICK h \in Contents(sdt, offset, Structures) :
            /\ sdt' = Remember(sdt, offset, h)
            /\ \/ Fail
               \/ /\ Fits(h)
                  /\ offset' = offset + h.length
                  /\ acc' = IF Selects(query, pass, h) THEN OnStructure(query, offset, h, acc) ELSE acc
                  /\ structure' = IF Walks(query, pass, h) THEN offset ELSE Nowhere
                  /\ scope' = MinLength[h.kind]
                  /\ UNCHANGED <<query, pass, answers, errors>>
      BY <1>3 DEF NextStructure, Fits
    <2>2. ReadsStructure(h)
      BY <1>3, <2>1 DEF NextStructure, ReadsStructure
    <2>3. CASE Fail
      BY <2>2, <2>3, FailsOnStructure
    <2>4. CASE ~Fail
      BY <2>1, <2>2, <2>4, PassesStructure
    <2>5. QED
      BY <2>3, <2>4
  <1>4. CASE EndOfScopes
    BY <1>4, EndsScopes
  <1>5. CASE TruncatedScope
    BY <1>5, FailsUnread DEF TruncatedScope, InStructure
  <1>6. CASE NextScope
    <2>1. PICK s \in Contents(scopes, structure + scope, Scopes) :
            /\ scopes' = Remember(scopes, structure + scope, s)
            /\ \/ Fail
               \/ /\ Takes(s)
                  /\ acc' = OnScope(query, s, acc)
                  /\ scope' = scope + s.length
                  /\ UNCHANGED <<query, pass, offset, structure, answers, errors>>
      BY <1>6 DEF NextScope, Takes
    <2>2. ReadsScope(s)
      BY <1>6, <2>1 DEF NextScope, ReadsScope
    <2>3. CASE Fail
      BY <2>2, <2>3, FailsOnScope
    <2>4. CASE ~Fail
      BY <2>1, <2>2, <2>4, PassesScope
    <2>5. QED
      BY <2>3, <2>4
  <1>7. CASE \E q \in Queries : Begin(q)
    BY <1>7, Begins
  <1>8. CASE UNCHANGED vars
    BY <1>8 DEF vars, walkVars, DmarInv, Typed, Structures, AccTyped, Idle, Cursor, length, TableLaid,
                ScopesLaid, Needed, Done, Collecting, Part, Answered
  <1>9. QED
    BY <1>1, <1>2, <1>3, <1>4, <1>5, <1>6, <1>7, <1>8 DEF Next, Walk

(* Structures and scopes are laid out as the walks read them, and the      *)
(* query under way has collected what those it has passed define: the      *)
(* inductive invariant of Queries on a DMAR table.                         *)
THEOREM DmarInvariance == Spec => []DmarInv
  <1>1. Init => DmarInv
    BY AtFirst
  <1>2. DmarInv /\ [Next]_vars => DmarInv'
    BY EveryStep
  <1>3. QED
    BY <1>1, <1>2, PTL DEF Spec

(* Whatever lengths the firmware declares, the iterator and the unchecked  *)
(* slices of walk_device_scopes stay inside the table, and no structure's  *)
(* scopes are read from another's bytes.                                   *)
THEOREM WalksStayInBounds == Spec => []CursorInBounds
  <1>1. ASSUME DmarInv PROVE CursorInBounds
    <2>1. PICK f \in 0 .. TableLength :
            Laid(sdt, DOMAIN sdt, Good(sdt), 0, f) /\ offset \in Good(sdt) \union {f}
      BY <1>1 DEF DmarInv, TableLaid
    <2>2. offset <= TableLength
      <3>1. /\ TableLength \in Nat /\ HeaderLength \in Nat /\ offset \in Nat
            /\ \A o \in DOMAIN sdt : o + HeaderLength <= TableLength
        BY <1>1, LengthsAssumption DEF DmarInv, Typed
      <3>2. QED
        BY <2>1, <3>1 DEF Good
    <2>3. structure \in DOMAIN sdt \union {Nowhere}
      BY <1>1 DEF DmarInv, Cursor, Good
    <2>4. TypeOK
      BY <1>1, <2>3 DEF DmarInv, Typed, AccTyped, TypeOK
    <2>5. InStructure => structure + length <= offset /\ scope <= length
      BY <1>1 DEF DmarInv, Typed, Cursor, InStructure
    <2>6. QED
      BY <2>2, <2>4, <2>5 DEF CursorInBounds
  <1>2. QED
    BY <1>1, DmarInvariance, PTL

(* The reference definitions are of what the walks collect: a scope read   *)
(* from a structure lies behind its fixed part.                            *)
LEMMA ExpectedIsValue ==
  ASSUME DmarInv, NEW q \in DOMAIN answers
  PROVE  Expected(q) = Value(q, sdt, scopes)
  <1>1. q \in Queries /\ q.name \in QueryNames
    BY SessionsAssumption DEF DmarInv, Typed
  <1>2. DOMAIN sdt = Good(sdt)
    <2>1. Laid(sdt, DOMAIN sdt, Good(sdt), 0, TableLength)
      BY DEF DmarInv, TableLaid
    <2>2. /\ DOMAIN sdt \subseteq Nat /\ TableLength \in Nat /\ HeaderLength \in Nat \ {0}
          /\ \A o \in DOMAIN sdt : o + HeaderLength <= TableLength
      BY LengthsAssumption DEF DmarInv, Typed
    <2>3. \A o \in DOMAIN sdt : o # TableLength
      BY <2>2
    <2>4. QED
      BY <2>1, <2>3 DEF Laid
  <1>3. \A o : RequestersOf(o) = Named(scopes, Inner(sdt, scopes, o))
    BY DEF RequestersOf, ScopesOf, Named, Inner
  <1>4. ASSUME NEW S, NEW n,
               \A o \in DOMAIN sdt : Walks(q, n, sdt[o]) <=> o \in S, S \subseteq DOMAIN sdt
        PROVE  AllOf(q, n, sdt, scopes, DOMAIN sdt) = UNION {RequestersOf(o) : o \in S}
    <2>1. Walked(q, n, sdt, DOMAIN sdt) = S
      BY <1>4 DEF Walked
    <2>2. QED
      BY <1>3, <2>1 DEF AllOf
  <1>5. CASE q.name = "drhd_bdf_ranges"
    <2> DEFINE S == {o \in UnitsAt(q) : ~sdt[o].flag}
    <2>1. \A o \in DOMAIN sdt : Walks(q, LastPass(sdt), sdt[o]) <=> o \in S
      BY <1>5 DEF Walks, Selects, Visits, UnitsAt
    <2>2. S \subseteq DOMAIN sdt
      BY DEF UnitsAt
    <2> HIDE DEF S
    <2>3. AllOf(q, LastPass(sdt), sdt, scopes, DOMAIN sdt) = UNION {RequestersOf(o) : o \in S}
      BY <1>4, <2>1, <2>2
    <2>4. Expected(q) = UnionOf(S)
      BY <1>5 DEF Expected, S
    <2>5. QED
      BY <1>5, <2>3, <2>4 DEF UnionOf, Value, Collects
  <1>6. CASE q.name = "rmrr_bdf_ranges"
    <2> DEFINE S == RegionsAt(q)
    <2>1. \A o \in DOMAIN sdt : Walks(q, LastPass(sdt), sdt[o]) <=> o \in S
      BY <1>6 DEF Walks, Selects, Visits, RegionsAt
    <2>2. S \subseteq DOMAIN sdt
      BY DEF RegionsAt
    <2> HIDE DEF S
    <2>3. AllOf(q, LastPass(sdt), sdt, scopes, DOMAIN sdt) = UNION {RequestersOf(o) : o \in S}
      BY <1>4, <2>1, <2>2
    <2>4. Expected(q) = UnionOf(S)
      BY <1>6 DEF Expected, S
    <2>5. QED
      BY <1>6, <2>3, <2>4 DEF UnionOf, Value, Collects
  <1>7. CASE q.name = "drhd_requester_match"
    <2>1. UnitsAt(q) = UnitsIn(q, sdt, DOMAIN sdt)
      BY DEF UnitsAt, UnitsIn
    <2>2. \A o : MatchOf(q, o) = MatchIn(q, sdt, scopes, o)
      BY <1>3 DEF MatchOf, MatchIn
    <2>3. Expected(q) = IF UnitsAt(q) = {} THEN None ELSE MatchOf(q, Max(UnitsAt(q)))
      BY <1>7 DEF Expected
    <2>4. QED
      BY <1>7, <2>1, <2>2, <2>3 DEF Value, Collects
  <1>8. CASE q.name = "rhsa_proximity_domain_for_registers"
    <2>1. {o \in DOMAIN sdt : sdt[o].kind = "RHSA" /\ sdt[o].window = q.window}
            = DomainsIn(q, sdt, DOMAIN sdt)
      BY DEF DomainsIn
    <2>2. QED
      BY <1>8, <2>1 DEF Expected, Value, Collects
  <1>9. CASE q.name = "andd_name_for_device_number"
    <2>1. {o \in DOMAIN sdt : sdt[o].kind = "ANDD" /\ sdt[o].segment = q.number}
            = NamesIn(q, sdt, DOMAIN sdt)
      BY DEF NamesIn
    <2>2. QED
      BY <1>9, <2>1 DEF Expected, Value, Collects
  <1>10. CASE q.name = "satc_device_ats_required"
    <2> DEFINE S == {o \in DOMAIN sdt : /\ sdt[o].kind = "SATC" /\ sdt[o].flag
                                        /\ sdt[o].segment = q.segment
                                        /\ sdt[o].length > MinLength["SATC"]}
    <2>1. \A o \in DOMAIN sdt : Walks(q, 2, sdt[o]) <=> o \in S
      BY <1>10 DEF Walks, Selects, Visits
    <2>2. AllOf(q, 2, sdt, scopes, DOMAIN sdt) = UNION {RequestersOf(o) : o \in S}
      BY <1>4, <2>1
    <2>3. ASSUME NEW o \in DOMAIN sdt, sdt[o].kind = "SATC", q.bdf \in RequestersOf(o)
          PROVE  sdt[o].length > MinLength["SATC"]
      <3>1. /\ o \in Good(sdt) /\ o \in Nat /\ sdt[o].length \in Nat /\ MinLength[sdt[o].kind] \in Nat
        BY <1>2, GoodFacts DEF DmarInv
      <3>2. PICK p \in Inner(sdt, scopes, o) : q.bdf = Requester(scopes[p])
        BY <1>3, <2>3 DEF Named
      <3>3. p \in Nat /\ p < o + sdt[o].length
        BY <3>2 DEF Inner, DmarInv, Typed
      <3>4. PICK g \in 0 .. o + sdt[o].length :
              Laid(scopes, Inner(sdt, scopes, o), GoodInner(sdt, scopes, o), FirstScope(sdt, o), g)
        BY <3>1 DEF DmarInv, ScopesLaid
      <3>5. FirstScope(sdt, o) <= p
        <4>1. g \in Nat /\ FirstScope(sdt, o) \in Nat
          BY <3>1 DEF FirstScope
        <4>2. FirstScope(sdt, o) <= g
          BY <3>4, <4>1 DEF Laid
        <4>3. QED
          BY <3>2, <3>4, <4>2 DEF Laid
      <3>6. QED
        BY <2>3, <3>1, <3>3, <3>5 DEF FirstScope
    <2>4. LastPass(sdt) = 2 <=> \A o \in DOMAIN sdt : sdt[o].kind # "SIDP"
      BY DEF LastPass
    <2>5. q.bdf \in UNION {RequestersOf(o) : o \in S} <=>
            \E o \in DOMAIN sdt : /\ sdt[o].kind = "SATC" /\ sdt[o].flag /\ sdt[o].segment = q.segment
                                  /\ q.bdf \in RequestersOf(o)
      BY <2>3
    <2>6. Expected(q) <=>
            (/\ \A o \in DOMAIN sdt : sdt[o].kind # "SIDP"
             /\ \E o \in DOMAIN sdt :
                  /\ sdt[o].kind = "SATC" /\ sdt[o].flag /\ sdt[o].segment = q.segment
                  /\ q.bdf \in RequestersOf(o))
      BY <1>10 DEF Expected
    <2>7. Value(q, sdt, scopes) <=> LastPass(sdt) = 2 /\ q.bdf \in AllOf(q, 2, sdt, scopes, DOMAIN sdt)
      BY <1>10 DEF Value, Collects
    <2>8. Expected(q) \in BOOLEAN /\ Value(q, sdt, scopes) \in BOOLEAN
      BY <1>10 DEF Expected, Value, Collects
    <2>9. QED
      BY <2>2, <2>4, <2>5, <2>6, <2>7, <2>8
  <1>11. QED
    BY <1>1, <1>5, <1>6, <1>7, <1>8, <1>9, <1>10 DEF QueryNames

(* Every Ok answer is the one the whole table defines, over any table and  *)
(* after any other queries.                                                *)
THEOREM AnswersAreCorrect == Spec => []AnswersCorrect
  <1>1. ASSUME DmarInv PROVE AnswersCorrect
    BY <1>1, ExpectedIsValue DEF DmarInv, Answered, AnswersCorrect
  <1>2. QED
    BY <1>1, DmarInvariance, PTL

=============================================================================
