--------------------------- MODULE IvrsTableProofs ---------------------------
(***************************************************************************)
(* Proofs about IvrsTable: whatever bytes the firmware has written, the    *)
(* walks stay inside the table, the second walk of a block agrees with the *)
(* first, and an Ok answer is what the unit's blocks denote.               *)
(***************************************************************************)
EXTENDS IvrsTable, TLAPS

-----------------------------------------------------------------------------
(* The inductive invariant.                                                *)

Typed ==
  /\ DOMAIN sdt \subseteq Nat /\ \A o \in DOMAIN sdt : sdt[o] \in Blocks
  /\ DOMAIN entries \subseteq Nat /\ \A o \in DOMAIN entries : entries[o] \in Entries
  /\ offset \in Nat /\ block \in Nat /\ entry \in Nat
  /\ walk \in {"blocks", "parse", "collect"}
  /\ pending \in Bdfs \union {NoBdf} /\ all \in BOOLEAN
  /\ acc \in [found : BOOLEAN, all : BOOLEAN, ranges : SUBSET Bdfs]
  /\ result \in {"running", "Ok", "Malformed", "Full"}

(* The block being walked is the last one, and the entry cursor is in it.  *)
Cursor ==
  /\ offset <= TableLength
  /\ result = "Ok" => walk = "blocks"
  /\ walk # "blocks" =>
       /\ block \in DOMAIN sdt /\ Ivhd(sdt[block]) /\ block + blockLength = offset
       /\ MinLength[sdt[block].kind] <= entry /\ entry <= blockLength

(* Blocks walked before lie in front of the one being walked, and no entry *)
(* has been read behind it.                                                *)
Separate ==
  result # "Malformed" =>
    /\ \A b \in DOMAIN sdt :
         b < offset /\ (b + sdt[b].length <= (IF walk = "blocks" THEN offset ELSE block)
                        \/ (walk # "blocks" /\ b = block))
    /\ \A p \in DOMAIN entries : p < offset

(* The entries at E in the memory m are laid end to end through the block  *)
(* up to `front`, a stop is the last of them, and no range is reversed.    *)
LaidOut(m, E, front) ==
  /\ \A p \in E :
       /\ block + MinLength[sdt[block].kind] <= p
       /\ m[p].type # "stop" =>
            /\ EntryFits(p - block, blockLength, m[p])
            /\ p + EntrySize(m[p]) \in E \union {front}
  /\ \A p, q \in E : p < q => m[p].type # "stop" /\ p + EntrySize(m[p]) <= q
  /\ block + MinLength[sdt[block].kind] \in E \union {front}
  /\ \A x, y \in E : Closes(m, E, x, y) => m[x].id <= m[y].id

(* parse_ivhd has read exactly what is behind its cursor.                  *)
Parsing ==
  walk = "parse" /\ result # "Malformed" =>
    /\ \A p \in EntriesOf(block) : p < block + entry /\ entries[p].type # "stop"
    /\ LaidOut(entries, EntriesOf(block), block + entry)
    /\ all <=> \E p \in EntriesOf(block) : entries[p].type = "all"

(* The collecting walk has the entries of the first one before it.         *)
Collecting ==
  walk = "collect" =>
    /\ result # "Malformed" /\ ~all
    /\ \A p \in EntriesOf(block) : entries[p].type # "all"
    /\ LaidOut(entries, EntriesOf(block), block + blockLength)
    /\ block + entry \in EntriesOf(block) \union {block + blockLength}

(* Starts with no start or end behind them.                                *)
Open(m, E) ==
  {x \in E : m[x].type \in Starts
             /\ \A z \in E : x < z => m[z].type \notin Starts \union {"end"}}

OpenIs(m, E, p) == IF p = NoBdf THEN Open(m, E) = {} ELSE \E x \in Open(m, E) : m[x].id = p

Behind == {p \in EntriesOf(block) : p < block + entry}

(* pending_range_start is the range open at the cursor.                    *)
Pending == walk # "blocks" /\ result # "Malformed" => OpenIs(entries, Behind, pending)

(* What has been collected is what the unit's blocks so far denote.        *)
DoneUnits == UnitBlocks \ (IF walk = "blocks" THEN {} ELSE {block})
HasAll(b) == \E p \in EntriesOf(b) : entries[p].type = "all"
PartOf == IF walk = "collect" THEN DenotedBy(entries, Behind) ELSE {}

Collected ==
  result # "Malformed" =>
    /\ ~acc.found => DoneUnits = {}
    /\ acc.all <=> \E b \in DoneUnits : HasAll(b)
    /\ ~acc.all => acc.ranges = (UNION {Denoted(b) : b \in DoneUnits}) \union PartOf
    /\ walk = "collect" => acc.found /\ sdt[block].window = Unit

IvrsInv == Typed /\ Cursor /\ Separate /\ Parsing /\ Collecting /\ Pending /\ Collected

-----------------------------------------------------------------------------
(* Reading the table.                                                      *)

(* The requester ids are integers from 0, and NoBdf is none of them.       *)
LEMMA BdfFacts ==
  Bdfs \subseteq Nat /\ NoBdf \notin Bdfs /\ NoBdf \in Int
         /\ \A a, b \in Bdfs : a .. b \subseteq Bdfs
  <1>1. Space \in Nat
    BY LengthsAssumption
  <1>2. Bdfs \subseteq Nat /\ NoBdf \notin Bdfs /\ NoBdf \in Int
    BY <1>1 DEF Bdfs, NoBdf
  <1>3. ASSUME NEW a \in Bdfs, NEW b \in Bdfs PROVE a .. b \subseteq Bdfs
    <2>1. \A i \in a .. b : i \in 0 .. Space - 1
      BY <1>1, <1>3 DEF Bdfs
    <2>2. QED
      BY <2>1 DEF Bdfs
  <1>4. QED
    BY <1>2, <1>3

(* An entry has a size, and the entries that name an id name one.          *)
LEMMA EntryFacts ==
  ASSUME NEW e \in Entries
  PROVE  /\ EntrySize(e) \in Nat \ {0}
         /\ e.type \in Selects \union Starts \union {"end"} => e.id \in Bdfs
  <1>1. e.uid \in Nat
    <2>1. e.uid \in {0} \/ e.uid \in UidLengths
      BY DEF Entries
    <2>2. \A n \in UidLengths : n \in Nat
      BY LengthsAssumption
    <2>3. QED
      BY <2>1, <2>2
  <1>2. EntrySize(e) \in Nat \ {0}
    <2>1. CASE e.type = "named"
      BY <1>1, <2>1, LengthsAssumption DEF EntrySize
    <2>2. CASE e.type # "named"
      BY <2>2, LengthsAssumption DEF EntrySize
    <2>3. QED
      BY <2>1, <2>2
  <1>3. e.type \in Selects \union Starts \union {"end"} => e.id \in Bdfs
    BY DEF Entries, Selects, Starts
  <1>4. QED
    BY <1>2, <1>3

(* The pending start after an entry is an id or none, and what is handed   *)
(* to the closure are ids.                                                 *)
LEMMA PendingTyped ==
  ASSUME NEW e \in Entries, NEW p \in Bdfs \union {NoBdf}
  PROVE  PendingAfter(e, p) \in Bdfs \union {NoBdf} /\ Ids(e, p) \subseteq Bdfs
  <1>1. e.type \in Selects \union Starts \union {"end"} => e.id \in Bdfs
    BY EntryFacts
  <1>2. PendingAfter(e, p) \in Bdfs \union {NoBdf}
    BY <1>1 DEF PendingAfter
  <1>3. Ids(e, p) \subseteq Bdfs
    <2>1. CASE e.type \in Selects
      BY <1>1, <2>1 DEF Ids, Selects
    <2>2. CASE e.type = "end" /\ p # NoBdf
      BY <1>1, <2>2, BdfFacts DEF Ids, Selects
    <2>3. CASE e.type \notin Selects /\ ~(e.type = "end" /\ p # NoBdf)
      BY <2>3 DEF Ids
    <2>4. QED
      BY <2>1, <2>2, <2>3
  <1>4. QED
    BY <1>2, <1>3

-----------------------------------------------------------------------------
(* Ranges spread over two entries.                                         *)

(* What entries mean depends on the bytes at their places only.            *)
LEMMA SameBytes ==
  ASSUME NEW m, NEW n, NEW E, \A x \in E : m[x] = n[x]
  PROVE  /\ \A x, y \in E : Closes(m, E, x, y) <=> Closes(n, E, x, y)
         /\ DenotedBy(m, E) = DenotedBy(n, E)
         /\ Open(m, E) = Open(n, E)
         /\ \A p : OpenIs(m, E, p) <=> OpenIs(n, E, p)
  <1>1. ASSUME NEW x \in E, NEW y \in E PROVE Closes(m, E, x, y) <=> Closes(n, E, x, y)
    BY DEF Closes
  <1>2. DenotedBy(m, E) = DenotedBy(n, E)
    BY <1>1 DEF DenotedBy
  <1>3. Open(m, E) = Open(n, E)
    BY DEF Open
  <1>4. ASSUME NEW p PROVE OpenIs(m, E, p) <=> OpenIs(n, E, p)
    <2>1. Open(m, E) \subseteq E
      BY DEF Open
    <2>2. QED
      BY <1>3, <2>1 DEF OpenIs
  <1>5. QED
    BY <1>1, <1>2, <1>3, <1>4

(* At most one range is open.                                              *)
LEMMA OpenIsOne ==
  ASSUME NEW m, NEW E \in SUBSET Nat, NEW x \in Open(m, E), NEW y \in Open(m, E)
  PROVE  x = y
  <1>1. /\ x \in E /\ y \in E /\ m[x].type \in Starts /\ m[y].type \in Starts
        /\ x < y => m[y].type \notin Starts \union {"end"}
        /\ y < x => m[x].type \notin Starts \union {"end"}
    BY DEF Open
  <1>2. ~(x < y) /\ ~(y < x)
    BY <1>1
  <1>3. x \in Nat /\ y \in Nat
    BY <1>1
  <1>4. QED
    BY <1>2, <1>3

(* A further entry behind all others closes the open range if it is an end *)
(* and leaves the ranges closed before as they were.                       *)
LEMMA ClosesMore ==
  ASSUME NEW m, NEW E \in SUBSET Nat, NEW c \in Nat, \A x \in E : x < c,
         NEW x \in E \union {c}, NEW y \in E \union {c}
  PROVE  Closes(m, E \union {c}, x, y) <=>
           \/ y \in E /\ x \in E /\ Closes(m, E, x, y)
           \/ y = c /\ m[c].type = "end" /\ x \in Open(m, E)
  <1> USE DEF Closes
  <1>1. CASE y \in E
    <2>1. y < c /\ y # c /\ y \in Nat
      BY <1>1
    <2>2. x = c => ~(x < y)
      BY <2>1
    <2>3. ~(c < y)
      BY <2>1
    <2>4. QED
      BY <1>1, <2>1, <2>2, <2>3
  <1>2. CASE y = c
    <2>1. y \notin E /\ ~(c < c)
      BY <1>2
    <2>2. \A z \in E : z < c
      OBVIOUS
    <2>3. QED
      BY <1>2, <2>1, <2>2 DEF Open
  <1>3. QED
    BY <1>1, <1>2

(* The range open behind a further entry is the pending start after it.    *)
LEMMA OpenAfter ==
  ASSUME NEW m, NEW E \in SUBSET Nat, NEW c \in Nat, \A x \in E : x < c,
         m[c] \in Entries, NEW p \in Bdfs \union {NoBdf}, OpenIs(m, E, p)
  PROVE  OpenIs(m, E \union {c}, PendingAfter(m[c], p))
  <1> DEFINE e == m[c]
             F == E \union {c}
  <1>1. c \notin E /\ \A x \in F : ~(c < x)
    <2>1. \A x \in E : x \in Nat /\ x < c /\ ~(c < x)
      OBVIOUS
    <2>2. QED
      BY <2>1
  <1>2. CASE e.type \in Starts
    <2>1. c \in Open(m, F)
      BY <1>1, <1>2 DEF Open
    <2>2. PendingAfter(e, p) = e.id /\ e.id # NoBdf
      <3>1. e.id \in Bdfs
        BY <1>2, EntryFacts
      <3>2. PendingAfter(e, p) = e.id
        BY <1>2 DEF PendingAfter, Starts
      <3>3. QED
        BY <3>1, <3>2, BdfFacts
    <2>3. QED
      BY <2>1, <2>2 DEF OpenIs
  <1>3. CASE e.type = "end"
    <2>1. PendingAfter(e, p) = NoBdf
      BY <1>3 DEF PendingAfter, Starts
    <2>2. Open(m, F) = {}
      BY <1>1, <1>3 DEF Open, Starts
    <2>3. QED
      BY <2>1, <2>2 DEF OpenIs
  <1>4. CASE e.type \notin Starts \union {"end"}
    <2>1. PendingAfter(e, p) = p
      BY <1>4 DEF PendingAfter
    <2>2. Open(m, F) = Open(m, E)
      BY <1>1, <1>4 DEF Open
    <2>3. QED
      BY <2>1, <2>2 DEF OpenIs
  <1>5. QED
    BY <1>2, <1>3, <1>4

(* A further entry adds to what the entries denote the ids handed to the   *)
(* closure.                                                                *)
LEMMA DenotesMore ==
  ASSUME NEW m, NEW E \in SUBSET Nat, NEW c \in Nat, \A x \in E : x < c,
         m[c] \in Entries, NEW p \in Bdfs \union {NoBdf}, OpenIs(m, E, p)
  PROVE  DenotedBy(m, E \union {c}) = DenotedBy(m, E) \union Ids(m[c], p)
  <1> DEFINE e == m[c]
             F == E \union {c}
             Ranges(i, x, y) == m[x].id <= i /\ i <= m[y].id
  <1>1. \A x, y \in F : Closes(m, F, x, y) <=>
           \/ y \in E /\ x \in E /\ Closes(m, E, x, y)
           \/ y = c /\ e.type = "end" /\ x \in Open(m, E)
    BY ClosesMore
  <1>2. Open(m, E) \subseteq E
    BY DEF Open
  <1>3. Ids(e, p) \subseteq Bdfs
    BY PendingTyped
  <1>4. ASSUME NEW i \in Bdfs
        PROVE  i \in Ids(e, p) <=>
                 \/ e.type \in Selects /\ e.id = i
                 \/ e.type = "end" /\ \E x \in Open(m, E) : Ranges(i, x, c)
    <2>1. CASE e.type \in Selects
      BY <2>1 DEF Ids, Selects
    <2>2. CASE e.type = "end" /\ p # NoBdf
      <3>1. PICK x \in Open(m, E) : m[x].id = p
        BY <2>2 DEF OpenIs
      <3>2. \A y \in Open(m, E) : y = x
        BY OpenIsOne
      <3>3. Ids(e, p) = p .. e.id
        BY <2>2 DEF Ids, Selects
      <3>4. p \in Int /\ e.id \in Int /\ i \in Int
        <4>1. e.id \in Bdfs
          BY <2>2, EntryFacts
        <4>2. p \in Bdfs
          BY <2>2
        <4>3. \A b \in Bdfs : b \in Int
          BY BdfFacts
        <4> HIDE DEF e
        <4>4. QED
          BY <4>1, <4>2, <4>3
      <3>5. i \in Ids(e, p) <=> p <= i /\ i <= e.id
        BY <3>3, <3>4
      <3>6. QED
        BY <2>2, <3>1, <3>2, <3>5 DEF Selects
    <2>3. CASE e.type = "end" /\ p = NoBdf
      BY <2>3 DEF Ids, Selects, OpenIs
    <2>4. CASE e.type \notin Selects \union {"end"}
      BY <2>4 DEF Ids
    <2>5. QED
      BY <2>1, <2>2, <2>3, <2>4
  <1>5. ASSUME NEW i \in Bdfs
        PROVE  i \in DenotedBy(m, F) <=> i \in DenotedBy(m, E) \/ i \in Ids(e, p)
    <2>1. (\E x \in F : m[x].type \in Selects /\ m[x].id = i) <=>
            \/ \E x \in E : m[x].type \in Selects /\ m[x].id = i
            \/ e.type \in Selects /\ e.id = i
      OBVIOUS
    <2>2. (\E x, y \in F : Closes(m, F, x, y) /\ Ranges(i, x, y)) <=>
            \/ \E x, y \in E : Closes(m, E, x, y) /\ Ranges(i, x, y)
            \/ e.type = "end" /\ \E x \in Open(m, E) : Ranges(i, x, c)
      <3> HIDE DEF Ranges, e
      <3>1. QED
        BY <1>1, <1>2
    <2>3. i \in DenotedBy(m, F) <=>
            \/ \E x \in F : m[x].type \in Selects /\ m[x].id = i
            \/ \E x, y \in F : Closes(m, F, x, y) /\ Ranges(i, x, y)
      BY DEF DenotedBy
    <2>4. i \in DenotedBy(m, E) <=>
            \/ \E x \in E : m[x].type \in Selects /\ m[x].id = i
            \/ \E x, y \in E : Closes(m, E, x, y) /\ Ranges(i, x, y)
      BY DEF DenotedBy
    <2> HIDE DEF Ranges, e, F
    <2>5. QED
      BY <1>4, <2>1, <2>2, <2>3, <2>4
  <1>6. DenotedBy(m, F) \subseteq Bdfs /\ DenotedBy(m, E) \subseteq Bdfs
    BY DEF DenotedBy
  <1> HIDE DEF Ranges, e, F
  <1>7. DenotedBy(m, F) = DenotedBy(m, E) \union Ids(e, p)
    BY <1>3, <1>5, <1>6
  <1>8. QED
    BY <1>7 DEF e, F

-----------------------------------------------------------------------------
(* The entries of a block.                                                 *)

(* Blocks and their lengths are naturals, and entries start behind their   *)
(* first byte.                                                             *)
LEMMA BlockFacts ==
  ASSUME NEW h \in Blocks
  PROVE  h.length \in Nat /\ MinLength[h.kind] \in Nat \ {0}
  <1>1. h.length \in BlockLengths /\ h.kind \in Kinds
    BY DEF Blocks, Kinds
  <1>2. \A n \in BlockLengths : n \in Nat
    BY LengthsAssumption
  <1>3. MinLength[h.kind] \in Nat /\ MinLength[h.kind] >= HeaderLength /\ HeaderLength \in Nat \ {0}
    BY <1>1, LengthsAssumption
  <1>4. QED
    BY <1>1, <1>2, <1>3

(* Where the walk of a block stands.                                       *)
LEMMA InBlockFacts ==
  ASSUME Typed, Cursor, walk # "blocks"
  PROVE  /\ block \in Nat /\ entry \in Nat /\ blockLength \in Nat
         /\ MinLength[sdt[block].kind] \in Nat \ {0}
         /\ MinLength[sdt[block].kind] <= entry /\ entry <= blockLength
         /\ block \in DOMAIN sdt /\ Ivhd(sdt[block]) /\ block + blockLength = offset
         /\ \A b : EntriesOf(b) \subseteq DOMAIN entries /\ EntriesOf(b) \in SUBSET Nat
         /\ \A p \in EntriesOf(block) : p \in Nat /\ entries[p] \in Entries
  <1>1. block \in DOMAIN sdt /\ sdt[block] \in Blocks
    BY DEF Typed, Cursor
  <1>2. \A b : EntriesOf(b) \subseteq DOMAIN entries
    BY DEF EntriesOf
  <1>3. \A p \in DOMAIN entries : p \in Nat /\ entries[p] \in Entries
    BY DEF Typed
  <1>4. QED
    BY <1>1, <1>2, <1>3, BlockFacts DEF Typed, Cursor, blockLength

(* An entry read at the cursor becomes one of the block's, and no other    *)
(* block walked before has it.                                             *)
LEMMA EntryRead ==
  ASSUME Typed, Cursor, Separate, walk # "blocks", result # "Malformed", entry < blockLength,
         NEW e \in Contents(entries, block + entry, Entries),
         entries' = Remember(entries, block + entry, e)
  PROVE  /\ e \in Entries /\ entries'[block + entry] = e
         /\ DOMAIN entries' \subseteq Nat
         /\ \A p \in DOMAIN entries' : entries'[p] \in Entries /\ p < offset
         /\ \A p \in DOMAIN entries : entries'[p] = entries[p]
         /\ {p \in DOMAIN entries' : block < p /\ p < block + sdt[block].length}
              = EntriesOf(block) \union {block + entry}
         /\ \A b \in DOMAIN sdt \ {block} :
              {p \in DOMAIN entries' : b < p /\ p < b + sdt[b].length} = EntriesOf(b)
  <1> DEFINE c == block + entry
  <1>1. /\ block \in Nat /\ entry \in Nat /\ blockLength \in Nat /\ entry > 0
        /\ block + blockLength = offset /\ blockLength = sdt[block].length
    BY InBlockFacts DEF blockLength
  <1>2. c \in Nat /\ block < c /\ c < block + sdt[block].length /\ c < offset
    BY <1>1
  <1>3. \A o \in DOMAIN entries : entries[o] \in Entries /\ o \in Nat /\ o < offset
    BY DEF Typed, Separate
  <1>4. e \in Contents(entries, c, Entries) /\ entries' = Remember(entries, c, e)
    OBVIOUS
  <1> HIDE DEF c
  <1>5. /\ e \in Entries /\ entries'[c] = e
        /\ DOMAIN entries' = DOMAIN entries \union {c}
        /\ \A p \in DOMAIN entries : entries'[p] = entries[p]
        /\ \A p \in DOMAIN entries' : entries'[p] \in Entries
    <2> DEFINE n == Remember(entries, c, e)
    <2>1. \A o \in DOMAIN entries : entries[o] \in Entries
      BY <1>3
    <2>2. /\ e \in Entries /\ n[c] = e
          /\ DOMAIN n = DOMAIN entries \union {c}
          /\ \A p \in DOMAIN entries : n[p] = entries[p]
          /\ \A p \in DOMAIN n : n[p] \in Entries
      BY <1>4, <2>1 DEF Contents, Remember
    <2>3. entries' = n
      BY <1>4
    <2> HIDE DEF n
    <2>4. QED
      BY <2>2, <2>3
  <1>6. \A p \in DOMAIN entries' : p \in Nat /\ p < offset
    BY <1>2, <1>3, <1>5
  <1>7. {p \in DOMAIN entries' : block < p /\ p < block + sdt[block].length}
          = EntriesOf(block) \union {c}
    BY <1>2, <1>5 DEF EntriesOf
  <1>8. ASSUME NEW b \in DOMAIN sdt, b # block
        PROVE  {p \in DOMAIN entries' : b < p /\ p < b + sdt[b].length} = EntriesOf(b)
    <2>1. b + sdt[b].length <= block
      BY <1>8 DEF Separate
    <2>2. b + sdt[b].length \in Nat
      BY <1>8, BlockFacts DEF Typed
    <2>3. ~(c < b + sdt[b].length)
      BY <1>1, <1>2, <2>1, <2>2
    <2>4. QED
      BY <1>5, <2>3 DEF EntriesOf
  <1>9. DOMAIN entries' \subseteq Nat
    BY <1>6
  <1>10. QED
    BY <1>5, <1>6, <1>7, <1>8, <1>9 DEF c

(* Blocks whose entries stay as they are denote what they did.             *)
LEMMA DoneStays ==
  ASSUME NEW b, EntriesOf(b)' = EntriesOf(b), \A p \in EntriesOf(b) : entries'[p] = entries[p]
  PROVE  Denoted(b)' = Denoted(b) /\ (HasAll(b)' <=> HasAll(b))
  <1>1. Denoted(b)' = DenotedBy(entries', EntriesOf(b))
    BY DEF Denoted, DenotedBy, Closes, Bdfs
  <1>2. DenotedBy(entries', EntriesOf(b)) = DenotedBy(entries, EntriesOf(b))
    BY SameBytes
  <1>3. HasAll(b)' <=> HasAll(b)
    BY DEF HasAll
  <1>4. QED
    BY <1>1, <1>2, <1>3 DEF Denoted

(* What is laid out does not depend on bytes elsewhere.                    *)
LEMMA LaidAlike ==
  ASSUME NEW m, NEW n, NEW E, NEW front, \A x \in E : m[x] = n[x], LaidOut(m, E, front)
  PROVE  LaidOut(n, E, front)
  <1>1. \A x, y \in E : Closes(m, E, x, y) <=> Closes(n, E, x, y)
    BY SameBytes
  <1>2. QED
    BY <1>1 DEF LaidOut

(* A further entry at the front: a stop ends the layout, any other entry   *)
(* that walk_device_entries accepts moves the front behind itself.         *)
LEMMA LaidMore ==
  ASSUME Typed, Cursor, walk # "blocks", NEW m, NEW E \in SUBSET Nat,
         \A p \in E : m[p] \in Entries /\ m[p].type # "stop",
         \A p \in E : p < block + entry,
         m[block + entry] \in Entries,
         OpenIs(m, E, pending), LaidOut(m, E, block + entry)
  PROVE  /\ m[block + entry].type = "stop" =>
              \A front : LaidOut(m, E \union {block + entry}, front)
         /\ EntryFits(entry, blockLength, m[block + entry]) /\ ~Reversed(m[block + entry], pending)
              => LaidOut(m, E \union {block + entry}, block + (entry + EntrySize(m[block + entry])))
  <1> DEFINE c == block + entry
             e == m[c]
             F == E \union {c}
             least == block + MinLength[sdt[block].kind]
  <1>1. /\ block \in Nat /\ entry \in Nat /\ MinLength[sdt[block].kind] \in Nat \ {0}
        /\ MinLength[sdt[block].kind] <= entry
    BY InBlockFacts
  <1>2. c \in Nat /\ least <= c /\ c - block = entry
    BY <1>1
  <1>3. EntrySize(e) \in Nat \ {0}
    BY EntryFacts
  <1>4. \A x, y \in F : Closes(m, F, x, y) <=>
           \/ y \in E /\ x \in E /\ Closes(m, E, x, y)
           \/ y = c /\ e.type = "end" /\ x \in Open(m, E)
    BY <1>2, ClosesMore
  <1>5. \A p \in E : p \in Nat /\ p < c /\ EntrySize(m[p]) \in Nat \ {0}
    BY EntryFacts
  <1>6. \A p \in E : least <= p /\ EntryFits(p - block, blockLength, m[p])
                     /\ p + EntrySize(m[p]) \in F
    BY DEF LaidOut
  <1>7. \A p, q \in F : p < q => m[p].type # "stop" /\ p + EntrySize(m[p]) <= q
    <2> SUFFICES ASSUME NEW p \in F, NEW q \in F, p < q
                 PROVE  m[p].type # "stop" /\ p + EntrySize(m[p]) <= q
      OBVIOUS
    <2>1. p \in E
      <3>1. CASE p = c
        <4>1. q \in E => q < c /\ q \in Nat
          BY <1>5
        <4>2. QED
          BY <1>2, <3>1, <4>1
      <3>2. QED
        BY <3>1
    <2>2. CASE q \in E
      BY <2>1, <2>2 DEF LaidOut
    <2>3. CASE q = c
      <3>1. p + EntrySize(m[p]) \in F
        BY <1>6, <2>1
      <3>2. \A x \in F : x <= c
        BY <1>2, <1>5
      <3>3. QED
        BY <2>1, <2>3, <3>1, <3>2
    <2>4. QED
      BY <2>2, <2>3
  <1>8. least \in F
    BY DEF LaidOut
  <1>9. ASSUME e.type = "stop" \/ ~Reversed(e, pending)
        PROVE  \A x, y \in F : Closes(m, F, x, y) => m[x].id <= m[y].id
    <2> SUFFICES ASSUME NEW x \in F, NEW y \in F, Closes(m, F, x, y) PROVE m[x].id <= m[y].id
      OBVIOUS
    <2>1. CASE y \in E /\ x \in E /\ Closes(m, E, x, y)
      BY <2>1 DEF LaidOut
    <2>2. CASE y = c /\ e.type = "end" /\ x \in Open(m, E)
      <3>1. pending # NoBdf /\ \E z \in Open(m, E) : m[z].id = pending
        BY <2>2 DEF OpenIs
      <3>2. m[x].id = pending
        BY <2>2, <3>1, OpenIsOne
      <3>3. ~(e.id < pending)
        BY <1>9, <2>2, <3>1 DEF Reversed
      <3>4. e.id \in Bdfs /\ pending \in Bdfs
        BY <2>2, <3>1, EntryFacts DEF Typed
      <3>5. \A b \in Bdfs : b \in Int
        BY BdfFacts
      <3> HIDE DEF e, c
      <3>6. pending <= e.id
        BY <3>3, <3>4, <3>5
      <3>7. QED
        BY <2>2, <3>2, <3>6 DEF e, c
    <2>3. QED
      BY <1>4, <2>1, <2>2
  <1>10. ASSUME e.type = "stop", NEW front PROVE LaidOut(m, F, front)
    <2>1. \A p \in F : least <= p /\ (m[p].type # "stop" =>
             EntryFits(p - block, blockLength, m[p]) /\ p + EntrySize(m[p]) \in F \union {front})
      BY <1>2, <1>6, <1>10
    <2>2. QED
      BY <1>7, <1>8, <1>9, <1>10, <2>1 DEF LaidOut
  <1>11. ASSUME EntryFits(entry, blockLength, e), ~Reversed(e, pending)
         PROVE  LaidOut(m, F, block + (entry + EntrySize(e)))
    <2>1. c + EntrySize(e) = block + (entry + EntrySize(e))
      BY <1>1, <1>3
    <2>2. \A p \in F : least <= p /\ EntryFits(p - block, blockLength, m[p])
                       /\ p + EntrySize(m[p]) \in F \union {block + (entry + EntrySize(e))}
      BY <1>2, <1>6, <1>11, <2>1
    <2>3. QED
      BY <1>7, <1>8, <1>9, <1>11, <2>2 DEF LaidOut
  <1>12. QED
    BY <1>10, <1>11

-----------------------------------------------------------------------------
(* Every step keeps the invariant.                                         *)

(* Nothing has been read at first.                                         *)
LEMMA IvrsStarts ==
  ASSUME Init PROVE IvrsInv
  <1>1. DOMAIN sdt = {} /\ DOMAIN entries = {}
    BY DEF Init
  <1>2. Typed
    <2>1. acc \in [found : BOOLEAN, all : BOOLEAN, ranges : SUBSET Bdfs]
      BY DEF Init
    <2>2. QED
      BY <1>1, <2>1 DEF Init, Typed
  <1>2a. Cursor
    BY LengthsAssumption DEF Init, Cursor
  <1>3. Separate /\ Parsing /\ Collecting /\ Pending
    BY <1>1 DEF Init, Separate, Parsing, Collecting, Pending
  <1>4. DoneUnits = {} /\ PartOf = {}
    BY <1>1 DEF Init, DoneUnits, UnitBlocks, PartOf
  <1>5. UNION {Denoted(b) : b \in DoneUnits} = {}
    BY <1>4
  <1>6. Collected
    BY <1>4, <1>5 DEF Init, Collected
  <1>7. QED
    BY <1>2, <1>2a, <1>3, <1>6 DEF IvrsInv

(* An Err for malformed bytes leaves the cursors where they were.          *)
LEMMA MalformedStep ==
  ASSUME IvrsInv, walk # "collect", result' = "Malformed", UNCHANGED <<cursorVars, all, acc>>,
         DOMAIN sdt' \subseteq Nat, \A o \in DOMAIN sdt' : sdt'[o] \in Blocks,
         DOMAIN entries' \subseteq Nat, \A o \in DOMAIN entries' : entries'[o] \in Entries,
         walk # "blocks" => sdt' = sdt
  PROVE  IvrsInv'
  <1> USE DEF IvrsInv, cursorVars
  <1>1. Typed'
    BY DEF Typed, Blocks, Entries, Bdfs
  <1>2. Cursor'
    BY DEF Cursor, blockLength, Ivhd
  <1>3. Separate' /\ Parsing' /\ Collecting' /\ Pending' /\ Collected'
    BY DEF Separate, Parsing, Collecting, Pending, Collected
  <1>4. QED
    BY <1>1, <1>2, <1>3

(* The end of the table, and a table that ends in a header.                *)
LEMMA TableEnds ==
  ASSUME IvrsInv, EndOfTable \/ TruncatedBlock PROVE IvrsInv'
  <1>1. CASE EndOfTable
    <2>1. /\ UNCHANGED <<sdt, entries, offset, walk, block, entry, pending, all, acc>>
          /\ walk = "blocks" /\ result = "running" /\ result' = "Ok"
      BY <1>1 DEF EndOfTable, Running, Return, cursorVars
    <2>2. Typed' /\ Cursor' /\ Separate' /\ Parsing' /\ Collecting' /\ Pending'
      BY <2>1 DEF IvrsInv, Typed, Cursor, Separate, Parsing, Collecting, Pending
    <2>3. Collected'
      <3>1. UNCHANGED <<DoneUnits, PartOf>>
        BY <2>1 DEF DoneUnits, UnitBlocks, Ivhd, PartOf
      <3>2. \A b : EntriesOf(b)' = EntriesOf(b)
        BY <2>1 DEF EntriesOf
      <3>3. \A b : Denoted(b)' = Denoted(b) /\ (HasAll(b)' <=> HasAll(b))
        BY <2>1, <3>2, DoneStays
      <3>4. QED
        BY <2>1, <3>1, <3>3 DEF IvrsInv, Collected
    <2>4. QED
      BY <2>2, <2>3 DEF IvrsInv
  <1>2. CASE TruncatedBlock
    <2>1. UNCHANGED <<sdt, entries>> /\ walk = "blocks" /\ result' = "Malformed"
          /\ UNCHANGED <<cursorVars, all, acc>>
      BY <1>2 DEF TruncatedBlock, Running, Return
    <2>2. QED
      BY <2>1, MalformedStep DEF IvrsInv, Typed
  <1>3. QED
    BY <1>1, <1>2

(* A block header: the block is refused, entered, or passed over.          *)
LEMMA BlockStep ==
  ASSUME IvrsInv, NextBlock PROVE IvrsInv'
  <1>1. PICK h \in Contents(sdt, offset, Blocks) :
          /\ sdt' = Remember(sdt, offset, h)
          /\ \/ Return("Malformed")
             \/ /\ BlockFits(offset, h) /\ Ivhd(h)
                /\ offset' = offset + h.length
                /\ StartWalk("parse", offset, h.kind)
                /\ all' = FALSE
                /\ UNCHANGED <<acc, result>>
             \/ /\ BlockFits(offset, h) /\ ~Ivhd(h)
                /\ offset' = offset + h.length
                /\ UNCHANGED <<walk, block, entry, pending, all, acc, result>>
    BY DEF NextBlock
  <1>2. walk = "blocks" /\ result = "running" /\ entries' = entries
    BY DEF NextBlock, Running
  <1>3. /\ h \in Blocks /\ sdt'[offset] = h
        /\ DOMAIN sdt' = DOMAIN sdt \union {offset}
        /\ \A o \in DOMAIN sdt : sdt'[o] = sdt[o]
        /\ \A o \in DOMAIN sdt' : sdt'[o] \in Blocks
    BY <1>1 DEF IvrsInv, Typed, Contents, Remember
  <1>4. offset \in Nat /\ DOMAIN sdt' \subseteq Nat /\ TableLength \in Nat
    BY <1>3, LengthsAssumption DEF IvrsInv, Typed
  <1>5. h.length \in Nat /\ MinLength[h.kind] \in Nat \ {0}
    BY <1>3, BlockFacts
  <1>6. CASE Return("Malformed")
    <2>1. result' = "Malformed" /\ UNCHANGED <<cursorVars, all, acc>>
      BY <1>6 DEF Return
    <2>2. QED
      BY <1>2, <1>3, <1>4, <2>1, MalformedStep DEF IvrsInv, Typed
  <1>7. ASSUME BlockFits(offset, h)
        PROVE  /\ offset + h.length <= TableLength /\ h.length >= MinLength[h.kind]
               /\ offset + h.length \in Nat /\ offset < offset + h.length
    BY <1>4, <1>5, <1>7 DEF BlockFits
  <1>8. \A b \in DOMAIN sdt : b < offset /\ b \in Nat /\ b + sdt[b].length <= offset /\ sdt[b].length \in Nat
    BY <1>2, BlockFacts DEF IvrsInv, Separate, Typed
  <1>9. offset \notin DOMAIN sdt
    BY <1>4, <1>8
  <1>10. \A p \in DOMAIN entries : p < offset /\ p \in Nat
    BY <1>2 DEF IvrsInv, Separate, Typed
  <1>11. \A b \in DOMAIN sdt : EntriesOf(b)' = EntriesOf(b)
    BY <1>2, <1>3 DEF EntriesOf
  <1>12. \A b \in DOMAIN sdt : Denoted(b)' = Denoted(b) /\ (HasAll(b)' <=> HasAll(b))
    BY <1>2, <1>11, DoneStays
  <1>13. DoneUnits = UnitBlocks /\ UnitBlocks \subseteq DOMAIN sdt /\ PartOf = {}
    BY <1>2 DEF DoneUnits, UnitBlocks, PartOf
  <1>14. ASSUME DoneUnits' = DoneUnits, PartOf' = {}, walk' # "collect", UNCHANGED <<acc, result>>
         PROVE  Collected'
    <2>1. {Denoted(b)' : b \in DoneUnits} = {Denoted(b) : b \in DoneUnits}
      BY <1>12, <1>13
    <2>2. (\E b \in DoneUnits : HasAll(b)') <=> \E b \in DoneUnits : HasAll(b)
      BY <1>12, <1>13
    <2>3. /\ ~acc.found => DoneUnits = {}
          /\ acc.all <=> \E b \in DoneUnits : HasAll(b)
          /\ ~acc.all => acc.ranges = (UNION {Denoted(b) : b \in DoneUnits}) \union {}
      BY <1>2, <1>13 DEF IvrsInv, Collected
    <2>4. QED
      BY <1>14, <2>1, <2>2, <2>3 DEF Collected
  <1>15. CASE /\ BlockFits(offset, h) /\ Ivhd(h)
              /\ offset' = offset + h.length
              /\ StartWalk("parse", offset, h.kind)
              /\ all' = FALSE
              /\ UNCHANGED <<acc, result>>
    <2>1. /\ walk' = "parse" /\ block' = offset /\ entry' = MinLength[h.kind] /\ pending' = NoBdf
          /\ offset' = offset + h.length /\ all' = FALSE /\ acc' = acc /\ result' = result
      BY <1>15 DEF StartWalk
    <2>2. Typed'
      <3>1. offset' \in Nat /\ block' \in Nat /\ entry' \in Nat
        BY <1>4, <1>5, <2>1
      <3>2. QED
        BY <1>2, <1>3, <1>4, <2>1, <3>1 DEF IvrsInv, Typed
    <2>3. Cursor'
      <3>1. offset' <= TableLength /\ MinLength[h.kind] <= h.length /\ MinLength[h.kind] <= MinLength[h.kind]
        BY <1>4, <1>5, <1>7, <1>15, <2>1
      <3>2. block' \in DOMAIN sdt' /\ sdt'[block'] = h /\ entry' = MinLength[h.kind]
            /\ offset' = block' + h.length /\ Ivhd(h)
        BY <1>3, <1>15, <2>1
      <3>3. QED
        BY <1>2, <2>1, <3>1, <3>2 DEF Cursor, blockLength, Ivhd
    <2>4. Separate'
      <3>1. \A b \in DOMAIN sdt' : b < offset' /\ (b + sdt'[b].length <= offset \/ b = offset)
        BY <1>3, <1>4, <1>7, <1>8, <1>15, <2>1
      <3>2. \A p \in DOMAIN entries : p < offset'
        BY <1>4, <1>7, <1>10, <1>15, <2>1
      <3>3. QED
        BY <1>2, <2>1, <3>1, <3>2 DEF Separate
    <2>5. EntriesOf(block)' = {}
      <3>1. \A p \in DOMAIN entries : ~(offset < p)
        BY <1>4, <1>10
      <3>2. QED
        BY <1>2, <2>1, <3>1 DEF EntriesOf
    <2>6. Parsing'
      <3>1. LaidOut(entries, EntriesOf(block), block + entry)'
        BY <1>3, <2>1, <2>5 DEF LaidOut
      <3>2. QED
        BY <2>1, <2>5, <3>1 DEF Parsing
    <2>7. Collecting'
      BY <2>1 DEF Collecting
    <2>8. Pending'
      <3>1. Behind' = {}
        BY <2>5 DEF Behind
      <3>2. OpenIs(entries', {}, NoBdf)
        BY DEF OpenIs, Open
      <3>3. QED
        BY <2>1, <3>1, <3>2 DEF Pending, OpenIs, Open
    <2>9. DoneUnits' = DoneUnits
      BY <1>3, <1>9, <1>13, <2>1 DEF DoneUnits, UnitBlocks, Ivhd
    <2>10. PartOf' = {}
      BY <2>1 DEF PartOf
    <2>11. Collected'
      BY <1>14, <2>1, <2>9, <2>10
    <2>12. QED
      BY <2>2, <2>3, <2>4, <2>6, <2>7, <2>8, <2>11 DEF IvrsInv
  <1>16. CASE /\ BlockFits(offset, h) /\ ~Ivhd(h)
              /\ offset' = offset + h.length
              /\ UNCHANGED <<walk, block, entry, pending, all, acc, result>>
    <2>1. Typed'
      <3>1. offset' \in Nat
        BY <1>4, <1>5, <1>16
      <3>2. QED
        BY <1>2, <1>3, <1>4, <1>16, <3>1 DEF IvrsInv, Typed
    <2>2. Cursor'
      BY <1>2, <1>7, <1>16 DEF Cursor
    <2>3. Separate'
      <3>1. \A b \in DOMAIN sdt' : b < offset' /\ b + sdt'[b].length <= offset'
        BY <1>3, <1>4, <1>5, <1>7, <1>8, <1>16
      <3>2. \A p \in DOMAIN entries : p < offset'
        BY <1>4, <1>7, <1>10, <1>16
      <3>3. QED
        BY <1>2, <1>16, <3>1, <3>2 DEF Separate
    <2>4. Parsing' /\ Collecting' /\ Pending'
      BY <1>2, <1>16 DEF Parsing, Collecting, Pending
    <2>5. DoneUnits' = DoneUnits /\ PartOf' = {}
      BY <1>2, <1>3, <1>13, <1>16 DEF DoneUnits, UnitBlocks, Ivhd, PartOf
    <2>6. Collected'
      BY <1>2, <1>14, <1>16, <2>5
    <2>7. QED
      BY <2>1, <2>2, <2>3, <2>4, <2>6 DEF IvrsInv
  <1>17. QED
    BY <1>1, <1>6, <1>15, <1>16

(* Facts about an entry read in a block: what it leaves alone, and what    *)
(* the entries of the block are after it.                                  *)
LEMMA EntrySetting ==
  ASSUME IvrsInv, walk # "blocks", result = "running", entry < blockLength, sdt' = sdt,
         NEW e \in Contents(entries, block + entry, Entries),
         entries' = Remember(entries, block + entry, e)
  PROVE  LET E == EntriesOf(block)
             c == block + entry
         IN /\ e \in Entries /\ entries'[c] = e /\ c \in Nat
            /\ DOMAIN entries' \subseteq Nat
            /\ \A p \in DOMAIN entries' : entries'[p] \in Entries /\ p < offset
            /\ E \in SUBSET Nat /\ \A p \in E : entries'[p] = entries[p] /\ entries'[p] \in Entries
            /\ (block' = block => EntriesOf(block)' = E \union {c})
            /\ walk = "collect" => c \in E
            /\ \A b \in DOMAIN sdt \ {block} : Denoted(b)' = Denoted(b) /\ (HasAll(b)' <=> HasAll(b))
  <1> DEFINE E == EntriesOf(block)
             c == block + entry
  <1>1. /\ e \in Entries /\ entries'[c] = e
        /\ DOMAIN entries' \subseteq Nat
        /\ \A p \in DOMAIN entries' : entries'[p] \in Entries /\ p < offset
        /\ \A p \in DOMAIN entries : entries'[p] = entries[p]
        /\ {p \in DOMAIN entries' : block < p /\ p < block + sdt[block].length} = E \union {c}
        /\ \A b \in DOMAIN sdt \ {block} :
             {p \in DOMAIN entries' : b < p /\ p < b + sdt[b].length} = EntriesOf(b)
    BY EntryRead DEF IvrsInv
  <1>2. /\ block \in Nat /\ entry \in Nat /\ blockLength \in Nat
        /\ \A b : EntriesOf(b) \subseteq DOMAIN entries /\ EntriesOf(b) \in SUBSET Nat
        /\ \A p \in E : p \in Nat /\ entries[p] \in Entries
    BY InBlockFacts DEF IvrsInv
  <1>3. block' = block => EntriesOf(block)' = E \union {c}
    BY <1>1 DEF EntriesOf
  <1>4. ASSUME NEW b \in DOMAIN sdt, b # block
        PROVE  Denoted(b)' = Denoted(b) /\ (HasAll(b)' <=> HasAll(b))
    <2>1. EntriesOf(b)' = EntriesOf(b)
      BY <1>1, <1>4 DEF EntriesOf
    <2>2. \A p \in EntriesOf(b) : entries'[p] = entries[p]
      BY <1>1, <1>2
    <2>3. QED
      BY <2>1, <2>2, DoneStays
  <1>5. ASSUME walk = "collect" PROVE c \in E
    <2>1. c # block + blockLength
      BY <1>2
    <2>2. QED
      BY <1>5, <2>1 DEF IvrsInv, Collecting
  <1>6. \A p \in E : entries'[p] = entries[p] /\ entries'[p] \in Entries
    BY <1>1, <1>2
  <1>7. c \in Nat
    BY <1>2
  <1>8. QED
    BY <1>1, <1>2, <1>3, <1>4, <1>5, <1>6, <1>7

(* While a block is walked, the units done stay as they are.               *)
LEMMA UnitsKept ==
  ASSUME walk # "blocks", walk' # "blocks", sdt' = sdt, block' = block
  PROVE  DoneUnits' = DoneUnits /\ DoneUnits \subseteq DOMAIN sdt \ {block}
  BY DEF DoneUnits, UnitBlocks, Ivhd

(* An entry accepted by parse_ivhd's walk.                                 *)
LEMMA ParseAdvances ==
  ASSUME IvrsInv, walk = "parse", result = "running", entry < blockLength, sdt' = sdt,
         NEW e \in Contents(entries, block + entry, Entries),
         entries' = Remember(entries, block + entry, e),
         e.type # "stop", EntryFits(entry, blockLength, e), ~Reversed(e, pending),
         all' = (all \/ e.type = "all"), pending' = PendingAfter(e, pending),
         entry' = entry + EntrySize(e), UNCHANGED <<acc, offset, walk, block, result>>
  PROVE  IvrsInv'
  <1> DEFINE E == EntriesOf(block)
             c == block + entry
  <1>1. /\ e \in Entries /\ entries'[c] = e /\ c \in Nat
        /\ DOMAIN entries' \subseteq Nat
        /\ \A p \in DOMAIN entries' : entries'[p] \in Entries /\ p < offset
        /\ E \in SUBSET Nat /\ \A p \in E : entries'[p] = entries[p] /\ entries'[p] \in Entries
        /\ EntriesOf(block)' = E \union {c}
        /\ \A b \in DOMAIN sdt \ {block} : Denoted(b)' = Denoted(b) /\ (HasAll(b)' <=> HasAll(b))
    BY EntrySetting
  <1>2. EntrySize(e) \in Nat \ {0} /\ PendingAfter(e, pending) \in Bdfs \union {NoBdf}
    BY <1>1, EntryFacts, PendingTyped DEF IvrsInv, Typed
  <1>3. /\ block \in Nat /\ entry \in Nat /\ blockLength \in Nat
        /\ MinLength[sdt[block].kind] \in Nat \ {0}
        /\ MinLength[sdt[block].kind] <= entry /\ entry + EntrySize(e) <= blockLength
    BY InBlockFacts DEF IvrsInv, EntryFits
  <1>4. Typed'
    <2>1. entry' \in Nat /\ all' \in BOOLEAN
      BY <1>2, <1>3
    <2>2. QED
      BY <1>1, <1>2, <2>1 DEF IvrsInv, Typed
  <1>5. Cursor'
    <2>1. MinLength[sdt[block].kind] <= entry' /\ entry' <= blockLength
      BY <1>2, <1>3
    <2>2. QED
      BY <2>1 DEF IvrsInv, Cursor, blockLength, Ivhd
  <1>6. Separate'
    BY <1>1 DEF IvrsInv, Separate
  <1>7. /\ \A p \in E : p < c /\ entries[p].type # "stop"
        /\ LaidOut(entries, E, c)
        /\ all <=> \E p \in E : entries[p].type = "all"
    BY DEF IvrsInv, Parsing
  <1>8. OpenIs(entries', E, pending)
    <2>1. Behind = E
      BY <1>7 DEF Behind
    <2>2. OpenIs(entries, E, pending)
      BY <2>1 DEF IvrsInv, Pending
    <2>3. QED
      BY <1>1, <2>2, SameBytes
  <1>9. LaidOut(entries', E \union {c}, block + (entry + EntrySize(e)))
    <2>1. LaidOut(entries', E, c)
      BY <1>1, <1>7, LaidAlike
    <2>2. \A p \in E : entries'[p] \in Entries /\ entries'[p].type # "stop"
      BY <1>1, <1>7
    <2>3. QED
      BY <1>1, <1>7, <1>8, <2>1, <2>2, LaidMore DEF IvrsInv
  <1>10. block + entry' = c + EntrySize(e) /\ c < block + entry'
    BY <1>2, <1>3
  <1>11. \A p \in E \union {c} : p < block + entry' /\ entries'[p].type # "stop"
    BY <1>1, <1>2, <1>7, <1>10
  <1>12. Parsing'
    <2>1. LaidOut(entries, EntriesOf(block), block + entry)'
      BY <1>1, <1>9 DEF LaidOut, Closes, blockLength
    <2>2. all' <=> \E p \in E \union {c} : entries'[p].type = "all"
      BY <1>1, <1>7
    <2>3. QED
      BY <1>1, <1>11, <2>1, <2>2 DEF Parsing
  <1>13. Collecting'
    BY DEF Collecting
  <1>14. Pending'
    <2>1. Behind' = E \union {c}
      BY <1>1, <1>11 DEF Behind
    <2>2. OpenIs(entries', E \union {c}, PendingAfter(e, pending))
      BY <1>1, <1>7, <1>8, OpenAfter DEF IvrsInv, Typed
    <2>3. QED
      BY <2>1, <2>2 DEF Pending, OpenIs, Open
  <1>15. Collected'
    <2>1. DoneUnits' = DoneUnits /\ DoneUnits \subseteq DOMAIN sdt \ {block}
      BY UnitsKept
    <2>2. PartOf' = {} /\ PartOf = {}
      BY DEF PartOf
    <2>3. {Denoted(b)' : b \in DoneUnits} = {Denoted(b) : b \in DoneUnits}
      BY <1>1, <2>1
    <2>4. (\E b \in DoneUnits : HasAll(b)') <=> \E b \in DoneUnits : HasAll(b)
      BY <1>1, <2>1
    <2>5. QED
      BY <2>1, <2>2, <2>3, <2>4 DEF IvrsInv, Collected
  <1>16. QED
    BY <1>4, <1>5, <1>6, <1>12, <1>13, <1>14, <1>15 DEF IvrsInv

(* The collecting walk only re-reads: the entry at its cursor is one that  *)
(* parse_ivhd has accepted, or the stop at which parse_ivhd ended.         *)
LEMMA SecondReading ==
  ASSUME IvrsInv, walk = "collect", entry < blockLength, result = "running", sdt' = sdt,
         NEW e \in Contents(entries, block + entry, Entries),
         entries' = Remember(entries, block + entry, e)
  PROVE  LET E == EntriesOf(block)
             c == block + entry
         IN /\ c \in E /\ entries[c] = e /\ e.type # "all"
            /\ e.type # "stop" => EntryFits(entry, blockLength, e) /\ ~Reversed(e, pending)
            /\ e.type = "stop" => E = Behind \union {c}
            /\ \A p \in Behind : p < c
            /\ e.type # "stop" => /\ {p \in E : p < c + EntrySize(e)} = Behind \union {c}
                                  /\ c + EntrySize(e) \in E \union {block + blockLength}
  <1> DEFINE E == EntriesOf(block)
             c == block + entry
  <1>1. /\ e \in Entries /\ entries'[c] = e /\ c \in Nat /\ c \in E
        /\ E \in SUBSET Nat /\ \A p \in E : entries'[p] = entries[p]
    BY EntrySetting
  <1>2. entries[c] = e
    BY <1>1
  <1>3. e.type # "all" /\ LaidOut(entries, E, block + blockLength)
    BY <1>1, <1>2 DEF IvrsInv, Collecting
  <1>4. block \in Nat /\ entry \in Nat /\ c - block = entry /\ blockLength \in Nat
    BY InBlockFacts DEF IvrsInv
  <1>5. \A p \in E : p \in Nat /\ (c < p => e.type # "stop" /\ c + EntrySize(e) <= p)
    BY <1>1, <1>2, <1>3 DEF LaidOut
  <1>6. Behind = {p \in E : p < c}
    BY DEF Behind
  <1>7. EntrySize(e) \in Nat \ {0}
    BY <1>1, EntryFacts
  <1>8. ASSUME e.type = "stop" PROVE E = Behind \union {c}
    <2>1. \A p \in E : p < c \/ p = c
      BY <1>1, <1>5, <1>8
    <2>2. QED
      BY <1>1, <1>6, <2>1
  <1>9. ASSUME e.type # "stop"
        PROVE  /\ EntryFits(entry, blockLength, e) /\ c + EntrySize(e) \in E \union {block + blockLength}
               /\ {p \in E : p < c + EntrySize(e)} = Behind \union {c}
    <2>1. EntryFits(entry, blockLength, e) /\ c + EntrySize(e) \in E \union {block + blockLength}
      BY <1>1, <1>2, <1>3, <1>4, <1>9 DEF LaidOut
    <2>2. \A p \in E : p < c + EntrySize(e) <=> p < c \/ p = c
      BY <1>1, <1>5, <1>7
    <2>3. QED
      BY <1>1, <1>6, <2>1, <2>2
  <1>10. ~Reversed(e, pending)
    <2> SUFFICES ASSUME e.type = "end", pending # NoBdf, e.id < pending PROVE FALSE
      BY DEF Reversed
    <2>1. PICK x \in Open(entries, Behind) : entries[x].id = pending
      BY DEF IvrsInv, Pending, OpenIs
    <2>2. /\ x \in E /\ x < c /\ entries[x].type \in Starts
          /\ \A z \in Behind : x < z => entries[z].type \notin Starts \union {"end"}
      BY <1>6, <2>1 DEF Open
    <2>3. Closes(entries, E, x, c)
      BY <1>2, <1>6, <2>2 DEF Closes
    <2>4. entries[x].id <= entries[c].id
      BY <1>1, <1>3, <2>2, <2>3 DEF LaidOut
    <2>5. e.id \in Bdfs /\ pending \in Bdfs
      BY <1>1, EntryFacts DEF IvrsInv, Typed
    <2>6. \A b \in Bdfs : b \in Int
      BY BdfFacts
    <2>7. QED
      BY <1>2, <2>1, <2>4, <2>5, <2>6
  <1>11. \A p \in Behind : p < c
    BY <1>6
  <1>12. QED
    BY <1>1, <1>2, <1>3, <1>8, <1>9, <1>10, <1>11

(* An entry met by the collecting walk, whose ids fit the set or not.      *)
LEMMA CollectAdvances ==
  ASSUME IvrsInv, walk = "collect", result = "running", entry < blockLength, sdt' = sdt,
         NEW e \in Contents(entries, block + entry, Entries),
         entries' = Remember(entries, block + entry, e), e.type # "stop",
         UNCHANGED <<offset, walk, block, all>>,
         \/ result' = "Full" /\ UNCHANGED <<entry, pending, acc>>
         \/ /\ result' = result
            /\ acc' = [acc EXCEPT !.all = @ \/ e.type = "all", !.ranges = @ \union Ids(e, pending)]
            /\ pending' = PendingAfter(e, pending)
            /\ entry' = entry + EntrySize(e)
  PROVE  IvrsInv'
  <1> DEFINE E == EntriesOf(block)
             c == block + entry
  <1>1. /\ e \in Entries /\ entries'[c] = e /\ c \in Nat
        /\ DOMAIN entries' \subseteq Nat
        /\ \A p \in DOMAIN entries' : entries'[p] \in Entries /\ p < offset
        /\ E \in SUBSET Nat /\ \A p \in E : entries'[p] = entries[p]
        /\ EntriesOf(block)' = E \union {c}
        /\ \A b \in DOMAIN sdt \ {block} : Denoted(b)' = Denoted(b) /\ (HasAll(b)' <=> HasAll(b))
    BY EntrySetting
  <1>2. /\ c \in E /\ entries[c] = e /\ e.type # "all"
        /\ EntryFits(entry, blockLength, e)
        /\ {p \in E : p < c + EntrySize(e)} = Behind \union {c}
        /\ c + EntrySize(e) \in E \union {block + blockLength}
        /\ \A p \in Behind : p < c
    BY SecondReading
  <1>3. EntriesOf(block)' = E
    BY <1>1, <1>2
  <1>4. /\ EntrySize(e) \in Nat \ {0} /\ PendingAfter(e, pending) \in Bdfs \union {NoBdf}
        /\ Ids(e, pending) \subseteq Bdfs
    BY <1>1, EntryFacts, PendingTyped DEF IvrsInv, Typed
  <1>5. /\ block \in Nat /\ entry \in Nat /\ blockLength \in Nat
        /\ MinLength[sdt[block].kind] \in Nat \ {0}
        /\ MinLength[sdt[block].kind] <= entry /\ entry + EntrySize(e) <= blockLength
    BY <1>2, InBlockFacts DEF IvrsInv, EntryFits
  <1>6. acc \in [found : BOOLEAN, all : BOOLEAN, ranges : SUBSET Bdfs]
    BY DEF IvrsInv, Typed
  <1>7. /\ acc' \in [found : BOOLEAN, all : BOOLEAN, ranges : SUBSET Bdfs]
        /\ acc'.found = acc.found /\ acc'.all = acc.all
    <2>1. CASE acc' = acc
      BY <1>6, <2>1
    <2>2. CASE acc' = [acc EXCEPT !.all = @ \/ e.type = "all", !.ranges = @ \union Ids(e, pending)]
      BY <1>2, <1>4, <1>6, <2>2
    <2>3. QED
      BY <2>1, <2>2
  <1>8. entry' \in {entry, entry + EntrySize(e)} /\ entry' \in Nat
    BY <1>4, <1>5
  <1>9. Typed'
    BY <1>1, <1>4, <1>7, <1>8 DEF IvrsInv, Typed
  <1>10. Cursor'
    <2>1. MinLength[sdt[block].kind] <= entry' /\ entry' <= blockLength
      BY <1>4, <1>5, <1>8
    <2>2. QED
      BY <2>1 DEF IvrsInv, Cursor, blockLength, Ivhd
  <1>11. Separate'
    BY <1>1 DEF IvrsInv, Separate
  <1>12. Parsing'
    BY DEF Parsing
  <1>13. Collecting'
    <2>1. LaidOut(entries', E, block + blockLength)
      BY <1>1, LaidAlike DEF IvrsInv, Collecting
    <2>2. LaidOut(entries, EntriesOf(block), block + blockLength)'
      BY <1>3, <2>1 DEF LaidOut, Closes, blockLength
    <2>3. block + entry' \in E \union {block + blockLength}
      BY <1>2, <1>4, <1>5, <1>8
    <2>4. \A p \in E : entries'[p].type # "all"
      BY <1>1 DEF IvrsInv, Collecting
    <2>5. QED
      BY <1>3, <2>2, <2>3, <2>4 DEF IvrsInv, Collecting, blockLength
  <1>14. Behind \in SUBSET Nat /\ \A p \in Behind : entries'[p] = entries[p]
    BY <1>1 DEF Behind
  <1>15. OpenIs(entries', Behind, pending) /\ DenotedBy(entries', Behind) = DenotedBy(entries, Behind)
    <2>1. OpenIs(entries, Behind, pending)
      BY DEF IvrsInv, Pending
    <2>2. \A x \in Behind : entries[x] = entries'[x]
      BY <1>14
    <2> HIDE DEF IvrsInv
    <2>3. QED
      BY <2>1, <2>2, SameBytes
  <1>16. DoneUnits' = DoneUnits /\ DoneUnits \subseteq DOMAIN sdt \ {block}
    BY UnitsKept
  <1>17. {Denoted(b)' : b \in DoneUnits} = {Denoted(b) : b \in DoneUnits}
    BY <1>1, <1>16
  <1>18. (\E b \in DoneUnits : HasAll(b)') <=> \E b \in DoneUnits : HasAll(b)
    BY <1>1, <1>16
  <1>19. PartOf' = DenotedBy(entries', Behind')
    BY DEF PartOf, DenotedBy, Closes, Bdfs
  <1>20. /\ ~acc.found => DoneUnits = {}
         /\ acc.all <=> \E b \in DoneUnits : HasAll(b)
         /\ ~acc.all => acc.ranges = (UNION {Denoted(b) : b \in DoneUnits}) \union DenotedBy(entries, Behind)
         /\ acc.found /\ sdt[block].window = Unit
    BY DEF IvrsInv, Collected, PartOf
  <1>21. CASE result' = "Full" /\ UNCHANGED <<entry, pending, acc>>
    <2>1. Behind' = Behind
      BY <1>3, <1>21 DEF Behind
    <2>2. Pending'
      BY <1>15, <1>21, <2>1 DEF Pending, OpenIs, Open
    <2>3. PartOf' = DenotedBy(entries, Behind)
      BY <1>15, <1>19, <2>1
    <2>4. Collected'
      BY <1>16, <1>17, <1>18, <1>20, <1>21, <2>3 DEF Collected
    <2>5. QED
      BY <1>9, <1>10, <1>11, <1>12, <1>13, <2>2, <2>4 DEF IvrsInv
  <1>22. CASE /\ result' = result
              /\ acc' = [acc EXCEPT !.all = @ \/ e.type = "all", !.ranges = @ \union Ids(e, pending)]
              /\ pending' = PendingAfter(e, pending)
              /\ entry' = entry + EntrySize(e)
    <2>1. Behind' = Behind \union {c}
      <3>1. block + entry' = c + EntrySize(e)
        BY <1>4, <1>5, <1>22
      <3>2. QED
        BY <1>2, <1>3, <3>1 DEF Behind
    <2>2. /\ OpenIs(entries', Behind \union {c}, PendingAfter(e, pending))
          /\ DenotedBy(entries', Behind \union {c}) = DenotedBy(entries', Behind) \union Ids(e, pending)
      <3>1. pending \in Bdfs \union {NoBdf}
        BY DEF IvrsInv, Typed
      <3>2. entries'[c] = e /\ entries'[c] \in Entries /\ c \in Nat /\ \A p \in Behind : p < c
        BY <1>1, <1>2
      <3> HIDE DEF c
      <3>3. OpenIs(entries', Behind \union {c}, PendingAfter(entries'[c], pending))
        BY <1>14, <1>15, <3>1, <3>2, OpenAfter
      <3>4. DenotedBy(entries', Behind \union {c}) = DenotedBy(entries', Behind) \union Ids(entries'[c], pending)
        BY <1>14, <1>15, <3>1, <3>2, DenotesMore
      <3>5. QED
        BY <3>2, <3>3, <3>4
    <2>3. Pending'
      BY <1>22, <2>1, <2>2 DEF Pending, OpenIs, Open
    <2>4. PartOf' = DenotedBy(entries, Behind) \union Ids(e, pending)
      BY <1>15, <1>19, <2>1, <2>2
    <2>5. acc'.ranges = acc.ranges \union Ids(e, pending)
      BY <1>6, <1>22
    <2>6. ~acc'.all => acc'.ranges = (UNION {Denoted(b)' : b \in DoneUnits}) \union PartOf'
      <3> DEFINE D == UNION {Denoted(b) : b \in DoneUnits}
      <3>1. UNION {Denoted(b)' : b \in DoneUnits} = D
        BY <1>17
      <3>2. ~acc.all => acc.ranges = D \union DenotedBy(entries, Behind)
        BY <1>20
      <3> HIDE DEF D
      <3>3. QED
        BY <1>7, <2>4, <2>5, <3>1, <3>2
    <2>7. Collected'
      BY <1>7, <1>16, <1>18, <1>20, <1>22, <2>6 DEF Collected
    <2>8. QED
      BY <1>9, <1>10, <1>11, <1>12, <1>13, <2>3, <2>7 DEF IvrsInv
  <1>23. QED
    BY <1>21, <1>22

(* walk_device_entries at an entry, for either purpose.                    *)
LEMMA EntryStep ==
  ASSUME IvrsInv, NextEntry PROVE IvrsInv'
  <1>1. walk # "blocks" /\ result = "running" /\ entry < blockLength /\ sdt' = sdt
    BY DEF NextEntry, InBlock
  <1>2. PICK e \in Contents(entries, block + entry, Entries) :
          /\ e.type # "stop" /\ entries' = Remember(entries, block + entry, e)
          /\ \/ /\ ~EntryFits(entry, blockLength, e) \/ Reversed(e, pending)
                /\ Return("Malformed")
             \/ /\ EntryFits(entry, blockLength, e) /\ ~Reversed(e, pending)
                /\ walk = "collect" /\ Return("Full")
             \/ /\ EntryFits(entry, blockLength, e) /\ ~Reversed(e, pending)
                /\ Keep(e)
                /\ pending' = PendingAfter(e, pending)
                /\ entry' = entry + EntrySize(e)
                /\ UNCHANGED <<offset, walk, block, result>>
    BY DEF NextEntry
  <1>3. walk \in {"parse", "collect"}
    BY <1>1 DEF IvrsInv, Typed
  <1>4. CASE (~EntryFits(entry, blockLength, e) \/ Reversed(e, pending)) /\ Return("Malformed")
    <2>1. walk # "collect"
      BY <1>1, <1>2, <1>4, SecondReading
    <2>2. DOMAIN entries' \subseteq Nat /\ \A p \in DOMAIN entries' : entries'[p] \in Entries
      BY <1>1, <1>2, EntrySetting
    <2>3. QED
      BY <1>1, <1>4, <2>1, <2>2, MalformedStep DEF Return, IvrsInv, Typed
  <1>5. CASE walk = "collect" /\ Return("Full")
    BY <1>1, <1>2, <1>5, CollectAdvances DEF Return, cursorVars
  <1>6. CASE /\ EntryFits(entry, blockLength, e) /\ ~Reversed(e, pending)
             /\ Keep(e)
             /\ pending' = PendingAfter(e, pending)
             /\ entry' = entry + EntrySize(e)
             /\ UNCHANGED <<offset, walk, block, result>>
    <2>1. CASE walk = "parse"
      BY <1>1, <1>2, <1>6, <2>1, ParseAdvances DEF Keep
    <2>2. CASE walk = "collect"
      <3>1. /\ UNCHANGED <<offset, walk, block, all>> /\ result' = result
            /\ acc' = [acc EXCEPT !.all = @ \/ e.type = "all", !.ranges = @ \union Ids(e, pending)]
        BY <1>6, <2>2 DEF Keep
      <3>2. QED
        BY <1>1, <1>2, <1>6, <2>2, <3>1, CollectAdvances
    <2>3. QED
      BY <1>3, <2>1, <2>2
  <1>7. QED
    BY <1>2, <1>4, <1>5, <1>6

(* The end of parse_ivhd's walk, at a stop or at the end of the block: the *)
(* whole block is laid out, and `all` says what is in it.                  *)
LEMMA ParseEnds ==
  ASSUME IvrsInv, walk = "parse", result = "running", sdt' = sdt, Stops \/ EntriesEnd
  PROVE  LET F == {p \in DOMAIN entries' : block < p /\ p < block + sdt[block].length}
         IN /\ DOMAIN entries' \subseteq Nat
            /\ \A p \in DOMAIN entries' : entries'[p] \in Entries /\ p < offset
            /\ LaidOut(entries', F, block + blockLength)
            /\ all <=> \E p \in F : entries'[p].type = "all"
            /\ \A b \in DOMAIN sdt \ {block} : Denoted(b)' = Denoted(b) /\ (HasAll(b)' <=> HasAll(b))
  <1> DEFINE F == {p \in DOMAIN entries' : block < p /\ p < block + sdt[block].length}
             E == EntriesOf(block)
             c == block + entry
  <1>1. /\ \A p \in E : p < c /\ entries[p].type # "stop"
        /\ LaidOut(entries, E, c)
        /\ all <=> \E p \in E : entries[p].type = "all"
    BY DEF IvrsInv, Parsing
  <1>2. CASE Stops
    <2>1. entry < blockLength
      BY <1>2 DEF Stops
    <2>2. PICK e \in Contents(entries, c, Entries) :
            e.type = "stop" /\ entries' = Remember(entries, c, e)
      BY <1>2 DEF Stops
    <2>3. /\ e \in Entries /\ entries'[c] = e /\ c \in Nat
          /\ DOMAIN entries' \subseteq Nat
          /\ \A p \in DOMAIN entries' : entries'[p] \in Entries /\ p < offset
          /\ E \in SUBSET Nat /\ \A p \in E : entries'[p] = entries[p] /\ entries'[p] \in Entries
          /\ \A b \in DOMAIN sdt \ {block} : Denoted(b)' = Denoted(b) /\ (HasAll(b)' <=> HasAll(b))
      BY <2>1, <2>2, EntrySetting
    <2>4. F = E \union {c}
      BY <2>1, <2>2, EntryRead DEF IvrsInv
    <2>5. OpenIs(entries', E, pending)
      <3>1. Behind = E
        BY <1>1 DEF Behind
      <3>2. OpenIs(entries, E, pending)
        BY <3>1 DEF IvrsInv, Pending
      <3>3. QED
        BY <2>3, <3>2, SameBytes
    <2>6. LaidOut(entries', E, c)
      BY <1>1, <2>3, LaidAlike
    <2>7. \A p \in E : entries'[p] \in Entries /\ entries'[p].type # "stop"
      BY <1>1, <2>3
    <2>8. \A front : LaidOut(entries', E \union {c}, front)
      BY <1>1, <2>2, <2>3, <2>5, <2>6, <2>7, LaidMore DEF IvrsInv
    <2>9. all <=> \E p \in E \union {c} : entries'[p].type = "all"
      BY <1>1, <2>2, <2>3
    <2> HIDE DEF E, F, c
    <2>10. LaidOut(entries', F, block + blockLength) /\ (all <=> \E p \in F : entries'[p].type = "all")
      BY <2>4, <2>8, <2>9
    <2>11. QED
      BY <2>3, <2>10 DEF F
  <1>3. CASE EntriesEnd
    <2>1. entries' = entries /\ entry = blockLength
      BY <1>3, InBlockFacts DEF EntriesEnd, IvrsInv
    <2>2. F = E
      BY <2>1 DEF EntriesOf
    <2>3. \A p \in DOMAIN entries' : entries'[p] \in Entries /\ p < offset
      BY <2>1 DEF IvrsInv, Typed, Separate
    <2>4. DOMAIN entries' \subseteq Nat
      BY <2>1 DEF IvrsInv, Typed
    <2>5. ASSUME NEW b PROVE Denoted(b)' = Denoted(b) /\ (HasAll(b)' <=> HasAll(b))
      <3>1. EntriesOf(b)' = EntriesOf(b)
        BY <2>1 DEF EntriesOf
      <3>2. QED
        BY <2>1, <3>1, DoneStays
    <2>6. LaidOut(entries', E, block + blockLength)
      BY <1>1, <2>1
    <2> HIDE DEF E, F
    <2>7. LaidOut(entries', F, block + blockLength) /\ (all <=> \E p \in F : entries'[p].type = "all")
      BY <1>1, <2>1, <2>2, <2>6
    <2>8. QED
      BY <2>3, <2>4, <2>5, <2>7 DEF F
  <1>4. QED
    BY <1>2, <1>3

(* A block is done and the walk goes on behind it: what separates blocks,  *)
(* and everything that only an entry walk needs.                           *)
LEMMA BackToBlocks ==
  ASSUME IvrsInv, walk # "blocks", result = "running", sdt' = sdt, walk' = "blocks",
         UNCHANGED <<offset, block, entry, pending, all, result>>,
         DOMAIN entries' \subseteq Nat,
         \A p \in DOMAIN entries' : entries'[p] \in Entries /\ p < offset,
         acc' \in [found : BOOLEAN, all : BOOLEAN, ranges : SUBSET Bdfs]
  PROVE  Typed' /\ Cursor' /\ Separate' /\ Parsing' /\ Collecting' /\ Pending'
  <1>1. Typed'
    BY DEF IvrsInv, Typed
  <1>2. Cursor'
    BY DEF IvrsInv, Cursor
  <1>3. Separate'
    <2>1. offset \in Nat /\ block \in Nat /\ blockLength \in Nat /\ block + blockLength = offset
      BY InBlockFacts DEF IvrsInv, Typed
    <2>2. \A b \in DOMAIN sdt : b < offset /\ b + sdt[b].length <= offset
      <3> SUFFICES ASSUME NEW b \in DOMAIN sdt PROVE b < offset /\ b + sdt[b].length <= offset
        OBVIOUS
      <3>1. b < offset /\ (b + sdt[b].length <= block \/ b = block)
        BY DEF IvrsInv, Separate
      <3>2. b \in Nat /\ sdt[b].length \in Nat
        BY BlockFacts DEF IvrsInv, Typed
      <3>3. CASE b = block
        BY <2>1, <3>1, <3>3 DEF blockLength
      <3>4. CASE b + sdt[b].length <= block
        BY <2>1, <3>1, <3>2, <3>4
      <3>5. QED
        BY <3>1, <3>3, <3>4
    <2>3. QED
      BY <2>2 DEF Separate
  <1>4. Parsing' /\ Collecting' /\ Pending'
    BY DEF Parsing, Collecting, Pending
  <1>5. QED
    BY <1>1, <1>2, <1>3, <1>4

(* The units done after a block, when it is the unit's and when not.       *)
LEMMA UnitsDone ==
  ASSUME IvrsInv, walk # "blocks", walk' = "blocks", sdt' = sdt
  PROVE  /\ DoneUnits \subseteq DOMAIN sdt \ {block}
         /\ DoneUnits' = IF sdt[block].window = Unit THEN DoneUnits \union {block} ELSE DoneUnits
  <1>1. block \in DOMAIN sdt /\ Ivhd(sdt[block])
    BY DEF IvrsInv, Cursor
  <1>2. UnitBlocks' = UnitBlocks /\ (block \in UnitBlocks <=> sdt[block].window = Unit)
    BY <1>1 DEF UnitBlocks, Ivhd
  <1>3. DoneUnits = UnitBlocks \ {block} /\ DoneUnits' = UnitBlocks
    BY <1>2 DEF DoneUnits
  <1>4. UnitBlocks \subseteq DOMAIN sdt
    BY DEF UnitBlocks
  <1>5. QED
    BY <1>2, <1>3, <1>4

(* After parse_ivhd: the block is refused, skipped, known to cover all     *)
(* devices, or walked again.                                               *)
LEMMA ParseStep ==
  ASSUME IvrsInv, AfterParse PROVE IvrsInv'
  <1> DEFINE F == {p \in DOMAIN entries' : block < p /\ p < block + sdt[block].length}
  <1>1. walk = "parse" /\ result = "running" /\ sdt' = sdt /\ (Stops \/ EntriesEnd)
    BY DEF AfterParse, InBlock
  <1>2. /\ DOMAIN entries' \subseteq Nat
        /\ \A p \in DOMAIN entries' : entries'[p] \in Entries /\ p < offset
        /\ LaidOut(entries', F, block + blockLength)
        /\ all <=> \E p \in F : entries'[p].type = "all"
        /\ \A b \in DOMAIN sdt \ {block} : Denoted(b)' = Denoted(b) /\ (HasAll(b)' <=> HasAll(b))
    BY <1>1, ParseEnds
  <1>3. HasAll(block)' <=> \E p \in EntriesOf(block)' : entries'[p].type = "all"
    BY DEF HasAll
  <1>4. block' = block => EntriesOf(block)' = F
    BY <1>1 DEF EntriesOf
  <1> HIDE DEF F
  <1>5. acc \in [found : BOOLEAN, all : BOOLEAN, ranges : SUBSET Bdfs] /\ all \in BOOLEAN
    BY DEF IvrsInv, Typed
  <1>6. /\ ~acc.found => DoneUnits = {}
        /\ acc.all <=> \E b \in DoneUnits : HasAll(b)
        /\ ~acc.all => acc.ranges = UNION {Denoted(b) : b \in DoneUnits}
    BY <1>1 DEF IvrsInv, Collected, PartOf
  <1>7. DoneUnits \subseteq DOMAIN sdt \ {block}
    BY <1>1 DEF DoneUnits, UnitBlocks
  <1>8. {Denoted(b)' : b \in DoneUnits} = {Denoted(b) : b \in DoneUnits}
    BY <1>2, <1>7
  <1>9. (\E b \in DoneUnits : HasAll(b)') <=> \E b \in DoneUnits : HasAll(b)
    BY <1>2, <1>7
  <1>10. CASE Return("Malformed")
    <2>1. result' = "Malformed" /\ UNCHANGED <<cursorVars, all, acc>>
      BY <1>10 DEF Return
    <2>2. QED
      BY <1>1, <1>2, <2>1, MalformedStep DEF IvrsInv, Typed
  <1>11. CASE /\ sdt[block].window \in Windows \ {Unit} /\ walk' = "blocks"
              /\ UNCHANGED <<offset, block, entry, pending, all, acc, result>>
    <2>1. Typed' /\ Cursor' /\ Separate' /\ Parsing' /\ Collecting' /\ Pending'
      BY <1>1, <1>2, <1>5, <1>11, BackToBlocks
    <2>2. DoneUnits' = DoneUnits /\ PartOf' = {}
      BY <1>1, <1>11, UnitsDone DEF PartOf
    <2>3. Collected'
      BY <1>6, <1>8, <1>9, <1>11, <2>2 DEF Collected
    <2>4. QED
      BY <2>1, <2>3 DEF IvrsInv
  <1>12. CASE /\ sdt[block].window = Unit /\ all /\ walk' = "blocks"
              /\ acc' = [acc EXCEPT !.found = TRUE, !.all = TRUE]
              /\ UNCHANGED <<offset, block, entry, pending, all, result>>
    <2>1. acc' \in [found : BOOLEAN, all : BOOLEAN, ranges : SUBSET Bdfs] /\ acc'.found /\ acc'.all
      BY <1>5, <1>12
    <2>2. Typed' /\ Cursor' /\ Separate' /\ Parsing' /\ Collecting' /\ Pending'
      BY <1>1, <1>2, <1>12, <2>1, BackToBlocks
    <2>3. DoneUnits' = DoneUnits \union {block}
      BY <1>1, <1>12, UnitsDone
    <2>4. HasAll(block)'
      BY <1>2, <1>3, <1>4, <1>12
    <2>5. \E b \in DoneUnits' : HasAll(b)'
      <3>1. block' = block
        BY <1>12
      <3>2. HasAll(block)' <=> \E p \in {p \in DOMAIN entries' : block' < p /\ p < block' + sdt'[block'].length} :
                                 entries'[p].type = "all"
        BY DEF HasAll, EntriesOf
      <3>3. QED
        BY <2>3, <2>4, <3>1, <3>2 DEF HasAll, EntriesOf
    <2>6. Collected'
      BY <1>12, <2>1, <2>5 DEF Collected
    <2>7. QED
      BY <2>2, <2>6 DEF IvrsInv
  <1>13. CASE /\ sdt[block].window = Unit /\ ~all
              /\ StartWalk("collect", block, sdt[block].kind)
              /\ acc' = [acc EXCEPT !.found = TRUE]
              /\ UNCHANGED <<offset, all, result>>
    <2>1. /\ walk' = "collect" /\ block' = block /\ entry' = MinLength[sdt[block].kind] /\ pending' = NoBdf
          /\ offset' = offset /\ all' = all /\ result' = result
      BY <1>13 DEF StartWalk
    <2>2. /\ acc' \in [found : BOOLEAN, all : BOOLEAN, ranges : SUBSET Bdfs] /\ acc'.found
          /\ acc'.all = acc.all /\ acc'.ranges = acc.ranges
      BY <1>5, <1>13
    <2>3. /\ block \in Nat /\ blockLength \in Nat /\ MinLength[sdt[block].kind] \in Nat \ {0}
          /\ MinLength[sdt[block].kind] <= blockLength
      <3>1. /\ MinLength[sdt[block].kind] <= entry /\ entry <= blockLength /\ entry \in Nat
            /\ block \in Nat /\ blockLength \in Nat /\ MinLength[sdt[block].kind] \in Nat \ {0}
        BY <1>1, InBlockFacts DEF IvrsInv
      <3>2. QED
        BY <3>1
    <2>4. Typed'
      BY <1>1, <1>2, <2>1, <2>2, <2>3 DEF IvrsInv, Typed
    <2>5. Cursor'
      <3>1. MinLength[sdt[block].kind] <= entry' /\ entry' <= blockLength
        BY <2>1, <2>3
      <3>2. QED
        BY <1>1, <2>1, <3>1 DEF IvrsInv, Cursor, blockLength, Ivhd
    <2>6. Separate'
      BY <1>1, <1>2, <2>1 DEF IvrsInv, Separate
    <2>7. Parsing'
      BY <2>1 DEF Parsing
    <2>8. EntriesOf(block)' = F
      BY <1>4, <2>1
    <2>9. Collecting'
      <3>1. LaidOut(entries, EntriesOf(block), block + blockLength)'
        BY <1>1, <1>2, <2>1, <2>8 DEF LaidOut, Closes, blockLength
      <3>2. block + entry' \in F \union {block + blockLength}
        BY <1>2, <2>1 DEF LaidOut
      <3>3. \A p \in F : entries'[p].type # "all"
        BY <1>2, <1>13
      <3>4. QED
        BY <1>1, <1>13, <2>1, <2>8, <3>1, <3>2, <3>3 DEF Collecting, blockLength
    <2>10. Behind' = {}
      <3>1. \A p \in F : block + MinLength[sdt[block].kind] <= p
        BY <1>2 DEF LaidOut
      <3>2. \A p \in F : p \in Nat
        BY <1>2 DEF F
      <3>3. \A p \in F : ~(p < block + entry')
        BY <2>1, <2>3, <3>1, <3>2
      <3>4. QED
        BY <2>1, <2>8, <3>3 DEF Behind
    <2>11. Pending'
      BY <2>1, <2>10 DEF Pending, OpenIs, Open
    <2>12. PartOf' = {}
      BY <2>1, <2>10 DEF PartOf, DenotedBy, Closes
    <2>13. DoneUnits' = DoneUnits
      BY <1>1, <2>1, UnitsKept
    <2>14. Collected'
      <3>1. ~acc'.all => acc'.ranges = (UNION {Denoted(b)' : b \in DoneUnits}) \union {}
        BY <1>6, <1>8, <2>2
      <3>2. QED
        BY <1>1, <1>6, <1>9, <1>13, <2>1, <2>2, <2>12, <2>13, <3>1 DEF Collected
    <2>15. QED
      BY <2>4, <2>5, <2>6, <2>7, <2>9, <2>11, <2>14 DEF IvrsInv
  <1>14. QED
    BY <1>10, <1>11, <1>12, <1>13 DEF AfterParse

(* After the collecting walk, the unit's ids have those of the block.      *)
LEMMA CollectStep ==
  ASSUME IvrsInv, AfterCollect PROVE IvrsInv'
  <1> DEFINE E == EntriesOf(block)
             c == block + entry
  <1>1. /\ walk = "collect" /\ result = "running" /\ sdt' = sdt /\ (Stops \/ EntriesEnd)
        /\ walk' = "blocks" /\ UNCHANGED <<offset, block, entry, pending, all, acc, result>>
    BY DEF AfterCollect, InBlock
  <1>2. /\ DOMAIN entries' \subseteq Nat
        /\ \A p \in DOMAIN entries' : entries'[p] \in Entries /\ p < offset
        /\ EntriesOf(block)' = E /\ \A p \in E : entries'[p] = entries[p]
        /\ DenotedBy(entries, E) = DenotedBy(entries, Behind)
        /\ \A b \in DOMAIN sdt \ {block} : Denoted(b)' = Denoted(b) /\ (HasAll(b)' <=> HasAll(b))
    <2>1. CASE Stops
      <3>1. entry < blockLength
        BY <2>1 DEF Stops
      <3>2. PICK e \in Contents(entries, c, Entries) :
              e.type = "stop" /\ entries' = Remember(entries, c, e)
        BY <2>1 DEF Stops
      <3>3. /\ e \in Entries /\ c \in Nat /\ DOMAIN entries' \subseteq Nat
            /\ \A p \in DOMAIN entries' : entries'[p] \in Entries /\ p < offset
            /\ E \in SUBSET Nat /\ \A p \in E : entries'[p] = entries[p]
            /\ EntriesOf(block)' = E \union {c}
            /\ \A b \in DOMAIN sdt \ {block} : Denoted(b)' = Denoted(b) /\ (HasAll(b)' <=> HasAll(b))
        BY <1>1, <3>1, <3>2, EntrySetting
      <3>4. c \in E /\ entries[c] = e /\ E = Behind \union {c} /\ \A p \in Behind : p < c
        BY <1>1, <3>1, <3>2, SecondReading
      <3>5. pending \in Bdfs \union {NoBdf} /\ OpenIs(entries, Behind, pending)
        BY <1>1 DEF IvrsInv, Typed, Pending
      <3>6. Behind \in SUBSET Nat /\ entries[c] \in Entries
        BY <3>3, <3>4
      <3>7. DenotedBy(entries, Behind \union {c}) = DenotedBy(entries, Behind) \union Ids(entries[c], pending)
        <4>1. c \in Nat /\ \A p \in Behind : p < c
          BY <3>3, <3>4
        <4>2. ASSUME NEW d \in Nat, \A p \in Behind : p < d, entries[d] \in Entries
              PROVE  DenotedBy(entries, Behind \union {d})
                       = DenotedBy(entries, Behind) \union Ids(entries[d], pending)
          <5>1. Behind \in SUBSET Nat
            BY <3>6
          <5>2. OpenIs(entries, Behind, pending) /\ pending \in Bdfs \union {NoBdf}
            BY <3>5
          <5>3. QED
            BY <4>2, <5>1, <5>2, DenotesMore, SMTT(60)
        <4> HIDE DEF c
        <4>3. QED
          BY <3>6, <4>1, <4>2
      <3>8. Ids(entries[c], pending) = {}
        BY <3>2, <3>4 DEF Ids, Selects
      <3>9. QED
        BY <3>3, <3>4, <3>7, <3>8
    <2>2. CASE EntriesEnd
      <3>1. entries' = entries /\ entry = blockLength
        BY <1>1, <2>2, InBlockFacts DEF EntriesEnd, IvrsInv
      <3>2. \A b : EntriesOf(b)' = EntriesOf(b)
        BY <1>1, <3>1 DEF EntriesOf
      <3>3. \A b : Denoted(b)' = Denoted(b) /\ (HasAll(b)' <=> HasAll(b))
        BY <3>1, <3>2, DoneStays
      <3>4. Behind = E
        BY <3>1 DEF Behind, EntriesOf, blockLength
      <3>5. EntriesOf(block)' = E
        BY <1>1, <3>1 DEF EntriesOf
      <3>6. DOMAIN entries' \subseteq Nat /\ \A p \in DOMAIN entries' : entries'[p] \in Entries /\ p < offset
        BY <1>1, <3>1 DEF IvrsInv, Typed, Separate
      <3>7. QED
        BY <3>1, <3>3, <3>4, <3>5, <3>6
    <2>3. QED
      BY <1>1, <2>1, <2>2
  <1>3. acc \in [found : BOOLEAN, all : BOOLEAN, ranges : SUBSET Bdfs]
    BY DEF IvrsInv, Typed
  <1>4. Typed' /\ Cursor' /\ Separate' /\ Parsing' /\ Collecting' /\ Pending'
    BY <1>1, <1>2, <1>3, BackToBlocks
  <1>5. /\ acc.all <=> \E b \in DoneUnits : HasAll(b)
        /\ ~acc.all => acc.ranges = (UNION {Denoted(b) : b \in DoneUnits}) \union DenotedBy(entries, Behind)
        /\ acc.found /\ sdt[block].window = Unit
    BY <1>1 DEF IvrsInv, Collected, PartOf
  <1>6. DoneUnits' = DoneUnits \union {block} /\ DoneUnits \subseteq DOMAIN sdt \ {block} /\ PartOf' = {}
    BY <1>1, <1>5, UnitsDone DEF PartOf
  <1>7. block' = block
    BY <1>1
  <1>8. ASSUME NEW b, b = block
        PROVE  ~(HasAll(b)') /\ Denoted(b)' = DenotedBy(entries, Behind)
    <2>1. EntriesOf(b)' = E
      BY <1>2, <1>7, <1>8 DEF EntriesOf
    <2>2. \A p \in E : entries[p].type # "all"
      BY <1>1 DEF IvrsInv, Collecting
    <2>3. ~(HasAll(b)')
      BY <1>2, <2>1, <2>2 DEF HasAll
    <2>4. Denoted(b)' = DenotedBy(entries', E)
      BY <2>1 DEF Denoted, DenotedBy, Closes, Bdfs
    <2>5. DenotedBy(entries', E) = DenotedBy(entries, E)
      BY <1>2, SameBytes
    <2>6. QED
      BY <1>2, <2>3, <2>4, <2>5
  <1>9. (\E b \in DoneUnits \union {block} : HasAll(b)') <=> \E b \in DoneUnits : HasAll(b)
    BY <1>2, <1>6, <1>8
  <1>10. UNION {Denoted(b)' : b \in DoneUnits \union {block}}
           = (UNION {Denoted(b) : b \in DoneUnits}) \union DenotedBy(entries, Behind)
    BY <1>2, <1>6, <1>8
  <1>11. Collected'
    BY <1>1, <1>5, <1>6, <1>9, <1>10 DEF Collected
  <1>12. QED
    BY <1>4, <1>11 DEF IvrsInv

-----------------------------------------------------------------------------
(* What the table's readers rely on.                                       *)

(* Over every sequence of bytes, ivhd_bdf_ranges keeps its cursors, the    *)
(* entries it has read and the ids it has collected in step.               *)
THEOREM IvrsInvariance == Spec => []IvrsInv
  <1>1. Init => IvrsInv
    BY IvrsStarts
  <1>2. IvrsInv /\ [Next]_vars => IvrsInv'
    <2> SUFFICES ASSUME IvrsInv, [Next]_vars PROVE IvrsInv'
      OBVIOUS
    <2>1. CASE EndOfTable \/ TruncatedBlock
      BY <2>1, TableEnds
    <2>2. CASE NextBlock
      BY <2>2, BlockStep
    <2>3. CASE NextEntry
      BY <2>3, EntryStep
    <2>4. CASE AfterParse
      BY <2>4, ParseStep
    <2>5. CASE AfterCollect
      BY <2>5, CollectStep
    <2>6. CASE UNCHANGED vars
      <3>1. UNCHANGED <<sdt, entries, offset, walk, block, entry, pending, all, acc, result>>
        BY <2>6 DEF vars, cursorVars
      <3>2. UNCHANGED <<EntriesOf(block), Behind, DoneUnits, PartOf>>
        BY <3>1 DEF EntriesOf, Behind, DoneUnits, UnitBlocks, Ivhd, PartOf, DenotedBy, Closes
      <3>3. Typed' /\ Cursor' /\ Separate'
        BY <3>1 DEF IvrsInv, Typed, Cursor, Separate, blockLength, Ivhd
      <3>4. Parsing' /\ Collecting'
        BY <3>1, <3>2 DEF IvrsInv, Parsing, Collecting, LaidOut, Closes, blockLength
      <3>5. Pending'
        BY <3>1, <3>2 DEF IvrsInv, Pending, OpenIs, Open
      <3>6. \A b : EntriesOf(b)' = EntriesOf(b)
        BY <3>1 DEF EntriesOf
      <3>7. \A b : Denoted(b)' = Denoted(b) /\ (HasAll(b)' <=> HasAll(b))
        BY <3>1, <3>6, DoneStays
      <3>8. Collected'
        BY <3>1, <3>2, <3>7 DEF IvrsInv, Collected
      <3>9. QED
        BY <3>3, <3>4, <3>5, <3>8 DEF IvrsInv
    <2>7. QED
      BY <2>1, <2>2, <2>3, <2>4, <2>5, <2>6 DEF Next
  <1>3. QED
    BY <1>1, <1>2, PTL DEF Spec

(* Whatever lengths and types the firmware spells, IvrsBlocks and          *)
(* walk_device_entries never read outside the table or the block.          *)
THEOREM IvrsCursorInBounds == Spec => []CursorInBounds
  <1>1. IvrsInv => CursorInBounds
    <2> SUFFICES ASSUME IvrsInv PROVE CursorInBounds
      OBVIOUS
    <2>1. TypeOK
      BY DEF IvrsInv, Typed, Cursor, TypeOK
    <2>2. walk # "blocks" => block + blockLength <= offset /\ entry <= blockLength
      <3> SUFFICES ASSUME walk # "blocks"
                   PROVE  block + blockLength <= offset /\ entry <= blockLength
        OBVIOUS
      <3>1. block + blockLength = offset /\ entry <= blockLength /\ offset \in Nat
        BY DEF IvrsInv, Typed, Cursor
      <3>2. QED
        BY <3>1
    <2>3. offset <= TableLength
      BY DEF IvrsInv, Cursor
    <2>4. QED
      BY <2>1, <2>2, <2>3 DEF CursorInBounds
  <1>2. QED
    BY <1>1, IvrsInvariance, PTL

(* What parse_ivhd has accepted, the collecting walk of the same block     *)
(* never refuses, and it meets no entry that covers all devices.           *)
THEOREM WalksAgree == Spec => []SecondWalkClean
  <1>1. IvrsInv => SecondWalkClean
    <2> SUFFICES ASSUME IvrsInv, walk = "collect"
                 PROVE  /\ ~all /\ result \in {"running", "Ok", "Full"}
                        /\ \A p \in DOMAIN entries :
                             block < p /\ p < block + entry => entries[p].type # "all"
      BY DEF SecondWalkClean
    <2>1. ~all /\ result \in {"running", "Ok", "Full"}
      BY DEF IvrsInv, Typed, Collecting
    <2>2. ASSUME NEW p \in DOMAIN entries, block < p, p < block + entry
          PROVE  entries[p].type # "all"
      <3>1. block \in Nat /\ entry \in Nat /\ blockLength \in Nat /\ entry <= blockLength /\ p \in Nat
        BY InBlockFacts DEF IvrsInv, Typed
      <3>2. p < block + blockLength
        BY <2>2, <3>1
      <3>3. p \in EntriesOf(block)
        BY <2>2, <3>2 DEF EntriesOf, blockLength
      <3>4. QED
        BY <3>3 DEF IvrsInv, Collecting
    <2>3. QED
      BY <2>1, <2>2
  <1>2. QED
    BY <1>1, IvrsInvariance, PTL

(* An Ok of ivhd_bdf_ranges holds exactly the ids that the unit's blocks   *)
(* denote, or is None when one of them covers all devices.                 *)
THEOREM IvrsAnswerCorrect == Spec => []AnswerCorrect
  <1>1. IvrsInv => AnswerCorrect
    <2> SUFFICES ASSUME IvrsInv, result = "Ok"
                 PROVE  Answer = IF \E b \in UnitBlocks : \E p \in EntriesOf(b) : entries[p].type = "all"
                                 THEN {} ELSE UNION {Denoted(b) : b \in UnitBlocks}
      BY DEF AnswerCorrect
    <2>1. walk = "blocks"
      BY DEF IvrsInv, Cursor
    <2>2. DoneUnits = UnitBlocks /\ PartOf = {}
      BY <2>1 DEF DoneUnits, PartOf
    <2>3. /\ ~acc.found => UnitBlocks = {}
          /\ acc.all <=> \E b \in UnitBlocks : HasAll(b)
          /\ ~acc.all => acc.ranges = UNION {Denoted(b) : b \in UnitBlocks}
      BY <2>2 DEF IvrsInv, Collected
    <2>4. UnitBlocks = {} => UNION {Denoted(b) : b \in UnitBlocks} = {}
      OBVIOUS
    <2>5. QED
      BY <2>3, <2>4 DEF Answer, HasAll
  <1>2. QED
    BY <1>1, IvrsInvariance, PTL

=============================================================================
