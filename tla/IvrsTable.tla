------------------------------ MODULE IvrsTable ------------------------------
(***************************************************************************)
(* IvrsTable::ivhd_bdf_ranges of src/src/arch/x86_64/amd/ivrs.rs: the      *)
(* requesters of one AMD-Vi unit.  Every IVHD block of the table is walked *)
(* by parse_ivhd, whether or not it is the unit's, and a block of the unit *)
(* that does not cover all devices is walked a second time to collect its  *)
(* ids.  Device entries have sizes that depend on their type, and a range  *)
(* is spread over two of them.                                             *)
(*                                                                         *)
(* The table is any sequence of bytes (FirmwareBytes); offsets count from  *)
(* the first block.  A BdfRangeSet is the set of ids it holds (BdfRangeSet *)
(* shows when insert answers Full).                                        *)
(***************************************************************************)
EXTENDS Integers, FiniteSets, FiniteSetsExt, FirmwareBytes

CONSTANTS
  TableLength,   \* bytes of blocks in the table
  HeaderLength,  \* of a block: 4 in the code
  MinLength,     \* the least length of each kind of block, where entries start
  ShortEntry, LongEntry, NamedEntry,  \* sizes: 4, 8 and at least 22 in the code
  Windows,       \* register windows of IVHDs
  Unit,          \* the register window asked for
  Space,         \* number of requester ids
  Capacity,      \* IVRS_REQUESTER_WINDOW_CAPACITY
  BlockLengths,  \* declared lengths the bytes may spell
  UidLengths,    \* declared UID lengths of ACPI named entries
  Types          \* types of device entry the table may hold

(* Types 11h and 40h are laid out alike.                                   *)
Kinds == {"IVHD 10h", "IVHD 11h", "IVMD", "other"}

(* Device entries.  The long selects are alias, extended and special ones, *)
(* the long start begins an alias or extended range.  "reserved" types are *)
(* skipped, types above the ACPI named one end the walk.                   *)
Selects == {"select", "long select", "named"}
Starts == {"start", "long start"}
AllTypes == {"pad", "all", "end", "reserved", "stop"} \union Selects \union Starts

ASSUME LengthsAssumption ==
  /\ TableLength \in Nat /\ Space \in Nat /\ Capacity \in Nat
  /\ HeaderLength \in Nat \ {0} /\ ShortEntry \in Nat \ {0}
  /\ LongEntry \in Nat \ {0} /\ NamedEntry \in Nat \ {0}
  /\ MinLength \in [Kinds -> Nat] /\ \A k \in Kinds : MinLength[k] >= HeaderLength
  /\ BlockLengths \subseteq Nat /\ UidLengths \subseteq Nat
  /\ Unit \in Windows /\ Types \subseteq AllTypes

VARIABLES
  sdt,       \* the block headers read so far, by offset
  entries,   \* the device entries read so far, by offset
  offset,    \* IvrsBlocks::offset
  walk,      \* "blocks", or the purpose of an entry walk: "parse" or "collect"
  block,     \* the block whose entries are being walked
  entry,     \* walk_device_entries: offset inside the block
  pending,   \* pending_range_start
  all,       \* parse_ivhd: include_all
  acc,       \* ivhd_bdf_ranges: found_unit, saw_all, ranges
  result     \* "running", "Ok", or what went wrong

cursorVars == <<offset, walk, block, entry, pending>>
vars == <<sdt, entries, cursorVars, all, acc, result>>

None == "none"
NoBdf == -1
Bdfs == 0 .. Space - 1

Blocks ==
  [kind : {"IVHD 10h", "IVHD 11h", "IVMD"}, length : BlockLengths, window : Windows \union {None}]
    \union [kind : {"other"}, length : BlockLengths, window : {None}]

Entries ==
  [type : Types \ {"pad", "all", "reserved", "stop", "named"}, id : Bdfs, uid : {0}]
    \union [type : Types \intersect {"named"}, id : Bdfs, uid : UidLengths]
    \union [type : Types \intersect {"pad", "all", "reserved", "stop"}, id : {0}, uid : {0}]

Ivhd(h) == h.kind \in {"IVHD 10h", "IVHD 11h"}

-----------------------------------------------------------------------------
(* Sizes and checks.                                                       *)

(* IvrsBlocks::next, and the length checks of parse_ivhd and parse_ivmd.   *)
BlockFits(at, h) ==
  h.length >= HeaderLength /\ at + h.length <= TableLength /\ h.length >= MinLength[h.kind]

EntrySize(e) ==
  CASE e.type = "named" -> NamedEntry + e.uid
    [] e.type \in {"long select", "long start"} -> LongEntry
    [] OTHER -> ShortEntry

EntryFitsUnchecked(at, n, e) == TRUE

(* The UID length of a named entry is itself read only if it is inside.    *)
EntryFits(at, n, e) ==
  /\ e.type = "named" => at + NamedEntry <= n
  /\ at + EntrySize(e) <= n

-----------------------------------------------------------------------------
(* What a device entry means: the pending range start after it, and the    *)
(* ids handed to the closure.                                              *)

PendingKeptByEnd(e, p) == IF e.type \in Starts THEN e.id ELSE p
PendingAfter(e, p) ==
  CASE e.type \in Starts -> e.id
    [] e.type = "end" -> NoBdf
    [] OTHER -> p

Reversed(e, p) == e.type = "end" /\ p # NoBdf /\ e.id < p

Ids(e, p) ==
  CASE e.type \in Selects -> {e.id}
    [] e.type = "end" /\ p # NoBdf -> p .. e.id
    [] OTHER -> {}

Set == INSTANCE RequesterSet WITH members <- acc.ranges, asked <- {}, answer <- "Ok"
Overfills(S) == Set!Runs(acc.ranges \union S) > Capacity

-----------------------------------------------------------------------------
Init ==
  /\ sdt = <<>> /\ entries = <<>>
  /\ offset = 0 /\ walk = "blocks" /\ block = 0 /\ entry = 0 /\ pending = NoBdf
  /\ all = FALSE
  /\ acc = [found |-> FALSE, all |-> FALSE, ranges |-> {}]
  /\ result = "running"

Running(w) == result = "running" /\ walk = w

Return(r) ==
  /\ result' = r
  /\ UNCHANGED <<cursorVars, all, acc>>

EndOfTable ==
  /\ Running("blocks") /\ offset >= TableLength
  /\ Return("Ok")
  /\ UNCHANGED <<sdt, entries>>

TruncatedBlock ==
  /\ Running("blocks")
  /\ offset < TableLength /\ offset + HeaderLength > TableLength
  /\ Return("Malformed")
  /\ UNCHANGED <<sdt, entries>>

StartWalk(w, at, kind) ==
  /\ walk' = w /\ block' = at /\ entry' = MinLength[kind] /\ pending' = NoBdf

(* An IVHD is parsed by walking it; the memory of an IVMD must fit an      *)
(* address.                                                                *)
NextBlock ==
  /\ Running("blocks") /\ offset + HeaderLength <= TableLength
  /\ \E h \in Contents(sdt, offset, Blocks) :
       /\ sdt' = Remember(sdt, offset, h)
       /\ \/ /\ ~BlockFits(offset, h) \/ (h.kind = "IVMD" /\ h.window = None)
             /\ Return("Malformed")
          \/ /\ BlockFits(offset, h) /\ Ivhd(h)
             /\ offset' = offset + h.length
             /\ StartWalk("parse", offset, h.kind)
             /\ all' = FALSE
             /\ UNCHANGED <<acc, result>>
          \/ /\ BlockFits(offset, h) /\ ~Ivhd(h) /\ (h.kind = "IVMD" => h.window # None)
             /\ offset' = offset + h.length
             /\ UNCHANGED <<walk, block, entry, pending, all, acc, result>>
  /\ UNCHANGED entries

(* One entry; both walks check alike, and then do what their closure does. *)
InBlock == result = "running" /\ walk # "blocks"
blockLength == sdt[block].length

KeepIdsOnly(e) ==
  /\ acc' = IF walk = "parse" THEN acc ELSE [acc EXCEPT !.ranges = @ \union Ids(e, pending)]
  /\ UNCHANGED all

Keep(e) ==
  IF walk = "parse"
  THEN all' = (all \/ e.type = "all") /\ UNCHANGED acc
  ELSE /\ acc' = [acc EXCEPT !.all = @ \/ e.type = "all", !.ranges = @ \union Ids(e, pending)]
       /\ UNCHANGED all

NextEntry ==
  /\ InBlock /\ entry < blockLength
  /\ \E e \in Contents(entries, block + entry, Entries) :
       /\ e.type # "stop"
       /\ entries' = Remember(entries, block + entry, e)
       /\ \/ /\ ~EntryFits(entry, blockLength, e) \/ Reversed(e, pending)
             /\ Return("Malformed")
          \/ /\ EntryFits(entry, blockLength, e) /\ ~Reversed(e, pending)
             /\ walk = "collect" /\ Overfills(Ids(e, pending))
             /\ Return("Full")
          \/ /\ EntryFits(entry, blockLength, e) /\ ~Reversed(e, pending)
             /\ walk = "collect" => ~Overfills(Ids(e, pending))
             /\ Keep(e)
             /\ pending' = PendingAfter(e, pending)
             /\ entry' = entry + EntrySize(e)
             /\ UNCHANGED <<offset, walk, block, result>>
  /\ UNCHANGED sdt

Stops ==
  /\ entry < blockLength
  /\ \E e \in Contents(entries, block + entry, Entries) :
       e.type = "stop" /\ entries' = Remember(entries, block + entry, e)

EntriesEnd == entry >= blockLength /\ UNCHANGED entries

(* After parse_ivhd's walk: the register window must fit an address; the   *)
(* closure of ivhd_bdf_ranges then skips the block or walks it again.      *)
AfterParse ==
  /\ InBlock /\ walk = "parse"
  /\ Stops \/ EntriesEnd
  /\ \/ /\ sdt[block].window = None
        /\ Return("Malformed")
     \/ /\ sdt[block].window \in Windows \ {Unit}
        /\ walk' = "blocks"
        /\ UNCHANGED <<offset, block, entry, pending, all, acc, result>>
     \/ /\ sdt[block].window = Unit /\ all
        /\ walk' = "blocks"
        /\ acc' = [acc EXCEPT !.found = TRUE, !.all = TRUE]
        /\ UNCHANGED <<offset, block, entry, pending, all, result>>
     \/ /\ sdt[block].window = Unit /\ ~all
        /\ StartWalk("collect", block, sdt[block].kind)
        /\ acc' = [acc EXCEPT !.found = TRUE]
        /\ UNCHANGED <<offset, all, result>>
  /\ UNCHANGED sdt

AfterCollect ==
  /\ InBlock /\ walk = "collect"
  /\ Stops \/ EntriesEnd
  /\ walk' = "blocks"
  /\ UNCHANGED <<sdt, offset, block, entry, pending, all, acc, result>>

(* The value of Ok; the empty set is Ok(None).                             *)
Answer == IF acc.found /\ ~acc.all THEN acc.ranges ELSE {}

Next ==
  \/ EndOfTable \/ TruncatedBlock \/ NextBlock
  \/ NextEntry \/ AfterParse \/ AfterCollect

Spec == Init /\ [][Next]_vars

-----------------------------------------------------------------------------
(* Every variable stays in its domain.                                     *)
TypeOK ==
  /\ \A o \in DOMAIN sdt : sdt[o] \in Blocks
  /\ \A o \in DOMAIN entries : entries[o] \in Entries
  /\ offset \in Nat /\ entry \in Nat
  /\ walk \in {"blocks", "parse", "collect"}
  /\ walk # "blocks" => block \in DOMAIN sdt
  /\ pending \in Bdfs \union {NoBdf} /\ all \in BOOLEAN
  /\ acc.ranges \subseteq Bdfs
  /\ result \in {"running", "Ok", "Malformed", "Full"}

(* Whatever lengths and types the firmware spells, an entry being read     *)
(* lies inside its block and the block inside the table; the unchecked     *)
(* slice of a named entry's UID never leaves the table.                    *)
CursorInBounds ==
  /\ TypeOK
  /\ offset <= TableLength
  /\ walk # "blocks" => block + blockLength <= offset /\ entry <= blockLength

(* The two walks of one block agree: what parse_ivhd has accepted the      *)
(* collecting walk never finds malformed, and it never meets the entry     *)
(* that parse_ivhd had reported as covering all devices.                   *)
SecondWalkClean ==
  /\ walk = "collect" => ~all /\ (result \in {"running", "Ok", "Full"})
  /\ walk = "collect" => \A p \in DOMAIN entries :
       block < p /\ p < block + entry => entries[p].type # "all"

(* Reference: the ids a block's entries denote, E the places of entries in *)
(* the memory m.  A range is a start and an end with no other start or end *)
(* between.                                                                *)
EntriesOf(b) == {p \in DOMAIN entries : b < p /\ p < b + sdt[b].length}

Closes(m, E, x, y) ==
  /\ x < y /\ m[x].type \in Starts /\ m[y].type = "end"
  /\ \A z \in E : x < z /\ z < y => m[z].type \notin Starts \union {"end"}

DenotedBy(m, E) ==
  {i \in Bdfs :
     \/ \E x \in E : m[x].type \in Selects /\ m[x].id = i
     \/ \E x, y \in E : Closes(m, E, x, y) /\ m[x].id <= i /\ i <= m[y].id}

Denoted(b) == DenotedBy(entries, EntriesOf(b))

UnitBlocks == {b \in DOMAIN sdt : Ivhd(sdt[b]) /\ sdt[b].window = Unit}

(* An Ok answer holds exactly the ids the unit's blocks denote together,   *)
(* and is None when one of them covers all devices.                        *)
AnswerCorrect ==
  result = "Ok" =>
    Answer = IF \E b \in UnitBlocks : \E p \in EntriesOf(b) : entries[p].type = "all"
             THEN {} ELSE UNION {Denoted(b) : b \in UnitBlocks}

=============================================================================
