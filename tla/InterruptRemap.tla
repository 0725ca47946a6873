---------------------------- MODULE InterruptRemap ----------------------------
(***************************************************************************)
(* VT-d interrupt remapping, src/src/arch/x86_64/intel/ctrl.rs: entries of *)
(* an interrupt-remapping table written word by word while the unit reads  *)
(* and caches them, the queued invalidation of its interrupt entry cache,  *)
(* and the message a device is given.  Calls take &mut self: one at a      *)
(* time.  A register transaction is one step here; VtdRegisters shows that *)
(* what its Ok promises holds.  A queued invalidation is one step, and its *)
(* Ok means as much as in VtdUnit: executed, or published behind something *)
(* that hardware has yet to fetch.                                         *)
(*                                                                         *)
(* The unit is external: it reads an entry as a whole, caches the present  *)
(* ones by their index alone and drops one only when told to, or by        *)
(* itself.                                                                 *)
(***************************************************************************)
EXTENDS Integers, Sequences

CONSTANTS
  Tables,      \* interrupt-remapping tables
  SizeBits,    \* log2 of the entry count of each, at least 1 (entry_count is a
               \* power of two from INTERRUPT_REMAP_MIN_ENTRIES)
  HalfRange,   \* half of the indices a VtdInterruptEntry can hold, 2^15 in the code
  UsedEntries, \* entry indices that callers use
  Subhandles,  \* subhandles that callers use
  Deliveries,  \* sources and deliveries that callers ask for
  ApicShift    \* where hardware finds a destination outside extended mode, 8

NoTable == "no table"
Indices == 0 .. 2 * HalfRange - 1

(* The two words of an entry.  Low: Present and the target, or zero.       *)
(* High: the source id to verify, or zero, which verifies nothing.         *)
NotPresent == [vector |-> 0, dst |-> 0]
AnySource == "any source"

Disabled == [low |-> NotPresent, high |-> AnySource]

(* An interrupt that is not delivered.                                     *)
Blocked == [vector |-> 0, destination |-> 0]

(* X86InterruptVector::new refuses the exception vectors; without a vector *)
(* there is no entry.                                                      *)
MinExternal == 32
Accepted(d) == d.vector >= MinExternal

(* from_target and from_x86_delivery: the fields of the delivery move to   *)
(* their places in the low word; the mode bits go the same way as vector   *)
(* and are left out.                                                       *)
FromTarget(d) ==
  [low |-> [vector |-> d.vector, dst |-> d.destination], high |-> d.source]

Remaps == {FromTarget(d) : d \in {e \in Deliveries : Accepted(e)}}

(* entry_vaddr's bound, and the size IRTA tells hardware.                  *)
EntryCount(t) == 2^SizeBits[t]
IrtaSize(t) == SizeBits[t] - 1
InTable(t, i) == i < EntryCount(t)

(* remapped_msi_message: the top bit of the index has a place of its own.  *)
Message(i, s) == [low |-> i % HalfRange, high |-> (i \div HalfRange) % 2, subhandle |-> s]

ASSUME RemapAssumption ==
  /\ HalfRange \in Nat \ {0}
  /\ SizeBits \in [Tables -> Nat \ {0}] /\ NoTable \notin Tables
  /\ UsedEntries \subseteq Indices /\ Subhandles \subseteq Nat
  /\ \A d \in Deliveries : /\ d.vector \in Nat /\ d.destination \in Nat
                           /\ d.source \notin {AnySource, "nothing"}

VARIABLES
  memory,     \* the tables
  irta,       \* the table hardware uses, and whether in extended mode
  remapping,  \* GSTS.IRES
  cache,      \* interrupt entry cache; Disabled where nothing is cached
  pending,    \* invalidations hardware has yet to fetch: entries, and Other
  op,         \* the call in progress
  issued      \* history: the last compose Ok of each entry, while it stands

remapVars == <<memory, irta, remapping, cache, pending, op, issued>>
hwVars == <<irta, remapping, cache, pending>>

(* What else keeps the head of the queue from its tail: other components'  *)
(* descriptors, slots of an earlier lap or an earlier queue.               *)
Other == -1

Nothing == [message |-> Message(0, 0), remap |-> [low |-> NotPresent, high |-> "nothing"]]
Idle == [step |-> "idle"]

RemapInit ==
  /\ memory = [t \in Tables |-> [i \in Indices |-> Disabled]]
  /\ irta = [table |-> NoTable, extended |-> FALSE]
  /\ remapping = FALSE
  /\ cache = [i \in Indices |-> Disabled]
  /\ pending = {}
  /\ op = Idle
  /\ issued = [i \in Indices |-> Nothing]

-----------------------------------------------------------------------------
(* Registers.                                                              *)

(* set_interrupt_remap_table: the pointer only.  Entries cached from the   *)
(* table before it stay.                                                   *)
SetTable(t, extended) ==
  /\ op = Idle
  /\ irta' = [table |-> t, extended |-> extended]
  /\ issued' = IF t = irta.table THEN issued ELSE [i \in Indices |-> Nothing]
  /\ UNCHANGED <<memory, remapping, cache, pending, op>>

(* Callers set a table first: the code does not check.                     *)
SetRemapping(on) ==
  /\ op = Idle
  /\ irta.table # NoTable
  /\ remapping' = on
  /\ UNCHANGED <<memory, irta, cache, pending, op, issued>>

-----------------------------------------------------------------------------
(* write_interrupt_remap_entry, clear_interrupt_remap_entry and            *)
(* compose_interrupt_remap.                                                *)

Call(kind, t, i, s, remap) ==
  /\ op = Idle
  /\ InTable(t, i)
  /\ op' = [step |-> "first", kind |-> kind, table |-> t, entry |-> i, subhandle |-> s,
            remap |-> remap]
  /\ issued' = [issued EXCEPT ![i] = Nothing]
  /\ UNCHANGED <<memory, hwVars>>

WriteEntry(t, i) == \E remap \in Remaps : Call("write", t, i, 0, remap)
ClearEntry(t, i) == Call("write", t, i, 0, Disabled)
Compose(t, i, s) == \E remap \in Remaps \union {Disabled} : Call("compose", t, i, s, remap)

(* An index outside the table, or a delivery without an entry.             *)
Refuse ==
  /\ op = Idle
  /\ \/ \E t \in Tables, i \in UsedEntries : ~InTable(t, i)
     \/ \E d \in Deliveries : ~Accepted(d)
  /\ UNCHANGED remapVars

(* write_128: low, then high.                                              *)
WordOrderHighFirst == <<"high", "low">>
WordOrder == <<"low", "high">>

WriteWord(word) ==
  memory' = [memory EXCEPT ![op.table][op.entry][word] = op.remap[word]]

WriteFirst ==
  /\ op.step = "first"
  /\ WriteWord(WordOrder[1])
  /\ op' = [op EXCEPT !.step = "second"]
  /\ UNCHANGED <<hwVars, issued>>

WriteSecond ==
  /\ op.step = "second"
  /\ WriteWord(WordOrder[2])
  /\ op' = IF op.kind = "compose" THEN [op EXCEPT !.step = "submit"] ELSE Idle
  /\ UNCHANGED <<hwVars, issued>>

(* interrupt_entry_cache: the descriptor names the entry.                  *)
DescriptorSubhandle == op.subhandle
Descriptor == op.entry

Drop(i) == cache' = [cache EXCEPT ![i] = Disabled]

(* submit, as in VtdUnit: with the head at the new slot an Ok waits for    *)
(* hardware, with the head elsewhere it comes at once.                     *)
Done == pending = {} /\ Drop(Descriptor) /\ UNCHANGED pending
Publish == pending' = pending \union {Descriptor} /\ UNCHANGED cache

(* The Ok stands for the table in use; for another table it says nothing   *)
(* of what the unit will do.                                               *)
SubmitOk ==
  /\ op.step = "submit"
  /\ Done \/ (pending # {} /\ Publish)
  /\ issued' = IF op.table = irta.table
               THEN [issued EXCEPT ![op.entry] =
                       [message |-> Message(op.entry, op.subhandle), remap |-> op.remap]]
               ELSE issued
  /\ op' = Idle
  /\ UNCHANGED <<memory, irta, remapping>>

(* Not published, or timed out, or failed after it was fetched.            *)
SubmitErr ==
  /\ op.step = "submit"
  /\ UNCHANGED <<cache, pending>> \/ Publish \/ Done
  /\ op' = Idle
  /\ UNCHANGED <<memory, irta, remapping, issued>>

(* The rest of the unit leaves something behind in the queue, or installs  *)
(* it anew: what was pending is lost, and the Ok given for it.             *)
Backlog ==
  /\ op = Idle
  /\ pending' = pending \union {Other}
  /\ UNCHANGED <<memory, irta, remapping, cache, op, issued>>

InstallQueue ==
  /\ op = Idle
  /\ pending' \in {{}, {Other}}
  /\ issued' = [i \in Indices |-> IF i \in pending THEN Nothing ELSE issued[i]]
  /\ UNCHANGED <<memory, irta, remapping, cache, op>>

-----------------------------------------------------------------------------
(* The unit.                                                               *)

HardwareEntries(t) == 2^(IrtaSize(t) + 1)

(* A pending descriptor is executed; there may be more of its kind.        *)
Execute(x) ==
  /\ IF x = Other THEN UNCHANGED cache ELSE Drop(x)
  /\ pending' \in {pending, pending \ {x}}
  /\ UNCHANGED <<memory, irta, remapping, op, issued>>

Fetch(i) ==
  /\ remapping
  /\ i < HardwareEntries(irta.table)
  /\ memory[irta.table][i].low # NotPresent
  /\ cache' = [cache EXCEPT ![i] = memory[irta.table][i]]
  /\ UNCHANGED <<memory, irta, remapping, pending, op, issued>>

Evict(i) ==
  /\ cache[i] # Disabled
  /\ Drop(i)
  /\ UNCHANGED <<memory, irta, remapping, pending, op, issued>>

(* The index of a message: handle plus subhandle, which every message of   *)
(* remapped_msi_message marks as valid.                                    *)
IndexOf(m) == (m.low + m.high * HalfRange + m.subhandle) % (2 * HalfRange)

(* What becomes of an interrupt from source s through entry w.             *)
Deliver(w, s) ==
  IF w.low = NotPresent \/ w.high \notin {AnySource, s} THEN Blocked
  ELSE [vector |-> w.low.vector,
        destination |-> IF irta.extended THEN w.low.dst ELSE w.low.dst \div 2^ApicShift]

RemapNext ==
  \/ \E t \in Tables :
       \/ \E extended \in BOOLEAN : SetTable(t, extended)
       \/ \E i \in UsedEntries :
            WriteEntry(t, i) \/ ClearEntry(t, i) \/ \E s \in Subhandles : Compose(t, i, s)
  \/ \E on \in BOOLEAN : SetRemapping(on)
  \/ Refuse \/ WriteFirst \/ WriteSecond \/ SubmitOk \/ SubmitErr \/ Backlog \/ InstallQueue
  \/ \E i \in UsedEntries : Fetch(i) \/ Evict(i)
  \/ \E x \in pending : Execute(x)

RemapSpec == RemapInit /\ [][RemapNext]_remapVars

-----------------------------------------------------------------------------
(* Every variable stays in its domain: a word in memory or cache is one    *)
(* some call writes.                                                       *)
Written == Remaps \union {Disabled}
Words == [low : {r.low : r \in Written}, high : {r.high : r \in Written}]
Calls ==
  [step : {"first", "second", "submit"}, kind : {"write", "compose"}, table : Tables,
   entry : UsedEntries, subhandle : Subhandles \union {0}, remap : Written]

RemapTypeOK ==
  /\ memory \in [Tables -> [Indices -> Words]]
  /\ irta \in [table : Tables \union {NoTable}, extended : BOOLEAN] /\ remapping \in BOOLEAN
  /\ cache \in [Indices -> Words] /\ pending \subseteq Indices \union {Other}
  /\ op \in {Idle} \union Calls
  /\ DOMAIN issued = Indices
  /\ \A e \in Indices : issued[e] = Nothing \/ issued[e].remap \in Written

(* The entries the unit may use for index i now.                           *)
InUse(i) ==
  (IF i < HardwareEntries(irta.table) THEN {memory[irta.table][i]} ELSE {Disabled})
    \union ({cache[i]} \ {Disabled})

Sources == {d.source : d \in Deliveries}

(* compose_interrupt_remap returned Ok on the table in use, with subhandle *)
(* 0, and its invalidation has been fetched (as it has when Ok is returned *)
(* unless an earlier descriptor had not been): whatever the unit had       *)
(* cached or fetched half-written, the message brings interrupts of the    *)
(* source device to the target's vector, and no other device's, until the  *)
(* entry is written again or the table changed; and if the entry composed  *)
(* is a disabled one, no device's.  The target's destination is only       *)
(* promised in extended mode: from_x86_delivery writes it where hardware   *)
(* does not look for it otherwise.                                         *)
ComposedDelivered ==
  /\ RemapTypeOK
  /\ remapping =>
       \A e \in Indices :
         (issued[e] # Nothing /\ e \notin pending /\ issued[e].message.subhandle = 0) =>
           \A w \in InUse(IndexOf(issued[e].message)), s \in Sources :
             IF s = issued[e].remap.high
             THEN /\ Deliver(w, s) # Blocked
                  /\ Deliver(w, s).vector = issued[e].remap.low.vector
                  /\ irta.extended => Deliver(w, s).destination = issued[e].remap.low.dst
             ELSE Deliver(w, s) = Blocked

(* Present is in the word that write_128 writes first.  An entry present   *)
(* without a source to verify is one that was disabled and is being set;   *)
(* clearing or overwriting an entry never opens it to every device.        *)
OpenOnlyWhileSet ==
  \A t \in Tables, i \in Indices :
    (memory[t][i].low # NotPresent /\ memory[t][i].high = AnySource) =>
      op # Idle /\ op.step = "second" /\ op.table = t /\ op.entry = i /\ op.remap # Disabled

(* The invariant behind them.  How far the call in progress has written    *)
(* its entry; no promise stands for that entry meanwhile.                  *)
EntryInStep ==
  op # Idle =>
    /\ InTable(op.table, op.entry)
    /\ issued[op.entry] = Nothing
    /\ op.step = "second" => memory[op.table][op.entry].low = op.remap.low
    /\ op.step = "submit" => memory[op.table][op.entry] = op.remap

(* While a promise stands, the table in use holds the entry composed, and  *)
(* the unit has cached that entry or none, or has yet to fetch the         *)
(* invalidation.                                                           *)
ComposedStands ==
  \A e \in Indices : issued[e] # Nothing =>
    /\ irta.table \in Tables /\ InTable(irta.table, e)
    /\ issued[e].message = Message(e, issued[e].message.subhandle)
    /\ memory[irta.table][e] = issued[e].remap
    /\ e \in pending \/ cache[e] \in {Disabled, issued[e].remap}

RemapInv ==
  /\ RemapTypeOK
  /\ remapping => irta.table # NoTable
  /\ EntryInStep
  /\ OpenOnlyWhileSet
  /\ ComposedStands

=============================================================================
