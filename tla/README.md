# KORE-IOMMU in TLA+

A TLA+ model of the KORE-IOMMU crate (`src/`): TLC runs on small instances, and
theorems checked by TLAPS for every value of the constants, about every modelled
component. `PROJECT.json` lists the runs, the lines of code each definition
translates, the hazards the properties are for and the theorems.

    tlc -config CommandQueue_concurrent.cfg MCCommandQueue
    tlapm CommandQueueProofs.tla

## 1. The system

| Part | Source | State | Operations | What is hard |
|---|---|---|---|---|
| Command queue | `ctrl.rs` | claim, committed and retired counters, one state byte per slot, descriptor memory, tail register | `init`, `submit` | lock-free, many submitters, bounded polls, hardware on the other side |
| VT-d unit and domain controller | `intel/ctrl.rs` | context entries, queue, enables; hardware caches behind them | `install_*`, `enable`, `bind`, `unbind`, `map`, `remap`, `protect`, `unmap`, `invalidate`, disabling | hardware reads and caches between any two steps; each step can fail |
| IOTLB range invalidation | `intel/ctrl.rs` | a plan: next page, pages left | `invalidate_iotlb_range` | alignment, limits and overflow; failure part-way |
| Global command registers | `intel/ctrl.rs` | GCMD, GSTS, table address registers | `set_*_table`, `set_*_enabled`, `enable_translation` | read-modify-write through two registers, time-outs |
| Fault reporting and fault event | `intel/ctrl.rs` | FSTS, fault recording registers, FE registers | `poll_fault`, `configure_fault_event` | the unit records while it is polled and sends while it is routed; overflow; lost wake-ups |
| Requester ranges | `firm/pcie.rs` | a bounded sorted array of ranges | `insert`, `insert_single` | merging at edges, fullness |
| DMAR, IVRS, IORT | `intel/dmar.rs`, `amd/ivrs.rs`, `aarch64/iort.rs` | none: firmware bytes and a cursor | requester, reserved memory, ATS, proximity and name queries | lengths, offsets, counts, references and cycles that the firmware chose |
| Interrupt remapping | `intel/ctrl.rs` | remapping tables, IRTA, the unit's entry cache | `write_`, `clear_interrupt_remap_entry`, `compose_interrupt_remap` | two-word entries fetched half-written and cached |
| Addresses, capabilities, paging formats, MSI, SMMU, errors | remaining files | none | bit fields and conversions | overflow at the edges |

`VtdDomainController` owns a page table (the external `kore_memory` crate) and
borrows a `VtdUnit` mutably. Binding writes a context entry and submits two
invalidations. The page table calls back into `VtdQueuedInvalidator`, which holds
a shared pointer to the unit and submits to the same queue; that queue is where
threads meet. The firmware tables tell which requesters a unit serves;
`BdfRangeSet` holds the answer.

What makes each part correct:

* queue: one owner per slot; whole descriptors, published in order; a submit
  returns; Ok means that hardware has the command;
* unit: after an Ok unbind the requester reaches nothing, after an Ok bind its own
  domain only; after an Ok invalidation the old page is out of the IOTLB;
* range plan: an Ok range is covered by legal blocks;
* registers: what a transaction promised stays true; translation only with a queue;
* interrupt remapping: a composed message reaches its vector (and, in extended mode, its
  destination), from its source alone;
* faults: each reported once, whole, in order; overflow reported; a handler that
  polls until None is woken for the next fault;
* requester ranges: the set of what was inserted, in canonical form;
* tables: no read outside a structure, a query ends, the answer is what the bytes say.

## 2. Modules

| Module | Models | Shape |
|---|---|---|
| `CommandQueue` | `CommandQueue::{init, submit}` | one action per atomic access, any number of threads; hardware `Fetch` |
| `OrderedSubmission` | what the queue promises | abstract: take, publish in order, succeed or abandon |
| `CommandQueueProofs` | | theorems |
| `VtdUnit` | `VtdUnit`, `VtdDomainController`, hardware caches | operations in steps, hardware between them |
| `VtdUnitProofs` | | theorems |
| `IotlbRange` | `invalidate_iotlb_range`, `VtdIotlbRangePlan` | one behaviour is one call |
| `VtdRegisters` | GCMD and GSTS transactions | one action per register access |
| `InterruptRemap` | remapping entries, IRTA, the interrupt entry cache, the message | one action per word written or descriptor submitted, unit between them |
| `VtdFaults` | `poll_fault`, `configure_fault_event`, the handler | one action per register access, unit between them |
| `BdfRangeSet` | `BdfRangeSet::insert` | one action for the scan and its write, one per round of the two merge loops |
| `RequesterSet` | what the set promises | abstract: a set of ids, Full when the runs do not fit; the range asked for is visible, so an insert must add it and nothing less |
| `FirmwareBytes` | table bytes | chosen when first read, then fixed |
| `DmarTable`, `IvrsTable` | table queries | one action per structure, scope or entry read |
| `IortTable` | id mapping and the queries on it | one action per node and mapping read |
| `IortLayout` | where IORT nodes and the arrays inside them lie | one action per node and element |
| `VtdRegistersProofs`, `IvrsTableProofs`, `DmarTableProofs` | | theorems about the module of that name |
| `VtdInterruptProofs` | | theorems about `VtdFaults` and `InterruptRemap` |
| `RangeProofs` | | theorems about `IotlbRange` and `BdfRangeSet` |
| `IortTableProofs` | | theorems about `IortLayout` and `IortTable` |
| `MC*` | | constants and symmetry for TLC; `MCInvalidations` and `MCIortTable` extend two modules that share no state and run them side by side |

Definitions keep the code's names (`wait_for_capacity` is `WaitForCapacity`).
Definitions that a run's mutants use, such as `CapacityOffByOne`, stand directly
before the definition they would replace and are used by nothing else.

**Composition.** `CommandQueue` has the ring; `VtdUnit`, `IotlbRange` and
`InterruptRemap` use one submission as one step. What its Ok means depends on the
head register, because `wait_for_consumed` only asks whether the head is at another
slot. `VtdUnit` and `InterruptRemap` therefore keep `pending`, what hardware has yet
to fetch. With nothing pending the head is at the new slot, and an Ok means fetched
(`queue_sequential` shows it on the ring). With something pending the Ok comes at once
and the descriptor joins it. An Err leaves the descriptor unpublished, published or
fetched. So a submission that timed out makes the next Ok an early one, as the ring
does (section 3), until hardware has caught up. Pending are also slots that hold no
descriptor of the model (`Gap`, `Other`): turning the queue off may reset the head
to 0 while software goes on where it was, and installing the queue anew restarts
software at slot 0 while the head may stay. A new installation loses what was
pending; the histories then withdraw the Ok given for it, and what callers repeat
counts anew. `pending` is a set, fetched in any order and any number of times, which
allows all the ring does. The safety properties of these two modules say what holds
once the descriptor of an Ok has been fetched; `queue_concurrent_ack` shows that a
second submitter, too, can get an Ok before that. In `IotlbRange` a block whose
submission returned Ok counts as flushed: coverage is coverage by such blocks, and
whether hardware has them is the question of `pending`. A GCMD transaction is one step in `VtdUnit` and `InterruptRemap`;
`VtdRegisters` shows what its Ok promises. `DmarTable`, `IvrsTable` and `IortTable`
use `RequesterSet` for the range set, which `BdfRangeSet` implements. `IortTable`
takes for granted that the mappings it reads lie in their nodes: `IortLayout` shows it.

**External parts**, modelled from how the code uses them: the hardware that
fetches descriptors, carries out commands, caches contexts, translations and
interrupt entries, records faults and sends messages; the page table of `kore_memory`, which writes an entry and then
calls the invalidator; the fault handler, which wakes on a message and polls until
None. Some assumptions about hardware matter. In `VtdFaults` a message is sent when
the fault status goes from clear to set, as the unit of the VT-d specification does:
a handler that stops polling before None is not woken again. In `VtdRegisters` a
command takes effect as a whole; if its bits took effect one by one, a command
that timed out could undo an enable for a moment. In `VtdFaults` FRI follows the
oldest pending record, as `poll_primary_fault` relies on; on a unit that latches
FRI when PPF is first set, the second of two pending faults could not be read, and
`poll_primary_fault` would answer its error for a clear F bit.
Of a queue that is switched off nothing is assumed: it may keep its head or start over.

**Width.** Tickets are natural numbers: 2^64 submissions are out of reach, and
`CapacityNeverUnderflows` shows that the one wrapping subtraction never wraps.
`IotlbRange` has words of `WordBits` bits and addresses of `AddressBits`;
`IortTable` has ids up to `MaxId`, standing for u32::MAX.

## 3. Runs

| Run | Shows | Bounds |
|---|---|---|
| `queue_concurrent` | slot exclusion, whole descriptors, order, capacity never taken back, refinement, every submit returns | 2 threads on 2 slots, so that every slot is contended and wraps; 5 tickets; 2 installations; all faults; a poll loop looks twice before it gives up |
| `queue_sequential` | Ok means fetched; all tickets acknowledged | 1 thread, 9 tickets on 4 slots: two laps |
| `unit_faults` | revocation, confinement, tags, confirmation | 1 client, 2 domains, 2 pages at one iova, so that one replaces the other; up to 2 descriptors pending, an IOTLB of one line; any submission or wait may fail, the queue and translation go off and on, the queue and the context table are installed anew |
| `invalidations` | range invalidation: coverage, legal blocks, no underflow; interrupt remapping: delivery, no entry open | 4-bit page numbers, 6-bit words, every start and count up to 20, beyond the end of the space and of the word, where `next_page` saturates; 3 tables of 4, 4 and 2 entries, an entry beyond the index's lower bits and beyond the smallest table, 2 sources, a refused vector, 2 subhandles; the queue may lag at any time |
| `registers` | promises kept, ready when enabled | 2 root tables, 1 remap table, time-outs |
| `faults` | FIFO, nothing cleared unread, no lost wake-up, overflow and faults reported | 2 records, 4 faults, 2 raised bits, 3 routings to 2 messages |
| `bdf_range_set` | canonical form, refinement | 9 ids, 3 ranges: one insert can bridge all three |
| `dmar` | cursor, termination, answers | a table of 14 units with scaled-down headers, up to two structures with up to three scopes; all eight kinds; lengths include 0, too short, exact, too long; three pairs of queries, both on one table |
| `ivrs` | cursor, second walk, answer | table of 6 units, every entry type |
| `iort` | termination, real cycles, translation rule, claimed or unreachable, ranges, elements inside nodes | 2 nodes, up to 2 mappings each out of 18 (search) or 5 (ranges), cycles of one and two nodes; layout: a table of 12 units with words up to 15, offsets before, at and past every edge, a count whose product wraps |

The bounds are the least at which the cases named in the last column occur: a
contended slot, a second lap, a bridged range, a scope that ends at the last byte,
a cycle through every node, a product that wraps. Symmetry is used for the pages of
`unit_faults`, which the code never compares, and only in runs that check
invariants alone. In `unit_faults` there is one client: its properties speak of one
client at a time, and clients meet only in the IOTLB, by domain id, where one client
that moves between two domains leaves the same lines. They speak of one line at a
time as well, so an IOTLB of one line, filled and evicted at will, shows every line
there can be. Two pending descriptors are an old one and the one of the last Ok.
Callers map pages in one of the two domains: what the properties say of a page
concerns one domain's lines, and a flush of the other domain takes none of them out.
`VtdUnitProofs` has none of these restrictions.
Runs of queries and of a single call end when the answer is given and do not check
for deadlock.

Each component has a `TypeOK`. It is a conjunct of a safety
property or of a proved invariant. The largest run has 2.4 million states, the longest
takes a little over two minutes on two workers.

**Disagreements.** Two runs show a documented statement that the code does not
keep; the `findings` of `PROJECT.json` quote it.

* `queue_concurrent_ack`: `wait_for_consumed` takes "the head is at another slot"
  for "consumed". It also holds before the head gets there, so a second submitter
  is told Ok too early.
* `queue_full_ring`: as many descriptors as slots make tail equal head, an empty
  ring to the hardware. Fewer submitters than slots do not prevent it: one that is
  told Ok too early goes on and fills the ring (2 threads on 4 slots, 4 tickets).

The same modules show the limits of what the code guarantees under other
constants. Each of these is one change to a configuration:

* `CommandQueue_sequential` with `Faults = {"timeout"}` and `PollLimit = 2` violates
  `AckedExecuted`: after a time-out the timed-out descriptor is still at the head,
  and the next submit returns Ok at once. A ticket given up before it is published
  also stays in front of all later ones, which then time out: in
  `OrderedSubmission` nothing is ever published past an abandoned ticket.
* `CommandQueue_full_ring` with `EntryCount = 4`, `MaxTickets = 6` and
  `EveryTicketAcked`: a slow submitter finds the head back at its slot after a lap;
  it and the next user of the slot wait for each other, without any failure.

What `VtdUnit` and `InterruptRemap` do not promise, their properties say in so many words:

* The invalidator's hooks drop errors, so unmap, remap and protect return success with
  the page perhaps still in the IOTLB. `InvalidateConfirms` is what holds: of pages
  whose invalidation was answered Ok, to the hook or to a later `invalidate`.
* `bind_context` may write one domain over another. The entry then pairs the new root
  with the old domain id for a moment, and the IOTLB may keep a line filled through
  it: `bind_context` flushes the new domain's id only. `rebound` remembers such pairs
  and `MixedWith` is what may be mixed; an unbind in between leaves nothing.
* An Ok that came at once, behind a descriptor that had timed out, promises nothing
  until hardware has fetched its own.
* `from_x86_delivery` writes the destination of an interrupt where hardware looks for
  it in extended mode only: `ComposedDelivered` promises the vector and the source in
  both modes, the destination in that one.

## 4. Fairness

* `ThreadFairSpec` (`queue_concurrent`): each thread inside `submit` goes on. A poll
  loop is ordinary code; nothing is assumed of the hardware or of other threads.
* `FairSpec` (`queue_sequential`, `queue_full_ring`): hardware also fetches what
  lies between head and tail, as the code must assume of it.
* `DmarTable`, `IortTable`: a query that has begun goes on: a loop in one thread.
* `IortTable` runs beside `IortLayout`, which needs no fairness.
* `VtdFaults`: a call that has begun goes on, a message sent arrives, and the handler
  it wakes polls until None. Nobody polls without being woken, and nothing is assumed
  of the unit but that it sends; so `FaultsReported` and `OverflowReported` depend on
  `NoLostWakeup`. They exempt a masked event, and one routed again while it was
  unmasked: a message can then go to an address written half.

No safety property depends on fairness; the other runs assume none.

## 5. Proofs

`CommandQueueProofs`, for any set of threads, any power-of-two ring and any poll
limit, assumes only `EntryCountAssumption` and `BoundsAssumption`. `IndInv` has
eight parts, each needed by another:

* `TicketAccounting`: a claimed ticket is held by exactly one thread or decided;
* `TicketOrder`: where a thread's ticket lies between the counters; with the
  capacity test, two owners' tickets differ by less than `EntryCount`, so their
  slots differ: `SlotExclusive`;
* `SlotTracksOwner`: the slot's byte says where its owner stands, so that nobody
  else passes the empty test;
* `DescriptorIntact` then follows from exclusion, as only the owner writes;
* `TailTracksCommit`: the tail is `committed`, or one more during the publication;
  with `TicketOrder` at most one thread is publishing.

Modular arithmetic is kept in lemmas about `SlotOf`. `TailMovesInOrder` is the
action property, `Refinement` the step simulation of `OrderedSubmission`.

`RetiredOnlyAdvances` is a second action property: the exchange of
`advance_retired` succeeds only on the value it has compared with its ticket.

`VtdUnitProofs`, for any clients, domains, pages, IOTLB and number of pending
descriptors, assumes nothing of callers or of the queue. `IndInv` says how far the
operation in progress has written its entry (`EntriesInStep`); that from the context
flush on the cache holds the new entry or none, or the flush is still pending
(`CachesInStep`); that cached contexts and lines mix two domains only after one was
bound directly over the other (`TagsAgree`); and that confirmed pages are out of the
lines of their domain, or an invalidation that covers them is still pending
(`PagesInStep`). There is one step lemma per action. The delicate ones are `Fetch`,
where a fetched descriptor must have left the cache as its Ok promised, and
`InstallQueue`, which loses descriptors and with them the promises that rest on them;
turning translation or the queue off leaves the caches as they are, so that what they
hold stays true. `UnbindIsRevocation`, `BindIsConfinement`, `TagsStayTrue` and
`InvalidateIsConfirmation` follow without further assumptions.

**One submitter.** `CommandQueueProofs` also shows what Ok means where it means
something. `SequentialUse` is one thread, no time-outs (an error the unit reports is
allowed) and one installation. Section 3 shows that the first two are needed.
`SequentialInv` says how far hardware is at each step of `submit`: everything
committed has been fetched, but for the one ticket between its tail write and the
end of `wait_for_consumed`. That makes "the head is at another slot" mean
"consumed", so `SequentialAcksExecuted` and `SequentialFetchesPublished` hold.

**Registers.** In `RegInv` a promise is more than a bit of GSTS: the command not yet
carried out, the status the next command will be built from and the address register
have it too (`StaysOn`, `StaysOff`, `StaysAt`). A transaction under way promises
nothing of its own bit (`Underway`, `Commanded`), and a pointer command that GCMD may
repeat finds a table in its address register (`Backed`). `Enabling` follows
`enable_translation` through its steps. No assumption but `TablesAssumption`.

**Faults.** `FaultInv`: the records hold exactly the faults not reported, each once
(`RecordsHold`), and a poll half-way holds parts of the oldest (`PollHolds`):
`FaultsInOrder`, for any number of records. What a poll of the status read is still
set and disjoint from what was raised since (`StatusHolds`): `UnseenBitsStay`. A
routing has written the parts it has passed (`RouteHolds`), and whatever is set has a
wake-up (`WakeupHolds`): `WakeupIsNotLost`.

**Interrupt remapping.** `RemapInv` says which words of the entry in progress are
written, and that from the Ok of an invalidation on the cache holds the composed entry
or none, or the invalidation is still pending: a compose that is told Ok too early is
covered from the fetch of its descriptor on. `EntriesStayClosed` rests on the order of the two words. That the message
names the entry is arithmetic on the index and its top bit, for any `HalfRange`.

**Range invalidation.** `RangeInv`: what remains is a whole number of the pages asked
for, the pages passed are flushed, and the cursor stands just past them unless
`next_page` has saturated, when no page with an address is left. `BlockNeverExceeds`
and `OkCoversTheRange` hold of every request. `BlocksAcceptable` exempts ranges that
run past the last page number of a usize: the proof attempt failed there, and TLC
showed a saturated `next_page` that is aligned to nothing. The bounds of the run now
reach this case. The provers know no exponentiation, so `PowersOfTwo` gives the
defining equations of 2^k, which TLC evaluates; that one power divides another is
proved from it by induction over a set, with the least element of its complement.

**Requester ranges.** `SetInv` adds to `Canonical` what holds while `merge_around` runs:
the windows are sorted by their starts, and only the one at `index` may reach into later
ones (`OthersApart`). The windows in front of it end before it starts, so the loop to
the left never merges anything; the code is right without it. The proof of
`SetRefinement` follows: a step either adds the ids of the range asked for, or merges
and leaves the ids alone. That Full is answered only when the result does not fit
needs the runs of a set counted: between inserts each window is one run, and a range
that touches none is one more. It holds for any capacity and any number of ids.

**DMAR.** A table is any sequence of bytes, so `DmarInv` starts from what has been
read. The structures taken lie end to end from the start of the table to a front, which
may hold one more that was refused (`TableLaid`); so do the scopes of each structure
(`ScopesLaid`). A query that has returned Ok, or begun its second walk, has read the
table to its end and the scopes its answer depends on to theirs (`Needed`): what later
queries read changes no answer given (`Answered`). The query under way has collected
what the structures behind it define, and the scopes up to the cursor in the one it is
in (`Collecting`). `AnswersAreCorrect` compares the collected value with the reference
definitions, which know nothing of walks. It needs that no scope lies in the fixed part
of its structure: `satc_device_ats_required` leaves an SATC of the least length out.
`SessionsAssumption` says that the queries are those of the code.

**IVRS.** `IvrsInv`: the first walk has laid out the entries of its block end to end
(`Parsing`, `LaidOut`), and the second walk meets exactly those (`Collecting`), so it
has nothing to refuse. `pending_range_start` is the one start without an end behind
the cursor (`Pending`), and what is collected is what the entries behind the cursor
denote (`Collected`). The answer needs no induction over the table: each step adds one
entry to both sides. Blocks lie apart (`Separate`), so that later reads leave the
meaning of earlier blocks alone.

**IORT.** `LayoutInv`: what is left of an array lies between the fixed part and the end
of its node, and the node in the table, although the sums and products of the code may
overflow. `IortInv` says what the mappings read so far decide. A step of the search is
`Settled` when the mapping that decides it, and those in front of it, are read (all of
them, if it is a boundary match); that stays true as more of the table is read, and so
do the facts behind an answer once given (`Told`). Hence `SearchFollowsRule`,
`UnclaimedIsUnreached` and `RangesAreTheClaims`. `CyclesAreReal` is the pigeonhole
principle: the counter runs out after one step more than there are nodes.

Only model-checked: the liveness properties (`SubmitReturns`, `EveryTicketAcked`,
`QueryReturns`, `OverflowReported`, `FaultsReported`), which need fairness. Every
safety property and both refinements that a passing run checks have a theorem.

## 6. Not modelled

* `split_at` and `merge_at`: the external page table rewrites one translation in
  another shape, and the pages it stands for do not change.
* `registers_mut` and the register window's own writers of root and context entries:
  they leave every invalidation to the caller. Its `invalidate_*` functions take the
  queue as an argument; the unit's queue is borrowed with the unit, so they submit to
  a queue of the caller's.
* A table switch in `set_interrupt_remap_table` keeps the interrupt entry cache. The
  action is there; no property promises anything across it, because no call can
  invalidate the whole cache. The same holds for a subhandle other than 0, which
  the unit adds to the index.
* The constructors of `DescriptorTableBacking` and `CommandQueueBacking` check ranges
  and alignment once; what they ensure is assumed of the constants.
* What an IVMD block says, and the fields of table structures that no query reads.
* Addresses (`addr.rs`), capabilities and descriptions (`caps.rs`, `info.rs`), paging
  formats, plain MSI messages, SMMUv3 entries and error conversion are bit fields and
  checked arithmetic without state. The RIMT and FDT files are empty, SMMUv2 nearly
  so. The SDT checksum and header are checked by the external `acpi` crate.
* Memory ordering is sequentially consistent here: the queue's accesses are acquire
  and release on the counters and slot bytes that guard the data, and the descriptor
  writes are volatile.

## 7. Plan

1. A composition of `CommandQueue` with several invalidators and the IOTLB, to state
   what a concurrent Ok does promise.
2. The checked arithmetic of `addr.rs` as operators, and the capability fields that the
   models now take as constants.
