----------------------------- MODULE CommandQueue -----------------------------
(***************************************************************************)
(* The shared hardware command ring of src/src/ctrl.rs, used by VT-d       *)
(* queued invalidation.  Any number of threads call submit(&self) at once; *)
(* every atomic load, store and read-modify-write of the code is one step, *)
(* and the bytes of a descriptor are written in more than one step.        *)
(* The hardware fetches descriptors between its head and the tail register *)
(* and is modelled from the way the code uses it.                          *)
(*                                                                         *)
(* Tickets are usize counters in the code.  They are natural numbers here: *)
(* 2^64 submissions are out of reach, and CapacityNeverUnderflows shows    *)
(* that the one wrapping_sub of the code never relies on the wrap.         *)
(***************************************************************************)
EXTENDS Integers, FiniteSets

CONSTANTS
  Threads,      \* callers of submit
  EntryCount,   \* CommandQueueBacking::entry_count, the depth of the ring
  PollLimit,    \* COMMAND_QUEUE_POLL_LIMIT
  Faults,       \* what may go wrong in a run, a subset of FaultKinds
  MaxTickets,   \* bound on the tickets claimed between two installations
  MaxInstalls   \* bound on install_queued_invalidation calls

(* "timeout": a poll loop can run out; "read_head" and "check_error": the  *)
(* controller's closures can return an error.  Without "timeout" the poll  *)
(* limit is taken to outlast every other party.                            *)
FaultKinds == {"timeout", "read_head", "check_error"}

(* CommandQueueBacking::new only accepts a power of two, so that masking   *)
(* with entry_count - 1 is the remainder modulo entry_count.               *)
ASSUME EntryCountAssumption ==
  /\ EntryCount \in Nat \ {0}
  /\ \E k \in 0 .. EntryCount : 2^k = EntryCount

ASSUME BoundsAssumption ==
  /\ PollLimit \in Nat \ {0}
  /\ MaxTickets \in Nat
  /\ MaxInstalls \in Nat
  /\ Faults \subseteq FaultKinds

VARIABLES
  installs,   \* number of successful init calls; backing is None while it is 0
  claim,      \* next ticket
  committed,  \* tickets below it have been published to the tail register
  retired,    \* highest ticket released so far, plus one
  slotState,  \* slot_state: one atomic byte per slot
  ring,       \* the descriptor memory: the ticket whose bytes a slot holds
  tail,       \* the tail register, as a slot index
  head,       \* the head register, as a slot index
  pc,         \* where each thread is inside submit
  ticket,     \* local `ticket`
  polls,      \* iterations spent in the current poll loop
  current,    \* local `current` of advance_retired
  acked,      \* history: tickets whose submit returned Ok
  failed,     \* history: tickets whose submit returned Err
  executed    \* history: slot contents fetched by the hardware

softVars == <<claim, committed, retired, slotState, ring, tail>>
threadVars == <<pc, ticket, polls, current>>
historyVars == <<acked, failed>>
hwVars == <<head, executed>>
vars == <<installs, softVars, threadVars, historyVars, hwVars>>

Slots == 0 .. EntryCount - 1
SlotStates == {"EMPTY", "WRITING", "READY", "PUBLISHED"}

(* What a slot of the descriptor memory can hold besides a ticket.         *)
Blank == -2   \* whatever the caller's memory held before
Torn == -1    \* some bytes of a descriptor and not all of them

SlotOf(k) == k % EntryCount
slot(t) == SlotOf(ticket[t])

Locations ==
  {"idle", "capacity", "empty", "mark", "write", "writing", "ready", "publish",
   "tail", "published", "commit", "consumed", "check", "release", "retire", "cas"}

Init ==
  /\ installs = 0
  /\ claim = 0 /\ committed = 0 /\ retired = 0
  /\ slotState = [s \in Slots |-> "EMPTY"]
  /\ ring = [s \in Slots |-> Blank]
  /\ tail = 0 /\ head = 0
  /\ pc = [t \in Threads |-> "idle"]
  /\ ticket = [t \in Threads |-> 0]
  /\ polls = [t \in Threads |-> 0]
  /\ current = [t \in Threads |-> 0]
  /\ acked = {} /\ failed = {} /\ executed = {}

-----------------------------------------------------------------------------
(* Conditions the code tests, with the mutated forms the properties are    *)
(* measured against.                                                       *)

CapacityOffByOne(t) == retired <= ticket[t] /\ ticket[t] - retired <= EntryCount
HasCapacity(t) == retired <= ticket[t] /\ ticket[t] - retired < EntryCount

EmptyUnchecked(t) == TRUE
SlotIsEmpty(t) == slotState[slot(t)] = "EMPTY"

PublishUnordered(t) == committed <= ticket[t]
MyTurn(t) == committed = ticket[t]

ConsumedUnchecked(t) == TRUE
HeadMoved(t) == head # slot(t)

-----------------------------------------------------------------------------
(* Control flow shared by the steps of submit.                             *)

Goto(t, from, to) ==
  /\ pc[t] = from
  /\ pc' = [pc EXCEPT ![t] = to]
  /\ polls' = [polls EXCEPT ![t] = 0]

(* The `?` operator: submit returns Err and leaves every shared counter    *)
(* and the slot as they are.                                               *)
FailPassesTurn(t) ==
  /\ pc' = [pc EXCEPT ![t] = "idle"]
  /\ polls' = [polls EXCEPT ![t] = 0]
  /\ failed' = failed \union {ticket[t]}
  /\ committed' = IF committed <= ticket[t] THEN ticket[t] + 1 ELSE committed
  /\ UNCHANGED <<installs, claim, retired, slotState, ring, tail, ticket, current, acked,
                 hwVars>>

Fail(t) ==
  /\ pc' = [pc EXCEPT ![t] = "idle"]
  /\ polls' = [polls EXCEPT ![t] = 0]
  /\ failed' = failed \union {ticket[t]}
  /\ UNCHANGED <<installs, softVars, ticket, current, acked, hwVars>>

(* One unsuccessful iteration of a poll loop; the last one is an error.    *)
PollForever(t) == UNCHANGED vars

PollMiss(t) ==
  \/ /\ "timeout" \notin Faults
     /\ UNCHANGED vars
  \/ /\ "timeout" \in Faults
     /\ polls[t] + 1 < PollLimit
     /\ polls' = [polls EXCEPT ![t] = @ + 1]
     /\ UNCHANGED <<installs, softVars, pc, ticket, current, historyVars, hwVars>>
  \/ /\ "timeout" \in Faults
     /\ polls[t] + 1 >= PollLimit
     /\ Fail(t)

-----------------------------------------------------------------------------
(* init: takes &mut self, so no submit is in progress.                     *)
InitQueueKeepRetired ==
  /\ claim' = 0 /\ committed' = 0
  /\ slotState' = [s \in Slots |-> "EMPTY"]
  /\ UNCHANGED retired

InitQueue ==
  /\ claim' = 0 /\ committed' = 0 /\ retired' = 0
  /\ slotState' = [s \in Slots |-> "EMPTY"]

(* set_queued_invalidation_table: the backing is new memory and the tail   *)
(* register becomes 0.  The head register is the hardware's.               *)
SetQueueTable ==
  /\ ring' = [s \in Slots |-> Blank]
  /\ tail' = 0

(* install_queued_invalidation.  Tickets restart, so the histories do too. *)
Install ==
  /\ installs < MaxInstalls
  /\ \A t \in Threads : pc[t] = "idle"
  /\ installs' = installs + 1
  /\ InitQueue
  /\ SetQueueTable
  /\ acked' = {} /\ failed' = {} /\ executed' = {}
  /\ UNCHANGED <<threadVars, head>>

-----------------------------------------------------------------------------
(* The steps of submit, in program order.                                  *)

(* No backing, or a descriptor of the wrong width: Err before a ticket is  *)
(* taken.                                                                  *)
Reject(t) ==
  /\ pc[t] = "idle"
  /\ UNCHANGED vars

Claim(t) ==
  /\ installs > 0
  /\ claim < MaxTickets
  /\ Goto(t, "idle", "capacity")
  /\ ticket' = [ticket EXCEPT ![t] = claim]
  /\ claim' = claim + 1
  /\ UNCHANGED <<installs, committed, retired, slotState, ring, tail, current,
                 historyVars, hwVars>>

WaitForCapacity(t) ==
  \/ /\ HasCapacity(t)
     /\ Goto(t, "capacity", "empty")
     /\ UNCHANGED <<installs, softVars, ticket, current, historyVars, hwVars>>
  \/ /\ pc[t] = "capacity" /\ ~HasCapacity(t)
     /\ PollMiss(t)

WaitForEmpty(t) ==
  \/ /\ SlotIsEmpty(t)
     /\ Goto(t, "empty", "mark")
     /\ UNCHANGED <<installs, softVars, ticket, current, historyVars, hwVars>>
  \/ /\ pc[t] = "empty" /\ ~SlotIsEmpty(t)
     /\ PollMiss(t)

SetSlot(t, from, state, to) ==
  /\ Goto(t, from, to)
  /\ slotState' = [slotState EXCEPT ![slot(t)] = state]
  /\ UNCHANGED <<installs, claim, committed, retired, ring, tail, ticket, current,
                 historyVars, hwVars>>

MarkWriting(t) == SetSlot(t, "mark", "WRITING", "write")

(* write_slot: volatile byte stores, the first and the last of them.       *)
FillSlot(t, from, content, to) ==
  /\ Goto(t, from, to)
  /\ ring' = [ring EXCEPT ![slot(t)] = content]
  /\ UNCHANGED <<installs, claim, committed, retired, slotState, tail, ticket, current,
                 historyVars, hwVars>>

WriteSlotBegin(t) == FillSlot(t, "write", Torn, "writing")
WriteSlotEnd(t) == FillSlot(t, "writing", ticket[t], "ready")

MarkReady(t) == SetSlot(t, "ready", "READY", "publish")

WaitToPublish(t) ==
  \/ /\ MyTurn(t)
     /\ Goto(t, "publish", "tail")
     /\ UNCHANGED <<installs, softVars, ticket, current, historyVars, hwVars>>
  \/ /\ pc[t] = "publish" /\ ~MyTurn(t)
     /\ PollMiss(t)

(* The write of the tail register.  An error of the register access (an    *)
(* offset outside the window, never the case of IQT on a unit that has     *)
(* been set up) is kept by the closure and only replaces the answer of     *)
(* submit once submit has returned; it changes no step here.               *)
WriteTailUnmasked(t) ==
  /\ Goto(t, "tail", "published")
  /\ tail' = slot(t) + 1
  /\ UNCHANGED <<installs, claim, committed, retired, slotState, ring, ticket, current,
                 historyVars, hwVars>>

WriteTail(t) ==
  /\ Goto(t, "tail", "published")
  /\ tail' = (slot(t) + 1) % EntryCount
  /\ UNCHANGED <<installs, claim, committed, retired, slotState, ring, ticket, current,
                 historyVars, hwVars>>

MarkPublished(t) == SetSlot(t, "published", "PUBLISHED", "commit")

Commit(t) ==
  /\ Goto(t, "commit", "consumed")
  /\ committed' = ticket[t] + 1
  /\ UNCHANGED <<installs, claim, retired, slotState, ring, tail, ticket, current,
                 historyVars, hwVars>>

(* wait_for_consumed: the slot counts as consumed as soon as the head      *)
(* register shows any other slot.                                          *)
WaitForConsumed(t) ==
  \/ /\ HeadMoved(t)
     /\ Goto(t, "consumed", "check")
     /\ UNCHANGED <<installs, softVars, ticket, current, historyVars, hwVars>>
  \/ /\ pc[t] = "consumed" /\ ~HeadMoved(t)
     /\ PollMiss(t)
  \/ /\ pc[t] = "consumed" /\ "read_head" \in Faults
     /\ Fail(t)

CheckError(t) ==
  \/ /\ Goto(t, "check", "release")
     /\ UNCHANGED <<installs, softVars, ticket, current, historyVars, hwVars>>
  \/ /\ pc[t] = "check" /\ "check_error" \in Faults
     /\ Fail(t)

ReleaseForgotten(t) ==
  /\ Goto(t, "release", "retire")
  /\ UNCHANGED <<installs, softVars, ticket, current, historyVars, hwVars>>

Release(t) == SetSlot(t, "release", "EMPTY", "retire")

(* advance_retired: a load, then a compare-exchange loop that only moves   *)
(* the counter up.  A spurious failure of the weak exchange is a stutter.  *)
LoadRetired(t) ==
  /\ Goto(t, "retire", "cas")
  /\ current' = [current EXCEPT ![t] = retired]
  /\ UNCHANGED <<installs, softVars, ticket, historyVars, hwVars>>

ReturnOk(t) ==
  /\ Goto(t, "cas", "idle")
  /\ acked' = acked \union {ticket[t]}
  /\ UNCHANGED <<failed, hwVars>>

AdvanceRetiredStore(t) ==
  /\ ReturnOk(t)
  /\ retired' = ticket[t] + 1
  /\ UNCHANGED <<installs, claim, committed, slotState, ring, tail, ticket, current>>

AdvanceRetired(t) ==
  \/ /\ current[t] >= ticket[t] + 1
     /\ ReturnOk(t)
     /\ UNCHANGED <<installs, softVars, ticket, current>>
  \/ /\ current[t] < ticket[t] + 1 /\ current[t] = retired
     /\ ReturnOk(t)
     /\ retired' = ticket[t] + 1
     /\ UNCHANGED <<installs, claim, committed, slotState, ring, tail, ticket, current>>
  \/ /\ pc[t] = "cas"
     /\ current[t] < ticket[t] + 1 /\ current[t] # retired
     /\ current' = [current EXCEPT ![t] = retired]
     /\ UNCHANGED <<installs, softVars, pc, ticket, polls, historyVars, hwVars>>

Submit(t) ==
  \/ WaitForCapacity(t) \/ WaitForEmpty(t)
  \/ MarkWriting(t) \/ WriteSlotBegin(t) \/ WriteSlotEnd(t) \/ MarkReady(t)
  \/ WaitToPublish(t) \/ WriteTail(t) \/ MarkPublished(t) \/ Commit(t)
  \/ WaitForConsumed(t) \/ CheckError(t)
  \/ Release(t) \/ LoadRetired(t) \/ AdvanceRetired(t)

-----------------------------------------------------------------------------
(* The hardware reads the descriptor at head while head and tail differ.   *)
Fetch ==
  /\ installs > 0
  /\ head # tail
  /\ executed' = executed \union {ring[head]}
  /\ head' = (head + 1) % EntryCount
  /\ UNCHANGED <<installs, softVars, threadVars, historyVars>>

Next ==
  \/ Install
  \/ \E t \in Threads : Reject(t) \/ Claim(t) \/ Submit(t)
  \/ Fetch

Spec == Init /\ [][Next]_vars

(* A thread inside submit keeps running (it spins, it does not sleep); the *)
(* caller need not call again.                                             *)
ThreadFairness == \A t \in Threads : WF_vars(Submit(t))
ThreadFairSpec == Spec /\ ThreadFairness

(* The hardware also keeps fetching what it can see in the ring.           *)
FairSpec == ThreadFairSpec /\ WF_vars(Fetch)

-----------------------------------------------------------------------------
(* Properties.                                                             *)

(* The locations from which a thread writes its slot or relies on it.      *)
BeforePublish == {"mark", "write", "writing", "ready", "publish"}
Publishing == {"tail", "published", "commit"}
AfterCommit == {"consumed", "check", "release"}
Owning == BeforePublish \union Publishing \union AfterCommit

(* Every variable of the queue and of submit stays in its domain.          *)
TypeOK ==
  /\ installs \in Nat
  /\ claim \in Nat /\ committed \in Nat /\ retired \in Nat
  /\ slotState \in [Slots -> SlotStates]
  /\ ring \in [Slots -> Nat \union {Blank, Torn}]
  /\ tail \in Slots /\ head \in Slots
  /\ pc \in [Threads -> Locations]
  /\ ticket \in [Threads -> Nat]
  /\ polls \in [Threads -> Nat]
  /\ current \in [Threads -> Nat]
  /\ acked \subseteq Nat /\ failed \subseteq Nat
  /\ executed \subseteq Nat \union {Blank, Torn}

(* The three counters of the queue, each advanced by different threads in  *)
(* different steps, never overtake one another.                            *)
CountersOrdered == retired <= committed /\ committed <= claim

(* wait_for_capacity computes ticket.wrapping_sub(retired): retired jumps  *)
(* to the newest released ticket, and still never passes a ticket that is  *)
(* waiting for capacity, so the subtraction never wraps.                   *)
CapacityNeverUnderflows ==
  \A t \in Threads : pc[t] = "capacity" => retired <= ticket[t]

(* wait_for_empty and the store of WRITING are two separate steps, yet no  *)
(* two threads are ever both past the test for the same slot.              *)
SlotExclusive ==
  \A t, u \in Threads :
    t # u /\ pc[t] \in Owning /\ pc[u] \in Owning => slot(t) # slot(u)

(* From the last byte written to the release of the slot, the descriptor   *)
(* memory of the slot holds the thread's own complete descriptor.          *)
DescriptorIntact ==
  \A t \in Threads :
    pc[t] \in {"ready", "publish"} \union Publishing \union AfterCommit
      => ring[slot(t)] = ticket[t]

(* The tail register only ever moves forward by one slot, over a slot that *)
(* holds the complete descriptor of the next ticket to commit: hardware is *)
(* never shown a torn, empty or out-of-order descriptor by a tail write.   *)
TailStep ==
  tail' # tail /\ installs' = installs =>
    /\ tail = SlotOf(committed)
    /\ ring[tail] = committed
    /\ tail' = SlotOf(committed + 1)

TailInOrder == [][TailStep]_vars

(* Threads release their slots in any order, each with a load of `retired` *)
(* long before the exchange: a release of an older ticket that comes late  *)
(* never takes back what a newer one has given, so capacity once granted   *)
(* stays granted until the queue is installed anew.                        *)
RetiredStep == retired' >= retired \/ installs' # installs
RetiredMovesForward == [][RetiredStep]_vars

(* Every ticket handed out is accounted for: it is held by exactly one     *)
(* thread inside submit, or submit has returned for it, never both.        *)
TicketAccounting ==
  /\ acked \union failed \subseteq 0 .. claim - 1
  /\ \A k \in 0 .. claim - 1 :
       k \notin acked \union failed => \E t \in Threads : pc[t] # "idle" /\ ticket[t] = k
  /\ \A t \in Threads :
       pc[t] # "idle" => ticket[t] < claim /\ ticket[t] \notin acked \union failed
  /\ \A t, u \in Threads :
       t # u /\ pc[t] # "idle" /\ pc[u] # "idle" => ticket[t] # ticket[u]

(* Where a thread's ticket lies between the counters, at each location.    *)
TicketOrder ==
  \A t \in Threads :
    /\ pc[t] \in {"capacity", "empty"} \union BeforePublish => committed <= ticket[t]
    /\ pc[t] \in Publishing => ticket[t] = committed
    /\ pc[t] \in AfterCommit \union {"retire", "cas"} => ticket[t] < committed
    /\ pc[t] \in {"empty"} \union BeforePublish \union Publishing
         => ticket[t] < retired + EntryCount

(* slot_state mirrors the location of the slot's owner.                    *)
SlotTracksOwner ==
  \A t \in Threads :
    /\ pc[t] = "mark" => slotState[slot(t)] = "EMPTY"
    /\ pc[t] \in {"write", "writing", "ready"} => slotState[slot(t)] = "WRITING"
    /\ pc[t] \in {"publish", "tail", "published"} => slotState[slot(t)] = "READY"
    /\ pc[t] \in {"commit"} \union AfterCommit => slotState[slot(t)] = "PUBLISHED"

(* The tail register shows the committed tickets, and one more while a     *)
(* thread is between its tail write and its commit.                        *)
TailTracksCommit ==
  /\ (\E t \in Threads : pc[t] \in {"published", "commit"}) => tail = SlotOf(committed + 1)
  /\ (\A t \in Threads : pc[t] \notin {"published", "commit"}) => tail = SlotOf(committed)

(* The inductive invariant behind the safety properties.                   *)
IndInv ==
  /\ TypeOK
  /\ CountersOrdered
  /\ TicketAccounting
  /\ TicketOrder
  /\ SlotTracksOwner
  /\ SlotExclusive
  /\ DescriptorIntact
  /\ TailTracksCommit

(* What a caller of submit expects of Ok: hardware has fetched the         *)
(* descriptor.                                                             *)
AckedExecuted == acked \subseteq executed

(* Hardware only fetches whole descriptors of published tickets; the       *)
(* ticket whose tail write has happened and whose commit has not is        *)
(* `committed` itself.                                                     *)
FetchesPublishedOnly == executed \subseteq 0 .. committed

(* Every poll loop of submit is bounded: a call that has taken a ticket    *)
(* returns, whatever the other threads and the hardware do.                *)
SubmitReturns == \A t \in Threads : pc[t] # "idle" ~> pc[t] = "idle"

(* Every claimed ticket is eventually acknowledged.                        *)
EveryTicketAcked == \A k \in 0 .. MaxTickets - 1 : claim > k ~> k \in acked

(* Every ticket the queue counts as published reaches the hardware.        *)
EveryCommittedExecuted ==
  \A k \in 0 .. MaxTickets - 1 : committed > k ~> k \in executed

(* The queue implements OrderedSubmission: whatever the interleaving and   *)
(* whichever poll loops run out, tickets are published in claim order,     *)
(* never after they were given up, acknowledged only once published, and   *)
(* decided once.                                                           *)
Ordered ==
  INSTANCE OrderedSubmission WITH
    claimed <- claim, published <- committed,
    succeeded <- acked, abandoned <- failed

ImplementsOrdered == Ordered!Spec

=============================================================================
