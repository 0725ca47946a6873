-------------------------- MODULE CommandQueueProofs --------------------------
(***************************************************************************)
(* Proofs about CommandQueue for any number of threads, any ring depth and *)
(* any poll limit.  IndInv is inductive; the safety properties the runs    *)
(* check on small instances follow from it.                                *)
(***************************************************************************)
EXTENDS CommandQueue, TLAPS

-----------------------------------------------------------------------------
(* Slot arithmetic.                                                        *)

(* The ring is not empty; that its depth is a power of two is only what    *)
(* makes masking a remainder.                                              *)
LEMMA Depth == EntryCount \in Nat \ {0}
  BY EntryCountAssumption

(* A ticket's slot is an index of slot_state.                              *)
LEMMA SlotInRange == \A k \in Nat : SlotOf(k) \in Slots
  BY Depth DEF SlotOf, Slots

(* Quotient and remainder of a ticket by the ring depth.                   *)
LEMMA DivisionByDepth ==
  \A k \in Nat : /\ k \div EntryCount \in Nat
                 /\ k = EntryCount * (k \div EntryCount) + SlotOf(k)
  BY Depth DEF SlotOf

(* A number below the ring depth that completes a multiple of it to k is   *)
(* the slot of k.                                                          *)
LEMMA SlotUnique ==
  ASSUME NEW k \in Nat, NEW q \in Nat, NEW s \in Slots, k = EntryCount * q + s
  PROVE  SlotOf(k) = s
  BY Depth DEF SlotOf, Slots

(* Two different tickets less than a ring apart use different slots: what  *)
(* the capacity check of submit relies on.                                 *)
LEMMA SlotInjective ==
  \A a, b \in Nat : SlotOf(a) = SlotOf(b) /\ b <= a /\ a - b < EntryCount => a = b
  <1> SUFFICES ASSUME NEW a \in Nat, NEW b \in Nat, SlotOf(a) = SlotOf(b),
                      b <= a, a - b < EntryCount
               PROVE  a = b
    OBVIOUS
  <1> DEFINE q == a \div EntryCount
             r == b \div EntryCount
  <1>1. q \in Nat /\ a = EntryCount * q + SlotOf(a)
    BY DivisionByDepth
  <1>2. r \in Nat /\ b = EntryCount * r + SlotOf(b)
    BY DivisionByDepth
  <1>3. SlotOf(a) \in Int
    BY SlotInRange, Depth DEF Slots
  <1> HIDE DEF q, r
  <1>4. a - b = EntryCount * (q - r)
    BY <1>1, <1>2, <1>3, Depth
  <1>5. CASE q - r >= 1
    <2>1. EntryCount * (q - r) >= EntryCount
      BY <1>1, <1>2, <1>5, Depth
    <2>2. QED
      BY <2>1, <1>4, Depth
  <1>6. CASE q - r <= -1
    <2>1. EntryCount * (q - r) <= -EntryCount
      BY <1>1, <1>2, <1>6, Depth
    <2>2. QED
      BY <2>1, <1>4, Depth
  <1>7. CASE q - r = 0
    BY <1>4, <1>7, Depth
  <1>8. QED
    BY <1>1, <1>2, <1>5, <1>6, <1>7

(* The tail value submit writes is the slot after the ticket's.            *)
LEMMA SlotSuccessor == \A k \in Nat : (SlotOf(k) + 1) % EntryCount = SlotOf(k + 1)
  <1> SUFFICES ASSUME NEW k \in Nat
               PROVE  SlotOf(SlotOf(k) + 1) = SlotOf(k + 1)
    BY DEF SlotOf
  <1> DEFINE q == k \div EntryCount
  <1>1. q \in Nat /\ k = EntryCount * q + SlotOf(k)
    BY DivisionByDepth
  <1>2. SlotOf(k) \in Slots
    BY SlotInRange
  <1> HIDE DEF q
  <1>3. CASE SlotOf(k) + 1 < EntryCount
    <2>1. SlotOf(k) + 1 \in Slots
      BY <1>2, <1>3, Depth DEF Slots
    <2>2. SlotOf(SlotOf(k) + 1) = SlotOf(k) + 1
      <3>1. SlotOf(k) + 1 = EntryCount * 0 + (SlotOf(k) + 1)
        BY <1>2, Depth DEF Slots
      <3>2. QED
        BY <2>1, <3>1, SlotUnique DEF Slots
    <2>3. SlotOf(k + 1) = SlotOf(k) + 1
      <3>1. k + 1 = EntryCount * q + (SlotOf(k) + 1)
        BY <1>1, <1>2, Depth DEF Slots
      <3>2. QED
        BY <1>1, <2>1, <3>1, SlotUnique
    <2>4. QED
      BY <2>2, <2>3
  <1>4. CASE SlotOf(k) + 1 = EntryCount
    <2>1. 0 \in Slots
      BY Depth DEF Slots
    <2>2. SlotOf(SlotOf(k) + 1) = 0
      <3>1. SlotOf(k) + 1 = EntryCount * 1 + 0
        BY <1>4, Depth
      <3>2. QED
        BY <1>4, <2>1, <3>1, SlotUnique, Depth
    <2>3. SlotOf(k + 1) = 0
      <3>1. k + 1 = EntryCount * (q + 1) + 0
        BY <1>1, <1>2, <1>4, Depth DEF Slots
      <3>2. QED
        BY <1>1, <2>1, <3>1, SlotUnique
    <2>4. QED
      BY <2>2, <2>3
  <1>5. QED
    BY <1>2, <1>3, <1>4, Depth DEF Slots

(* The first ticket after an installation uses slot 0.                     *)
LEMMA SlotZero == SlotOf(0) = 0 /\ 0 \in Slots
  <1>1. 0 \in Slots
    BY Depth DEF Slots
  <1>2. 0 = EntryCount * 0 + 0
    BY Depth
  <1>3. QED
    BY <1>1, <1>2, SlotUnique

(* Deciding the ticket a thread holds keeps the accounting.                *)
LEMMA DecideTicket ==
  ASSUME NEW t \in Threads, pc \in [Threads -> Locations], ticket \in [Threads -> Nat],
         claim \in Nat, pc[t] # "idle", TicketAccounting,
         acked' \union failed' = (acked \union failed) \union {ticket[t]},
         pc' = [pc EXCEPT ![t] = "idle"], ticket' = ticket, claim' = claim
  PROVE  TicketAccounting'
  <1> DEFINE D == acked \union failed
             Dp == acked' \union failed'
  <1>1. /\ D \subseteq 0 .. claim - 1
        /\ ticket[t] \in 0 .. claim - 1
    BY DEF TicketAccounting
  <1>2. Dp \subseteq 0 .. claim - 1
    BY <1>1
  <1>3. \A k \in 0 .. claim - 1 :
          k \notin Dp => \E u \in Threads : pc'[u] # "idle" /\ ticket[u] = k
    BY DEF TicketAccounting
  <1>4. \A u \in Threads : pc'[u] # "idle" => ticket[u] < claim /\ ticket[u] \notin Dp
    BY DEF TicketAccounting
  <1>5. QED
    BY <1>2, <1>3, <1>4 DEF TicketAccounting

(* Advancing the head register keeps it a slot index.                      *)
LEMMA HeadInRange == \A s \in Slots : (s + 1) % EntryCount \in Slots
  BY Depth DEF Slots

-----------------------------------------------------------------------------
(* One lemma per step: it preserves the inductive invariant.               *)

(* A step that changes nothing.                                            *)
LEMMA StutterStep == ASSUME IndInv, UNCHANGED vars PROVE IndInv'
  BY DEF IndInv, vars, threadVars, softVars, historyVars, hwVars, TypeOK,
    CountersOrdered, TicketAccounting, TicketOrder, SlotTracksOwner,
    SlotExclusive, DescriptorIntact, TailTracksCommit, slot

(* Returning Err abandons the ticket and the slot; no other thread can     *)
(* notice.                                                                 *)
LEMMA FailStep ==
  ASSUME NEW t \in Threads, IndInv, pc[t] \notin {"idle", "published", "commit"}, Fail(t)
  PROVE  IndInv'
  <1> USE DEF IndInv, Fail, softVars, hwVars
  <1>1. TypeOK'
    BY SlotInRange, Depth DEF TypeOK, Locations, SlotStates, Slots, Torn,
      Blank, slot
  <1>2. CountersOrdered'
    BY DEF TypeOK, CountersOrdered, TicketOrder, TicketAccounting,
      BeforePublish, Publishing, AfterCommit
  <1>3. TicketAccounting'
    <2>1. acked' \union failed' = (acked \union failed) \union {ticket[t]}
      OBVIOUS
    <2>2. ticket' = ticket /\ claim' = claim /\ pc' = [pc EXCEPT ![t] = "idle"]
      OBVIOUS
    <2>3. QED
      BY <2>1, <2>2, DecideTicket DEF TypeOK
  <1>4. TicketOrder'
    BY Depth DEF TypeOK, CountersOrdered, TicketAccounting, TicketOrder,
      BeforePublish, Publishing, AfterCommit
  <1>5. SlotTracksOwner'
    BY SlotInRange DEF TypeOK, SlotTracksOwner, SlotExclusive, Owning,
      slot, BeforePublish, Publishing, AfterCommit
  <1>6. SlotExclusive'
    BY DEF TypeOK, SlotExclusive, Owning, slot, BeforePublish, Publishing,
      AfterCommit
  <1>7. DescriptorIntact'
    BY SlotInRange DEF TypeOK, DescriptorIntact, SlotExclusive, Owning,
      slot, BeforePublish, Publishing, AfterCommit
  <1>8. TailTracksCommit'
    BY DEF TypeOK, TailTracksCommit, TicketOrder, TicketAccounting,
      BeforePublish, Publishing, AfterCommit
  <1>9. QED
    BY <1>1, <1>2, <1>3, <1>4, <1>5, <1>6, <1>7, <1>8

(* A poll that misses and is not the last.                                 *)
LEMMA PollStep ==
  ASSUME IndInv, polls' \in [Threads -> Nat],
         UNCHANGED <<installs, softVars, pc, ticket, current, historyVars, hwVars>>
  PROVE  IndInv'
  <1> USE DEF IndInv, softVars, historyVars, hwVars
  <1>1. TypeOK'
    BY SlotInRange, Depth DEF TypeOK, Locations, SlotStates, Slots, Torn,
      Blank, slot
  <1>2. CountersOrdered'
    BY DEF TypeOK, CountersOrdered, TicketOrder, TicketAccounting,
      BeforePublish, Publishing, AfterCommit
  <1>3. TicketAccounting'
    BY DEF TypeOK, TicketAccounting
  <1>4. TicketOrder'
    BY Depth DEF TypeOK, CountersOrdered, TicketAccounting, TicketOrder,
      BeforePublish, Publishing, AfterCommit
  <1>5. SlotTracksOwner'
    BY SlotInRange DEF TypeOK, SlotTracksOwner, SlotExclusive, Owning,
      slot, BeforePublish, Publishing, AfterCommit
  <1>6. SlotExclusive'
    BY DEF TypeOK, SlotExclusive, Owning, slot, BeforePublish, Publishing,
      AfterCommit
  <1>7. DescriptorIntact'
    BY SlotInRange DEF TypeOK, DescriptorIntact, SlotExclusive, Owning,
      slot, BeforePublish, Publishing, AfterCommit
  <1>8. TailTracksCommit'
    BY DEF TypeOK, TailTracksCommit, TicketOrder, TicketAccounting,
      BeforePublish, Publishing, AfterCommit
  <1>9. QED
    BY <1>1, <1>2, <1>3, <1>4, <1>5, <1>6, <1>7, <1>8

(* Any unsuccessful poll.                                                  *)
LEMMA PollMissStep ==
  ASSUME NEW t \in Threads, IndInv, pc[t] \notin {"idle", "published", "commit"},
         PollMiss(t)
  PROVE  IndInv'
  <1>1. CASE UNCHANGED vars
    BY <1>1, StutterStep
  <1>2. CASE /\ polls' = [polls EXCEPT ![t] = @ + 1]
             /\ UNCHANGED <<installs, softVars, pc, ticket, current, historyVars, hwVars>>
    <2>1. polls' \in [Threads -> Nat]
      BY <1>2 DEF IndInv, TypeOK
    <2>2. QED
      BY <1>2, <2>1, PollStep
  <1>3. CASE Fail(t)
    BY <1>3, FailStep
  <1>4. QED
    BY <1>1, <1>2, <1>3 DEF PollMiss

(* The new ticket is `claim`: above every live one.                        *)
LEMMA ClaimStep ==
  ASSUME NEW t \in Threads, IndInv, Claim(t)
  PROVE  IndInv'
  <1> USE DEF IndInv, Claim, Goto, historyVars, hwVars
  <1>1. TypeOK'
    <2>1. claim' \in Nat /\ ticket' \in [Threads -> Nat]
      BY DEF TypeOK
    <2>2. pc' \in [Threads -> Locations] /\ polls' \in [Threads -> Nat]
      BY DEF TypeOK, Locations
    <2>3. QED
      BY <2>1, <2>2 DEF TypeOK
  <1>2. CountersOrdered'
    BY DEF TypeOK, CountersOrdered, TicketOrder, TicketAccounting,
      BeforePublish, Publishing, AfterCommit
  <1>3. TicketAccounting'
    BY DEF TypeOK, TicketAccounting
  <1>4. TicketOrder'
    BY Depth DEF TypeOK, CountersOrdered, TicketAccounting, TicketOrder,
      BeforePublish, Publishing, AfterCommit
  <1>5. SlotTracksOwner'
    BY SlotInRange DEF TypeOK, SlotTracksOwner, SlotExclusive, Owning,
      slot, BeforePublish, Publishing, AfterCommit
  <1>6. SlotExclusive'
    BY DEF TypeOK, SlotExclusive, Owning, slot, BeforePublish, Publishing,
      AfterCommit
  <1>7. DescriptorIntact'
    BY SlotInRange DEF TypeOK, DescriptorIntact, SlotExclusive, Owning,
      slot, BeforePublish, Publishing, AfterCommit
  <1>8. TailTracksCommit'
    BY DEF TypeOK, TailTracksCommit, TicketOrder, TicketAccounting,
      BeforePublish, Publishing, AfterCommit
  <1>9. QED
    BY <1>1, <1>2, <1>3, <1>4, <1>5, <1>6, <1>7, <1>8

(* The capacity check places the ticket inside the window of one ring      *)
(* above retired.                                                          *)
LEMMA WaitForCapacityPass ==
  ASSUME NEW t \in Threads, IndInv, HasCapacity(t), Goto(t, "capacity", "empty"),
         UNCHANGED <<installs, softVars, ticket, current, historyVars, hwVars>>
  PROVE  IndInv'
  <1> USE DEF IndInv, Goto, softVars, historyVars, hwVars
  <1>1. TypeOK'
    BY SlotInRange, Depth DEF TypeOK, Locations, SlotStates, Slots, Torn,
      Blank, slot
  <1>2. CountersOrdered'
    BY DEF TypeOK, CountersOrdered, TicketOrder, TicketAccounting,
      BeforePublish, Publishing, AfterCommit
  <1>3. TicketAccounting'
    BY DEF TypeOK, TicketAccounting
  <1>4. TicketOrder'
    BY Depth DEF HasCapacity, TypeOK, CountersOrdered, TicketAccounting,
      TicketOrder, BeforePublish, Publishing, AfterCommit
  <1>5. SlotTracksOwner'
    BY SlotInRange DEF TypeOK, SlotTracksOwner, SlotExclusive, Owning,
      slot, BeforePublish, Publishing, AfterCommit
  <1>6. SlotExclusive'
    BY DEF TypeOK, SlotExclusive, Owning, slot, BeforePublish, Publishing,
      AfterCommit
  <1>7. DescriptorIntact'
    BY SlotInRange DEF TypeOK, DescriptorIntact, SlotExclusive, Owning,
      slot, BeforePublish, Publishing, AfterCommit
  <1>8. TailTracksCommit'
    BY DEF TypeOK, TailTracksCommit, TicketOrder, TicketAccounting,
      BeforePublish, Publishing, AfterCommit
  <1>9. QED
    BY <1>1, <1>2, <1>3, <1>4, <1>5, <1>6, <1>7, <1>8

(* WaitForCapacity, whether or not the poll succeeds.                   *)
LEMMA WaitForCapacityStep == ASSUME NEW t \in Threads, IndInv, WaitForCapacity(t) PROVE IndInv'
  BY WaitForCapacityPass, PollMissStep DEF WaitForCapacity

(* The heart of slot exclusion: an owner of an EMPTY slot could only be     *)
(* between the test and the store of WRITING itself, and two tickets there *)
(* lie in the same window of one ring, so their slots differ.              *)
LEMMA WaitForEmptyPass ==
  ASSUME NEW t \in Threads, IndInv, SlotIsEmpty(t), Goto(t, "empty", "mark"),
         UNCHANGED <<installs, softVars, ticket, current, historyVars, hwVars>>
  PROVE  IndInv'
  <1> USE DEF IndInv, Goto, softVars, historyVars, hwVars
  <1>1. TypeOK'
    BY SlotInRange, Depth DEF TypeOK, Locations, SlotStates, Slots, Torn,
      Blank, slot
  <1>2. CountersOrdered'
    BY DEF TypeOK, CountersOrdered, TicketOrder, TicketAccounting,
      BeforePublish, Publishing, AfterCommit
  <1>3. TicketAccounting'
    BY DEF TypeOK, TicketAccounting
  <1>4. TicketOrder'
    BY Depth DEF TypeOK, CountersOrdered, TicketAccounting, TicketOrder,
      BeforePublish, Publishing, AfterCommit
  <1>5. SlotTracksOwner'
    BY SlotInRange DEF SlotIsEmpty, TypeOK, SlotTracksOwner, Owning, slot,
      BeforePublish, Publishing, AfterCommit
  <1>6. SlotExclusive'
    <2> SUFFICES ASSUME NEW u \in Threads, u # t, pc[u] \in Owning, slot(u) = slot(t)
                 PROVE  FALSE
      BY DEF TypeOK, SlotExclusive, Owning, slot, BeforePublish, Publishing, AfterCommit
    <2>1. slotState[slot(u)] = "EMPTY"
      BY DEF SlotIsEmpty
    <2>2. pc[u] = "mark"
      BY <2>1 DEF TypeOK, SlotTracksOwner, Owning, BeforePublish, Publishing, AfterCommit
    <2>3. /\ committed <= ticket[t] /\ ticket[t] < retired + EntryCount
          /\ committed <= ticket[u] /\ ticket[u] < retired + EntryCount
      BY <2>2 DEF TicketOrder, BeforePublish
    <2>4. ticket[t] # ticket[u]
      BY <2>2 DEF TicketAccounting
    <2>5. QED
      BY <2>3, <2>4, SlotInjective, Depth DEF slot, TypeOK, CountersOrdered
  <1>7. DescriptorIntact'
    BY SlotInRange DEF TypeOK, DescriptorIntact, SlotExclusive, Owning,
      slot, BeforePublish, Publishing, AfterCommit
  <1>8. TailTracksCommit'
    BY DEF TypeOK, TailTracksCommit, TicketOrder, TicketAccounting,
      BeforePublish, Publishing, AfterCommit
  <1>9. QED
    BY <1>1, <1>2, <1>3, <1>4, <1>5, <1>6, <1>7, <1>8

(* WaitForEmpty, whether or not the poll succeeds.                      *)
LEMMA WaitForEmptyStep == ASSUME NEW t \in Threads, IndInv, WaitForEmpty(t) PROVE IndInv'
  BY WaitForEmptyPass, PollMissStep DEF WaitForEmpty

(* The slot is EMPTY and no other owner has it.                            *)
LEMMA MarkWritingStep ==
  ASSUME NEW t \in Threads, IndInv, MarkWriting(t)
  PROVE  IndInv'
  <1> USE DEF IndInv, MarkWriting, SetSlot, Goto, historyVars, hwVars
  <1>1. TypeOK'
    BY SlotInRange, Depth DEF TypeOK, Locations, SlotStates, Slots, Torn,
      Blank, slot
  <1>2. CountersOrdered'
    BY DEF TypeOK, CountersOrdered, TicketOrder, TicketAccounting,
      BeforePublish, Publishing, AfterCommit
  <1>3. TicketAccounting'
    BY DEF TypeOK, TicketAccounting
  <1>4. TicketOrder'
    BY Depth DEF TypeOK, CountersOrdered, TicketAccounting, TicketOrder,
      BeforePublish, Publishing, AfterCommit
  <1>5. SlotTracksOwner'
    BY SlotInRange DEF TypeOK, SlotTracksOwner, SlotExclusive, Owning,
      slot, BeforePublish, Publishing, AfterCommit
  <1>6. SlotExclusive'
    BY DEF TypeOK, SlotExclusive, Owning, slot, BeforePublish, Publishing,
      AfterCommit
  <1>7. DescriptorIntact'
    BY SlotInRange DEF TypeOK, DescriptorIntact, SlotExclusive, Owning,
      slot, BeforePublish, Publishing, AfterCommit
  <1>8. TailTracksCommit'
    BY DEF TypeOK, TailTracksCommit, TicketOrder, TicketAccounting,
      BeforePublish, Publishing, AfterCommit
  <1>9. QED
    BY <1>1, <1>2, <1>3, <1>4, <1>5, <1>6, <1>7, <1>8

(* A torn descriptor is in a slot no other owner has.                      *)
LEMMA WriteSlotBeginStep ==
  ASSUME NEW t \in Threads, IndInv, WriteSlotBegin(t)
  PROVE  IndInv'
  <1> USE DEF IndInv, WriteSlotBegin, FillSlot, Goto, historyVars, hwVars
  <1>1. TypeOK'
    BY SlotInRange, Depth DEF TypeOK, Locations, SlotStates, Slots, Torn,
      Blank, slot
  <1>2. CountersOrdered'
    BY DEF TypeOK, CountersOrdered, TicketOrder, TicketAccounting,
      BeforePublish, Publishing, AfterCommit
  <1>3. TicketAccounting'
    BY DEF TypeOK, TicketAccounting
  <1>4. TicketOrder'
    BY Depth DEF TypeOK, CountersOrdered, TicketAccounting, TicketOrder,
      BeforePublish, Publishing, AfterCommit
  <1>5. SlotTracksOwner'
    BY SlotInRange DEF TypeOK, SlotTracksOwner, SlotExclusive, Owning,
      slot, BeforePublish, Publishing, AfterCommit
  <1>6. SlotExclusive'
    BY DEF TypeOK, SlotExclusive, Owning, slot, BeforePublish, Publishing,
      AfterCommit
  <1>7. DescriptorIntact'
    BY SlotInRange DEF TypeOK, DescriptorIntact, SlotExclusive, Owning,
      slot, BeforePublish, Publishing, AfterCommit
  <1>8. TailTracksCommit'
    BY DEF TypeOK, TailTracksCommit, TicketOrder, TicketAccounting,
      BeforePublish, Publishing, AfterCommit
  <1>9. QED
    BY <1>1, <1>2, <1>3, <1>4, <1>5, <1>6, <1>7, <1>8

(* The descriptor is complete.                                             *)
LEMMA WriteSlotEndStep ==
  ASSUME NEW t \in Threads, IndInv, WriteSlotEnd(t)
  PROVE  IndInv'
  <1> USE DEF IndInv, WriteSlotEnd, FillSlot, Goto, historyVars, hwVars
  <1>1. TypeOK'
    BY SlotInRange, Depth DEF TypeOK, Locations, SlotStates, Slots, Torn,
      Blank, slot
  <1>2. CountersOrdered'
    BY DEF TypeOK, CountersOrdered, TicketOrder, TicketAccounting,
      BeforePublish, Publishing, AfterCommit
  <1>3. TicketAccounting'
    BY DEF TypeOK, TicketAccounting
  <1>4. TicketOrder'
    BY Depth DEF TypeOK, CountersOrdered, TicketAccounting, TicketOrder,
      BeforePublish, Publishing, AfterCommit
  <1>5. SlotTracksOwner'
    BY SlotInRange DEF TypeOK, SlotTracksOwner, SlotExclusive, Owning,
      slot, BeforePublish, Publishing, AfterCommit
  <1>6. SlotExclusive'
    BY DEF TypeOK, SlotExclusive, Owning, slot, BeforePublish, Publishing,
      AfterCommit
  <1>7. DescriptorIntact'
    BY SlotInRange DEF TypeOK, DescriptorIntact, SlotExclusive, Owning,
      slot, BeforePublish, Publishing, AfterCommit
  <1>8. TailTracksCommit'
    BY DEF TypeOK, TailTracksCommit, TicketOrder, TicketAccounting,
      BeforePublish, Publishing, AfterCommit
  <1>9. QED
    BY <1>1, <1>2, <1>3, <1>4, <1>5, <1>6, <1>7, <1>8

(* The slot is READY.                                                      *)
LEMMA MarkReadyStep ==
  ASSUME NEW t \in Threads, IndInv, MarkReady(t)
  PROVE  IndInv'
  <1> USE DEF IndInv, MarkReady, SetSlot, Goto, historyVars, hwVars
  <1>1. TypeOK'
    BY SlotInRange, Depth DEF TypeOK, Locations, SlotStates, Slots, Torn,
      Blank, slot
  <1>2. CountersOrdered'
    BY DEF TypeOK, CountersOrdered, TicketOrder, TicketAccounting,
      BeforePublish, Publishing, AfterCommit
  <1>3. TicketAccounting'
    BY DEF TypeOK, TicketAccounting
  <1>4. TicketOrder'
    BY Depth DEF TypeOK, CountersOrdered, TicketAccounting, TicketOrder,
      BeforePublish, Publishing, AfterCommit
  <1>5. SlotTracksOwner'
    BY SlotInRange DEF TypeOK, SlotTracksOwner, SlotExclusive, Owning,
      slot, BeforePublish, Publishing, AfterCommit
  <1>6. SlotExclusive'
    BY DEF TypeOK, SlotExclusive, Owning, slot, BeforePublish, Publishing,
      AfterCommit
  <1>7. DescriptorIntact'
    BY SlotInRange DEF TypeOK, DescriptorIntact, SlotExclusive, Owning,
      slot, BeforePublish, Publishing, AfterCommit
  <1>8. TailTracksCommit'
    BY DEF TypeOK, TailTracksCommit, TicketOrder, TicketAccounting,
      BeforePublish, Publishing, AfterCommit
  <1>9. QED
    BY <1>1, <1>2, <1>3, <1>4, <1>5, <1>6, <1>7, <1>8

(* The ticket is the next one to commit.                                   *)
LEMMA WaitToPublishPass ==
  ASSUME NEW t \in Threads, IndInv, MyTurn(t), Goto(t, "publish", "tail"),
         UNCHANGED <<installs, softVars, ticket, current, historyVars, hwVars>>
  PROVE  IndInv'
  <1> USE DEF IndInv, Goto, softVars, historyVars, hwVars
  <1>1. TypeOK'
    BY SlotInRange, Depth DEF TypeOK, Locations, SlotStates, Slots, Torn,
      Blank, slot
  <1>2. CountersOrdered'
    BY DEF TypeOK, CountersOrdered, TicketOrder, TicketAccounting,
      BeforePublish, Publishing, AfterCommit
  <1>3. TicketAccounting'
    BY DEF TypeOK, TicketAccounting
  <1>4. TicketOrder'
    BY Depth DEF MyTurn, TypeOK, CountersOrdered, TicketAccounting,
      TicketOrder, BeforePublish, Publishing, AfterCommit
  <1>5. SlotTracksOwner'
    BY SlotInRange DEF TypeOK, SlotTracksOwner, SlotExclusive, Owning,
      slot, BeforePublish, Publishing, AfterCommit
  <1>6. SlotExclusive'
    BY DEF TypeOK, SlotExclusive, Owning, slot, BeforePublish, Publishing,
      AfterCommit
  <1>7. DescriptorIntact'
    BY SlotInRange DEF TypeOK, DescriptorIntact, SlotExclusive, Owning,
      slot, BeforePublish, Publishing, AfterCommit
  <1>8. TailTracksCommit'
    BY DEF TypeOK, TailTracksCommit, TicketOrder, TicketAccounting,
      BeforePublish, Publishing, AfterCommit
  <1>9. QED
    BY <1>1, <1>2, <1>3, <1>4, <1>5, <1>6, <1>7, <1>8

(* WaitToPublish, whether or not the poll succeeds.                     *)
LEMMA WaitToPublishStep == ASSUME NEW t \in Threads, IndInv, WaitToPublish(t) PROVE IndInv'
  BY WaitToPublishPass, PollMissStep DEF WaitToPublish

(* Only one ticket is the next one, so the tail moves by one slot.         *)
LEMMA WriteTailStep ==
  ASSUME NEW t \in Threads, IndInv, WriteTail(t)
  PROVE  IndInv'
  <1> USE DEF IndInv, WriteTail, Goto, historyVars, hwVars
  <1>1. TypeOK'
    <2>1. tail' \in Slots
      BY SlotSuccessor, SlotInRange DEF TypeOK, slot
    <2>2. pc' \in [Threads -> Locations] /\ polls' \in [Threads -> Nat]
      BY DEF TypeOK, Locations
    <2>3. QED
      BY <2>1, <2>2 DEF TypeOK
  <1>2. CountersOrdered'
    BY DEF TypeOK, CountersOrdered, TicketOrder, TicketAccounting,
      BeforePublish, Publishing, AfterCommit
  <1>3. TicketAccounting'
    BY DEF TypeOK, TicketAccounting
  <1>4. TicketOrder'
    BY Depth DEF TypeOK, CountersOrdered, TicketAccounting, TicketOrder,
      BeforePublish, Publishing, AfterCommit
  <1>5. SlotTracksOwner'
    BY SlotInRange DEF TypeOK, SlotTracksOwner, SlotExclusive, Owning,
      slot, BeforePublish, Publishing, AfterCommit
  <1>6. SlotExclusive'
    BY DEF TypeOK, SlotExclusive, Owning, slot, BeforePublish, Publishing,
      AfterCommit
  <1>7. DescriptorIntact'
    BY SlotInRange DEF TypeOK, DescriptorIntact, SlotExclusive, Owning,
      slot, BeforePublish, Publishing, AfterCommit
  <1>8. TailTracksCommit'
    BY SlotSuccessor DEF TypeOK, TailTracksCommit, TicketOrder,
      TicketAccounting, slot, BeforePublish, Publishing, AfterCommit
  <1>9. QED
    BY <1>1, <1>2, <1>3, <1>4, <1>5, <1>6, <1>7, <1>8

(* The slot is PUBLISHED.                                                  *)
LEMMA MarkPublishedStep ==
  ASSUME NEW t \in Threads, IndInv, MarkPublished(t)
  PROVE  IndInv'
  <1> USE DEF IndInv, MarkPublished, SetSlot, Goto, historyVars, hwVars
  <1>1. TypeOK'
    BY SlotInRange, Depth DEF TypeOK, Locations, SlotStates, Slots, Torn,
      Blank, slot
  <1>2. CountersOrdered'
    BY DEF TypeOK, CountersOrdered, TicketOrder, TicketAccounting,
      BeforePublish, Publishing, AfterCommit
  <1>3. TicketAccounting'
    BY DEF TypeOK, TicketAccounting
  <1>4. TicketOrder'
    BY Depth DEF TypeOK, CountersOrdered, TicketAccounting, TicketOrder,
      BeforePublish, Publishing, AfterCommit
  <1>5. SlotTracksOwner'
    BY SlotInRange DEF TypeOK, SlotTracksOwner, SlotExclusive, Owning,
      slot, BeforePublish, Publishing, AfterCommit
  <1>6. SlotExclusive'
    BY DEF TypeOK, SlotExclusive, Owning, slot, BeforePublish, Publishing,
      AfterCommit
  <1>7. DescriptorIntact'
    BY SlotInRange DEF TypeOK, DescriptorIntact, SlotExclusive, Owning,
      slot, BeforePublish, Publishing, AfterCommit
  <1>8. TailTracksCommit'
    BY DEF TypeOK, TailTracksCommit, TicketOrder, TicketAccounting,
      BeforePublish, Publishing, AfterCommit
  <1>9. QED
    BY <1>1, <1>2, <1>3, <1>4, <1>5, <1>6, <1>7, <1>8

(* committed moves past this ticket and up to every waiting one.           *)
LEMMA CommitStep ==
  ASSUME NEW t \in Threads, IndInv, Commit(t)
  PROVE  IndInv'
  <1> USE DEF IndInv, Commit, Goto, historyVars, hwVars
  <1>1. TypeOK'
    <2>1. committed' \in Nat
      BY DEF TypeOK
    <2>2. pc' \in [Threads -> Locations] /\ polls' \in [Threads -> Nat]
      BY DEF TypeOK, Locations
    <2>3. QED
      BY <2>1, <2>2 DEF TypeOK
  <1>2. CountersOrdered'
    BY DEF TypeOK, CountersOrdered, TicketOrder, TicketAccounting,
      BeforePublish, Publishing, AfterCommit
  <1>3. TicketAccounting'
    BY DEF TypeOK, TicketAccounting
  <1>4. TicketOrder'
    BY Depth DEF TypeOK, CountersOrdered, TicketAccounting, TicketOrder,
      BeforePublish, Publishing, AfterCommit
  <1>5. SlotTracksOwner'
    BY SlotInRange DEF TypeOK, SlotTracksOwner, SlotExclusive, Owning,
      slot, BeforePublish, Publishing, AfterCommit
  <1>6. SlotExclusive'
    BY DEF TypeOK, SlotExclusive, Owning, slot, BeforePublish, Publishing,
      AfterCommit
  <1>7. DescriptorIntact'
    BY SlotInRange DEF TypeOK, DescriptorIntact, SlotExclusive, Owning,
      slot, BeforePublish, Publishing, AfterCommit
  <1>8. TailTracksCommit'
    BY DEF TypeOK, TailTracksCommit, TicketOrder, TicketAccounting,
      BeforePublish, Publishing, AfterCommit
  <1>9. QED
    BY <1>1, <1>2, <1>3, <1>4, <1>5, <1>6, <1>7, <1>8

(* The slot is kept until it is released.                                  *)
LEMMA WaitForConsumedPass ==
  ASSUME NEW t \in Threads, IndInv, Goto(t, "consumed", "check"),
         UNCHANGED <<installs, softVars, ticket, current, historyVars, hwVars>>
  PROVE  IndInv'
  <1> USE DEF IndInv, Goto, softVars, historyVars, hwVars
  <1>1. TypeOK'
    BY SlotInRange, Depth DEF TypeOK, Locations, SlotStates, Slots, Torn,
      Blank, slot
  <1>2. CountersOrdered'
    BY DEF TypeOK, CountersOrdered, TicketOrder, TicketAccounting,
      BeforePublish, Publishing, AfterCommit
  <1>3. TicketAccounting'
    BY DEF TypeOK, TicketAccounting
  <1>4. TicketOrder'
    BY Depth DEF TypeOK, CountersOrdered, TicketAccounting, TicketOrder,
      BeforePublish, Publishing, AfterCommit
  <1>5. SlotTracksOwner'
    BY SlotInRange DEF TypeOK, SlotTracksOwner, SlotExclusive, Owning,
      slot, BeforePublish, Publishing, AfterCommit
  <1>6. SlotExclusive'
    BY DEF TypeOK, SlotExclusive, Owning, slot, BeforePublish, Publishing,
      AfterCommit
  <1>7. DescriptorIntact'
    BY SlotInRange DEF TypeOK, DescriptorIntact, SlotExclusive, Owning,
      slot, BeforePublish, Publishing, AfterCommit
  <1>8. TailTracksCommit'
    BY DEF TypeOK, TailTracksCommit, TicketOrder, TicketAccounting,
      BeforePublish, Publishing, AfterCommit
  <1>9. QED
    BY <1>1, <1>2, <1>3, <1>4, <1>5, <1>6, <1>7, <1>8

(* wait_for_consumed: consumed, a missed poll, or an error from read_head.  *)
LEMMA WaitForConsumedStep ==
  ASSUME NEW t \in Threads, IndInv, WaitForConsumed(t) PROVE IndInv'
  BY WaitForConsumedPass, PollMissStep, FailStep DEF WaitForConsumed

(* No error: on to the release.                                            *)
LEMMA CheckErrorPass ==
  ASSUME NEW t \in Threads, IndInv, Goto(t, "check", "release"),
         UNCHANGED <<installs, softVars, ticket, current, historyVars, hwVars>>
  PROVE  IndInv'
  <1> USE DEF IndInv, Goto, softVars, historyVars, hwVars
  <1>1. TypeOK'
    BY SlotInRange, Depth DEF TypeOK, Locations, SlotStates, Slots, Torn,
      Blank, slot
  <1>2. CountersOrdered'
    BY DEF TypeOK, CountersOrdered, TicketOrder, TicketAccounting,
      BeforePublish, Publishing, AfterCommit
  <1>3. TicketAccounting'
    BY DEF TypeOK, TicketAccounting
  <1>4. TicketOrder'
    BY Depth DEF TypeOK, CountersOrdered, TicketAccounting, TicketOrder,
      BeforePublish, Publishing, AfterCommit
  <1>5. SlotTracksOwner'
    BY SlotInRange DEF TypeOK, SlotTracksOwner, SlotExclusive, Owning,
      slot, BeforePublish, Publishing, AfterCommit
  <1>6. SlotExclusive'
    BY DEF TypeOK, SlotExclusive, Owning, slot, BeforePublish, Publishing,
      AfterCommit
  <1>7. DescriptorIntact'
    BY SlotInRange DEF TypeOK, DescriptorIntact, SlotExclusive, Owning,
      slot, BeforePublish, Publishing, AfterCommit
  <1>8. TailTracksCommit'
    BY DEF TypeOK, TailTracksCommit, TicketOrder, TicketAccounting,
      BeforePublish, Publishing, AfterCommit
  <1>9. QED
    BY <1>1, <1>2, <1>3, <1>4, <1>5, <1>6, <1>7, <1>8

(* check_error, with either result.                                        *)
LEMMA CheckErrorStep ==
  ASSUME NEW t \in Threads, IndInv, CheckError(t) PROVE IndInv'
  BY CheckErrorPass, FailStep DEF CheckError

(* Releasing a slot: its only owner lets go of it.                         *)
LEMMA ReleaseStep ==
  ASSUME NEW t \in Threads, IndInv, Release(t)
  PROVE  IndInv'
  <1> USE DEF IndInv, Release, SetSlot, Goto, historyVars, hwVars
  <1>1. TypeOK'
    BY SlotInRange, Depth DEF TypeOK, Locations, SlotStates, Slots, Torn,
      Blank, slot
  <1>2. CountersOrdered'
    BY DEF TypeOK, CountersOrdered, TicketOrder, TicketAccounting,
      BeforePublish, Publishing, AfterCommit
  <1>3. TicketAccounting'
    BY DEF TypeOK, TicketAccounting
  <1>4. TicketOrder'
    BY Depth DEF TypeOK, CountersOrdered, TicketAccounting, TicketOrder,
      BeforePublish, Publishing, AfterCommit
  <1>5. SlotTracksOwner'
    BY SlotInRange DEF TypeOK, SlotTracksOwner, SlotExclusive, Owning,
      slot, BeforePublish, Publishing, AfterCommit
  <1>6. SlotExclusive'
    BY DEF TypeOK, SlotExclusive, Owning, slot, BeforePublish, Publishing,
      AfterCommit
  <1>7. DescriptorIntact'
    BY SlotInRange DEF TypeOK, DescriptorIntact, SlotExclusive, Owning,
      slot, BeforePublish, Publishing, AfterCommit
  <1>8. TailTracksCommit'
    BY DEF TypeOK, TailTracksCommit, TicketOrder, TicketAccounting,
      BeforePublish, Publishing, AfterCommit
  <1>9. QED
    BY <1>1, <1>2, <1>3, <1>4, <1>5, <1>6, <1>7, <1>8

(* A load.                                                                 *)
LEMMA LoadRetiredStep ==
  ASSUME NEW t \in Threads, IndInv, LoadRetired(t)
  PROVE  IndInv'
  <1> USE DEF IndInv, LoadRetired, Goto, softVars, historyVars, hwVars
  <1>1. TypeOK'
    BY SlotInRange, Depth DEF TypeOK, Locations, SlotStates, Slots, Torn,
      Blank, slot
  <1>2. CountersOrdered'
    BY DEF TypeOK, CountersOrdered, TicketOrder, TicketAccounting,
      BeforePublish, Publishing, AfterCommit
  <1>3. TicketAccounting'
    BY DEF TypeOK, TicketAccounting
  <1>4. TicketOrder'
    BY Depth DEF TypeOK, CountersOrdered, TicketAccounting, TicketOrder,
      BeforePublish, Publishing, AfterCommit
  <1>5. SlotTracksOwner'
    BY SlotInRange DEF TypeOK, SlotTracksOwner, SlotExclusive, Owning,
      slot, BeforePublish, Publishing, AfterCommit
  <1>6. SlotExclusive'
    BY DEF TypeOK, SlotExclusive, Owning, slot, BeforePublish, Publishing,
      AfterCommit
  <1>7. DescriptorIntact'
    BY SlotInRange DEF TypeOK, DescriptorIntact, SlotExclusive, Owning,
      slot, BeforePublish, Publishing, AfterCommit
  <1>8. TailTracksCommit'
    BY DEF TypeOK, TailTracksCommit, TicketOrder, TicketAccounting,
      BeforePublish, Publishing, AfterCommit
  <1>9. QED
    BY <1>1, <1>2, <1>3, <1>4, <1>5, <1>6, <1>7, <1>8

(* retired only moves up, and only to a committed ticket.                  *)
LEMMA AdvanceRetiredStep ==
  ASSUME NEW t \in Threads, IndInv, AdvanceRetired(t)
  PROVE  IndInv'
  <1> USE DEF IndInv, AdvanceRetired, ReturnOk, Goto, softVars, historyVars, hwVars
  <1>1. TypeOK'
    <2>1. retired' \in Nat
      BY DEF TypeOK
    <2>2. current' \in [Threads -> Nat]
      BY DEF TypeOK
    <2>3. acked' \subseteq Nat
      <3>1. acked' = acked \/ acked' = acked \union {ticket[t]}
        OBVIOUS
      <3>2. acked \subseteq Nat /\ ticket[t] \in Nat
        BY DEF TypeOK
      <3> HIDE DEF IndInv, AdvanceRetired
      <3>3. QED
        BY <3>1, <3>2
    <2>4. pc' \in [Threads -> Locations] /\ polls' \in [Threads -> Nat]
      BY DEF TypeOK, Locations
    <2>5. QED
      BY <2>1, <2>2, <2>3, <2>4 DEF TypeOK
  <1>2. CountersOrdered'
    BY DEF TypeOK, CountersOrdered, TicketOrder, TicketAccounting,
      BeforePublish, Publishing, AfterCommit
  <1>3. TicketAccounting'
    <2>1. CASE pc' = [pc EXCEPT ![t] = "idle"] /\ acked' = acked \union {ticket[t]} /\ UNCHANGED failed
      <3>1. acked' \union failed' = (acked \union failed) \union {ticket[t]}
        BY <2>1
      <3>2. pc[t] # "idle" /\ ticket' = ticket /\ claim' = claim
        OBVIOUS
      <3>3. QED
        BY <2>1, <3>1, <3>2, DecideTicket DEF TypeOK
    <2>2. CASE UNCHANGED <<pc, ticket, claim, acked, failed>>
      BY <2>2 DEF TicketAccounting
    <2>3. QED
      BY <2>1, <2>2
  <1>4. TicketOrder'
    BY Depth DEF TypeOK, CountersOrdered, TicketAccounting, TicketOrder,
      BeforePublish, Publishing, AfterCommit
  <1>5. SlotTracksOwner'
    BY SlotInRange DEF TypeOK, SlotTracksOwner, SlotExclusive, Owning,
      slot, BeforePublish, Publishing, AfterCommit
  <1>6. SlotExclusive'
    BY DEF TypeOK, SlotExclusive, Owning, slot, BeforePublish, Publishing,
      AfterCommit
  <1>7. DescriptorIntact'
    BY SlotInRange DEF TypeOK, DescriptorIntact, SlotExclusive, Owning,
      slot, BeforePublish, Publishing, AfterCommit
  <1>8. TailTracksCommit'
    BY DEF TypeOK, TailTracksCommit, TicketOrder, TicketAccounting,
      BeforePublish, Publishing, AfterCommit
  <1>9. QED
    BY <1>1, <1>2, <1>3, <1>4, <1>5, <1>6, <1>7, <1>8

(* No thread is inside submit, so a reset queue satisfies everything.      *)
LEMMA InstallStep ==
  ASSUME IndInv, Install
  PROVE  IndInv'
  <1> USE DEF IndInv, Install, InitQueue, SetQueueTable, threadVars
  <1>1. TypeOK'
    <2>1. slotState' \in [Slots -> SlotStates] /\ ring' \in [Slots -> Nat \union {Blank, Torn}]
      BY DEF SlotStates
    <2>2. installs' \in Nat /\ claim' \in Nat /\ committed' \in Nat /\ retired' \in Nat
      BY DEF TypeOK
    <2>3. tail' \in Slots
      BY SlotZero
    <2>4. QED
      BY <2>1, <2>2, <2>3 DEF TypeOK
  <1>2. CountersOrdered'
    BY DEF TypeOK, CountersOrdered, TicketOrder, TicketAccounting,
      BeforePublish, Publishing, AfterCommit
  <1>3. TicketAccounting'
    BY DEF TypeOK, TicketAccounting
  <1>4. TicketOrder'
    BY Depth DEF TypeOK, CountersOrdered, TicketAccounting, TicketOrder,
      BeforePublish, Publishing, AfterCommit
  <1>5. SlotTracksOwner'
    BY SlotInRange DEF TypeOK, SlotTracksOwner, SlotExclusive, Owning,
      slot, BeforePublish, Publishing, AfterCommit
  <1>6. SlotExclusive'
    BY DEF TypeOK, SlotExclusive, Owning, slot, BeforePublish, Publishing,
      AfterCommit
  <1>7. DescriptorIntact'
    BY SlotInRange DEF TypeOK, DescriptorIntact, SlotExclusive, Owning,
      slot, BeforePublish, Publishing, AfterCommit
  <1>8. TailTracksCommit'
    BY SlotZero DEF TypeOK, TailTracksCommit
  <1>9. QED
    BY <1>1, <1>2, <1>3, <1>4, <1>5, <1>6, <1>7, <1>8

(* The hardware changes nothing the threads rely on.                       *)
LEMMA FetchStep ==
  ASSUME IndInv, Fetch
  PROVE  IndInv'
  <1> USE DEF IndInv, Fetch, softVars, threadVars, historyVars
  <1>1. TypeOK'
    BY HeadInRange DEF TypeOK
  <1>2. CountersOrdered'
    BY DEF TypeOK, CountersOrdered, TicketOrder, TicketAccounting,
      BeforePublish, Publishing, AfterCommit
  <1>3. TicketAccounting'
    BY DEF TypeOK, TicketAccounting
  <1>4. TicketOrder'
    BY Depth DEF TypeOK, CountersOrdered, TicketAccounting, TicketOrder,
      BeforePublish, Publishing, AfterCommit
  <1>5. SlotTracksOwner'
    BY SlotInRange DEF TypeOK, SlotTracksOwner, SlotExclusive, Owning,
      slot, BeforePublish, Publishing, AfterCommit
  <1>6. SlotExclusive'
    BY DEF TypeOK, SlotExclusive, Owning, slot, BeforePublish, Publishing,
      AfterCommit
  <1>7. DescriptorIntact'
    BY SlotInRange DEF TypeOK, DescriptorIntact, SlotExclusive, Owning,
      slot, BeforePublish, Publishing, AfterCommit
  <1>8. TailTracksCommit'
    BY DEF TypeOK, TailTracksCommit, TicketOrder, TicketAccounting,
      BeforePublish, Publishing, AfterCommit
  <1>9. QED
    BY <1>1, <1>2, <1>3, <1>4, <1>5, <1>6, <1>7, <1>8

-----------------------------------------------------------------------------
(* The inductive invariant and what follows from it.                       *)

(* A queue that was never installed satisfies the invariant.               *)
LEMMA InitEstablishes == ASSUME Init PROVE IndInv
  <1> USE DEF Init
  <1>1. TypeOK
    BY SlotZero DEF TypeOK, SlotStates, Locations
  <1>2. TailTracksCommit
    BY SlotZero DEF TailTracksCommit
  <1>3. QED
    BY <1>1, <1>2 DEF IndInv, CountersOrdered, TicketAccounting, TicketOrder, SlotTracksOwner,
      SlotExclusive, DescriptorIntact, Owning, BeforePublish, Publishing, AfterCommit

(* Every step of any thread, of the installer and of the hardware keeps    *)
(* the invariant.                                                          *)
LEMMA NextPreserves == ASSUME IndInv, [Next]_vars PROVE IndInv'
  <1>1. ASSUME NEW t \in Threads, Submit(t) PROVE IndInv'
    BY <1>1, WaitForCapacityStep, WaitForEmptyStep, MarkWritingStep, WriteSlotBeginStep,
      WriteSlotEndStep, MarkReadyStep, WaitToPublishStep, WriteTailStep,
      MarkPublishedStep, CommitStep, WaitForConsumedStep, CheckErrorStep,
      ReleaseStep, LoadRetiredStep, AdvanceRetiredStep
      DEF Submit
  <1>2. ASSUME NEW t \in Threads, Reject(t) PROVE IndInv'
    BY <1>2, StutterStep DEF Reject
  <1>3. QED
    BY <1>1, <1>2, ClaimStep, InstallStep, FetchStep, StutterStep DEF Next

(* IndInv holds in every reachable state.                                  *)
THEOREM Invariance == Spec => []IndInv
  <1>1. Init => IndInv
    BY InitEstablishes
  <1>2. IndInv /\ [Next]_vars => IndInv'
    BY NextPreserves
  <1>3. QED
    BY <1>1, <1>2, PTL DEF Spec

(* Type correctness of the queue.                                          *)
THEOREM TypeCorrect == Spec => []TypeOK
  <1>1. IndInv => TypeOK
    BY DEF IndInv
  <1>2. QED
    BY <1>1, Invariance, PTL

(* However many threads submit and time out, retired, committed and claim  *)
(* keep their order.                                                       *)
THEOREM CountersStayOrdered == Spec => []CountersOrdered
  <1>1. IndInv => CountersOrdered
    BY DEF IndInv
  <1>2. QED
    BY <1>1, Invariance, PTL

(* The wrapping subtraction of wait_for_capacity never wraps.              *)
THEOREM NoUnderflow == Spec => []CapacityNeverUnderflows
  <1>1. IndInv => CapacityNeverUnderflows
    BY DEF IndInv, TypeOK, CountersOrdered, TicketOrder, CapacityNeverUnderflows
  <1>2. QED
    BY <1>1, Invariance, PTL

(* No two threads own a slot at once, although the test for EMPTY and the  *)
(* store of WRITING are separate steps.                                    *)
THEOREM SlotExclusion == Spec => []SlotExclusive
  <1>1. IndInv => SlotExclusive
    BY DEF IndInv
  <1>2. QED
    BY <1>1, Invariance, PTL

(* A descriptor stays whole in its slot until its owner releases it.       *)
THEOREM DescriptorsStayIntact == Spec => []DescriptorIntact
  <1>1. IndInv => DescriptorIntact
    BY DEF IndInv
  <1>2. QED
    BY <1>1, Invariance, PTL

(* Each step either leaves the tail register, reinstalls the queue, or     *)
(* moves the tail over the complete descriptor of the next ticket.         *)
LEMMA TailStepHolds == ASSUME IndInv, [Next]_vars PROVE [TailStep]_vars
  <1>1. ASSUME NEW t \in Threads, WriteTail(t) PROVE TailStep
    <2> USE DEF IndInv, WriteTail, Goto
    <2>1. ticket[t] = committed
      BY <1>1 DEF TicketOrder, Publishing
    <2>2. \A u \in Threads : pc[u] \notin {"published", "commit"}
      BY <1>1, <2>1 DEF TicketOrder, TicketAccounting, Publishing
    <2>3. tail = SlotOf(committed)
      BY <2>2 DEF TailTracksCommit
    <2>4. ring[tail] = committed
      BY <1>1, <2>1, <2>3 DEF DescriptorIntact, Publishing, slot
    <2>5. tail' = SlotOf(committed + 1)
      BY <1>1, <2>1, SlotSuccessor DEF slot, TypeOK
    <2>6. QED
      BY <2>3, <2>4, <2>5 DEF TailStep
  <1>2. ASSUME NEW t \in Threads, Submit(t), ~WriteTail(t) PROVE tail' = tail
    BY <1>2 DEF Submit, WaitForCapacity, WaitForEmpty, MarkWriting, WriteSlotBegin,
      WriteSlotEnd, MarkReady, WaitToPublish, MarkPublished, Commit, WaitForConsumed,
      CheckError, Release, LoadRetired, AdvanceRetired, ReturnOk, SetSlot, FillSlot,
      PollMiss, Fail, softVars, vars
  <1>3. ASSUME NEW t \in Threads, Reject(t) \/ Claim(t) PROVE tail' = tail
    BY <1>3 DEF Reject, Claim, vars, softVars
  <1>4. CASE Fetch
    BY <1>4 DEF Fetch, softVars, TailStep
  <1>5. CASE Install
    BY <1>5 DEF Install, IndInv, TypeOK, TailStep
  <1>6. CASE UNCHANGED vars
    BY <1>6
  <1>7. QED
    BY <1>1, <1>2, <1>3, <1>4, <1>5, <1>6 DEF Next, TailStep

(* The tail register only moves forward, one whole descriptor at a time,   *)
(* in ticket order.                                                        *)
THEOREM TailMovesInOrder == Spec => TailInOrder
  <1>1. IndInv /\ [Next]_vars => [TailStep]_vars
    BY TailStepHolds
  <1>2. QED
    BY <1>1, Invariance, PTL DEF Spec, TailInOrder

(* Only the exchange of advance_retired moves `retired`, from a value that *)
(* it has compared with the ticket, and only when it is still that value.  *)
LEMMA RetiredStepHolds == ASSUME IndInv, [Next]_vars PROVE [RetiredStep]_vars
  <1> USE DEF RetiredStep
  <1>1. retired \in Nat
    BY DEF IndInv, TypeOK
  <1>2. ASSUME NEW t \in Threads, AdvanceRetired(t) PROVE retired' >= retired
    <2>1. ticket[t] \in Nat /\ current[t] \in Nat
      BY DEF IndInv, TypeOK
    <2>2. retired' = retired \/ (current[t] < ticket[t] + 1 /\ current[t] = retired
                                 /\ retired' = ticket[t] + 1)
      BY <1>2 DEF AdvanceRetired, softVars
    <2>3. QED
      BY <1>1, <2>1, <2>2
  <1>3. ASSUME NEW t \in Threads, Submit(t), ~AdvanceRetired(t) PROVE retired' = retired
    BY <1>3 DEF Submit, WaitForCapacity, WaitForEmpty, MarkWriting, WriteSlotBegin,
      WriteSlotEnd, MarkReady, WaitToPublish, WriteTail, MarkPublished, Commit,
      WaitForConsumed, CheckError, Release, LoadRetired, SetSlot, FillSlot, PollMiss, Fail,
      softVars, vars
  <1>4. ASSUME NEW t \in Threads, Reject(t) \/ Claim(t) PROVE retired' = retired
    BY <1>4 DEF Reject, Claim, vars, softVars
  <1>5. CASE Fetch
    BY <1>1, <1>5 DEF Fetch, softVars
  <1>6. CASE Install
    BY <1>6 DEF Install, IndInv, TypeOK
  <1>7. CASE UNCHANGED vars
    BY <1>7
  <1>8. QED
    BY <1>1, <1>2, <1>3, <1>4, <1>5, <1>6, <1>7 DEF Next

(* However late a release comes, and in whatever order the slots are       *)
(* released, `retired` never moves back between two installations.         *)
THEOREM RetiredOnlyAdvances == Spec => RetiredMovesForward
  <1>1. IndInv /\ [Next]_vars => [RetiredStep]_vars
    BY RetiredStepHolds
  <1>2. QED
    BY <1>1, Invariance, PTL DEF Spec, RetiredMovesForward

-----------------------------------------------------------------------------
(* Refinement: each step of the queue is a step of OrderedSubmission or    *)
(* leaves its variables alone.                                             *)

(* An error return is an abandoned ticket.                                 *)
LEMMA FailAbandons ==
  ASSUME IndInv, NEW t \in Threads, pc[t] # "idle", Fail(t)
  PROVE  Ordered!Abandon
  <1>1. ticket[t] \in Ordered!Tickets \ Ordered!Decided
    BY DEF IndInv, TypeOK, TicketAccounting, Ordered!Tickets, Ordered!Decided
  <1>2. failed' = failed \union {ticket[t]} /\ UNCHANGED <<claim, committed, acked>>
    BY DEF Fail, softVars
  <1>3. QED
    BY <1>1, <1>2 DEF Ordered!Abandon

(* A missed poll is a stutter or, the last one, an abandoned ticket.       *)
LEMMA PollMissRefines ==
  ASSUME IndInv, NEW t \in Threads, pc[t] # "idle", PollMiss(t)
  PROVE  [Ordered!Next]_(Ordered!vars)
  <1>1. CASE Fail(t)
    BY <1>1, FailAbandons DEF Ordered!Next
  <1>2. CASE ~Fail(t)
    BY <1>2 DEF PollMiss, vars, softVars, historyVars, Ordered!vars
  <1>3. QED
    BY <1>1, <1>2

(* The steps of submit.                                                    *)
LEMMA SubmitRefines ==
  ASSUME IndInv, NEW t \in Threads, Submit(t)
  PROVE  [Ordered!Next]_(Ordered!vars)
  <1>1. CASE WaitForCapacity(t) \/ WaitForEmpty(t) \/ WaitToPublish(t)
    BY <1>1, PollMissRefines
      DEF WaitForCapacity, WaitForEmpty, WaitToPublish, softVars, historyVars, Ordered!vars
  <1>2. CASE WaitForConsumed(t) \/ CheckError(t)
    <2>1. pc[t] # "idle"
      BY <1>2 DEF WaitForConsumed, CheckError, Goto
    <2>2. CASE Fail(t)
      BY <2>1, <2>2, FailAbandons DEF Ordered!Next
    <2>3. CASE ~Fail(t)
      BY <1>2, <2>1, <2>3, PollMissRefines
        DEF WaitForConsumed, CheckError, softVars, historyVars, Ordered!vars
    <2>4. QED
      BY <2>2, <2>3
  <1>3. CASE \/ MarkWriting(t) \/ WriteSlotBegin(t) \/ WriteSlotEnd(t) \/ MarkReady(t)
             \/ WriteTail(t) \/ MarkPublished(t) \/ Release(t) \/ LoadRetired(t)
    BY <1>3 DEF MarkWriting, WriteSlotBegin, WriteSlotEnd, MarkReady, WriteTail,
      MarkPublished, Release, LoadRetired, SetSlot, FillSlot, softVars, historyVars,
      Ordered!vars
  <1>4. CASE Commit(t)
    <2>1. pc[t] # "idle" /\ ticket[t] = committed
      BY <1>4 DEF Commit, Goto, IndInv, TicketOrder, Publishing
    <2>2. committed \in Ordered!Tickets \ Ordered!Decided
      BY <2>1 DEF IndInv, TypeOK, TicketAccounting, Ordered!Tickets, Ordered!Decided
    <2>3. committed' = committed + 1 /\ UNCHANGED <<claim, acked, failed>>
      BY <1>4, <2>1 DEF Commit, historyVars
    <2>4. QED
      BY <2>2, <2>3 DEF Ordered!Next, Ordered!Publish
  <1>5. CASE AdvanceRetired(t)
    <2>1. CASE ReturnOk(t)
      <3>1. pc[t] # "idle" /\ ticket[t] < committed
        BY <2>1 DEF ReturnOk, Goto, IndInv, TicketOrder
      <3>2. ticket[t] \in Ordered!Tickets \ Ordered!Decided
        BY <3>1 DEF IndInv, TypeOK, TicketAccounting, Ordered!Tickets, Ordered!Decided
      <3>3. acked' = acked \union {ticket[t]} /\ UNCHANGED <<claim, committed, failed>>
        BY <1>5, <2>1 DEF AdvanceRetired, ReturnOk, softVars, historyVars
      <3>4. QED
        BY <3>1, <3>2, <3>3 DEF Ordered!Next, Ordered!Succeed
    <2>2. CASE ~ReturnOk(t)
      BY <1>5, <2>2 DEF AdvanceRetired, softVars, historyVars, Ordered!vars
    <2>3. QED
      BY <2>1, <2>2
  <1>6. QED
    BY <1>1, <1>2, <1>3, <1>4, <1>5 DEF Submit

(* Every step.                                                             *)
LEMMA NextRefines ==
  ASSUME IndInv, [Next]_vars
  PROVE  [Ordered!Next]_(Ordered!vars)
  <1>1. ASSUME NEW t \in Threads, Claim(t) PROVE Ordered!Take
    BY <1>1 DEF Claim, historyVars, Ordered!Take
  <1>2. CASE Install
    <2>1. Ordered!Tickets \subseteq Ordered!Decided
      BY <1>2 DEF Install, IndInv, TicketAccounting, Ordered!Tickets, Ordered!Decided
    <2>2. QED
      BY <1>2, <2>1 DEF Install, InitQueue, Ordered!Next, Ordered!Restart
  <1>3. ASSUME NEW t \in Threads, Reject(t) PROVE UNCHANGED Ordered!vars
    BY <1>3 DEF Reject, vars, softVars, historyVars, Ordered!vars
  <1>4. CASE Fetch
    BY <1>4 DEF Fetch, softVars, historyVars, Ordered!vars
  <1>5. CASE UNCHANGED vars
    BY <1>5 DEF vars, softVars, historyVars, Ordered!vars
  <1>6. QED
    BY <1>1, <1>2, <1>3, <1>4, <1>5, SubmitRefines DEF Next, Ordered!Next

(* The ring with its slots, polling, timeouts and reinstallation           *)
(* implements in-order, decide-once submission.                            *)
THEOREM Refinement == Spec => ImplementsOrdered
  <1>1. Init => Ordered!Init
    BY DEF Init, Ordered!Init
  <1>2. IndInv /\ [Next]_vars => [Ordered!Next]_(Ordered!vars)
    BY NextRefines
  <1>3. QED
    BY <1>1, <1>2, Invariance, PTL DEF Spec, ImplementsOrdered, Ordered!Spec

-----------------------------------------------------------------------------
(* One caller at a time: what Ok means.  Two concurrent callers break it,  *)
(* and so does a head poll that gives up.                                  *)

(* submit is never called by two threads, the poll for consumption does    *)
(* not give up (an error the controller reports is allowed) and the ring   *)
(* is installed once.                                                      *)
SequentialUse ==
  /\ \E t : Threads = {t}
  /\ Faults \subseteq {"check_error"}
  /\ MaxInstalls <= 1

(* Hardware has fetched the tickets below k and stands at k's slot.        *)
FetchedBelow(k) == head = SlotOf(k) /\ executed = 0 .. k - 1

(* At location p of ticket k: hardware has everything committed, except    *)
(* for the one ticket between its tail write and the end of                *)
(* wait_for_consumed.                                                      *)
FetchedAt(p, k) ==
  /\ p \in {"published", "commit"} => FetchedBelow(committed) \/ FetchedBelow(committed + 1)
  /\ p \in AfterCommit \union {"retire", "cas"} => committed = k + 1
  /\ p = "consumed" => FetchedBelow(k) \/ FetchedBelow(k + 1)
  /\ p \notin {"published", "commit", "consumed"} => FetchedBelow(committed)

SequentialInv ==
  /\ installs <= 1 /\ (installs = 0 => head = 0)
  /\ \A t \in Threads : FetchedAt(pc[t], ticket[t])
  /\ AckedExecuted

(* The steps of submit that change neither the counters hardware is        *)
(* measured against nor the ticket, and keep a thread outside or inside    *)
(* the window in which its descriptor is on its way.                       *)
LEMMA QuietStep ==
  ASSUME SequentialInv, NEW t, Threads = {t},
         UNCHANGED <<installs, committed, ticket, head, executed>>,
         pc'[t] = pc[t] \/ FetchedAt(pc'[t], ticket[t]), acked' \subseteq executed
  PROVE  SequentialInv'
  <1>1. FetchedAt(pc'[t], ticket[t])
    BY DEF SequentialInv
  <1>2. FetchedAt(pc[t], ticket[t])'
    BY <1>1 DEF FetchedAt, FetchedBelow
  <1>3. QED
    BY <1>2 DEF SequentialInv, AckedExecuted

(* submit, one step.                                                       *)
LEMMA SequentialSubmit ==
  ASSUME IndInv, SequentialInv, NEW t, Threads = {t}, Faults \subseteq {"check_error"},
         Submit(t)
  PROVE  SequentialInv'
  <1> DEFINE p == pc[t]
             k == ticket[t]
             Still == UNCHANGED <<installs, ticket, head, executed>>
  <1>1. /\ t \in Threads /\ pc \in [Threads -> Locations] /\ ticket \in [Threads -> Nat]
        /\ k \in Nat /\ committed \in Nat
    BY DEF IndInv, TypeOK
  <1>2. FetchedAt(p, k) /\ acked \subseteq executed
    BY <1>1 DEF SequentialInv, AckedExecuted
  <1>3. ASSUME UNCHANGED vars PROVE SequentialInv'
    BY <1>2, <1>3, QuietStep DEF vars, softVars, threadVars, historyVars, hwVars
  <1>4. ASSUME PollMiss(t) PROVE UNCHANGED vars
    BY <1>4 DEF PollMiss
  (* A step before the tail write, or after the slot is consumed.          *)
  <1>5. ASSUME NEW q \in Locations, p \notin {"published", "commit", "consumed"},
               q \notin {"published", "commit", "consumed"},
               q \in AfterCommit \union {"retire", "cas"} => p \in AfterCommit \union {"retire"},
               pc' = [pc EXCEPT ![t] = q], Still, committed' = committed, acked' = acked
        PROVE  SequentialInv'
    <2>1. pc'[t] = q
      BY <1>1, <1>5
    <2>2. FetchedAt(q, k)
      BY <1>2, <1>5 DEF FetchedAt
    <2>3. QED
      BY <1>2, <1>5, <2>1, <2>2, QuietStep
  <1> HIDE DEF p, k
  <1> USE DEF Goto, softVars, historyVars, hwVars
  <1>6. CASE WaitForCapacity(t) \/ WaitForEmpty(t) \/ WaitToPublish(t)
    BY <1>3, <1>4, <1>5, <1>6
    DEF WaitForCapacity, WaitForEmpty, WaitToPublish, p, Locations, AfterCommit
  <1>7. CASE MarkWriting(t) \/ WriteSlotBegin(t) \/ WriteSlotEnd(t) \/ MarkReady(t) \/ Release(t)
    BY <1>5, <1>7
    DEF MarkWriting, WriteSlotBegin, WriteSlotEnd, MarkReady, Release, SetSlot, FillSlot,
        p, Locations, AfterCommit
  <1>8. CASE WriteTail(t)
    <2>1. p = "tail" /\ pc'[t] = "published" /\ Still /\ committed' = committed /\ acked' = acked
      BY <1>1, <1>8 DEF WriteTail, p
    <2>2. FetchedAt("published", k)
      BY <1>2, <2>1 DEF FetchedAt, AfterCommit
    <2>3. QED
      BY <1>2, <2>1, <2>2, QuietStep DEF k
  <1>9. CASE MarkPublished(t)
    <2>1. p = "published" /\ pc'[t] = "commit" /\ Still /\ committed' = committed /\ acked' = acked
      BY <1>1, <1>9 DEF MarkPublished, SetSlot, p
    <2>2. FetchedAt("commit", k)
      BY <1>2, <2>1 DEF FetchedAt, AfterCommit
    <2>3. QED
      BY <1>2, <2>1, <2>2, QuietStep DEF k
  <1>10. CASE Commit(t)
    <2>1. p = "commit" /\ pc'[t] = "consumed" /\ Still /\ committed' = k + 1 /\ acked' = acked
      BY <1>1, <1>10 DEF Commit, p, k
    <2>2. k = committed
      BY <1>1, <2>1 DEF IndInv, TicketOrder, Publishing, p, k
    <2>3. FetchedBelow(k) \/ FetchedBelow(k + 1)
      BY <1>2, <2>1, <2>2 DEF FetchedAt
    <2>4. ticket'[t] = k
      BY <2>1 DEF k
    <2>5. FetchedAt(pc[t], ticket[t])'
      BY <2>1, <2>3, <2>4 DEF FetchedAt, FetchedBelow
    <2>6. QED
      BY <1>2, <2>1, <2>5 DEF SequentialInv, AckedExecuted
  <1>11. CASE WaitForConsumed(t)
    <2>1. CASE UNCHANGED vars
      BY <1>3, <2>1
    <2>2. CASE /\ p = "consumed" /\ HeadMoved(t) /\ pc'[t] = "check"
               /\ Still /\ committed' = committed /\ acked' = acked
      <3>1. committed = k + 1 /\ FetchedBelow(k + 1)
        BY <1>2, <2>2 DEF FetchedAt, FetchedBelow, HeadMoved, slot, k, AfterCommit
      <3>2. FetchedAt("check", k)
        BY <3>1 DEF FetchedAt
      <3>3. QED
        BY <1>2, <2>2, <3>2, QuietStep DEF k
    <2>3. QED
      BY <1>1, <1>4, <1>11, <2>1, <2>2 DEF WaitForConsumed, p
  <1>12. CASE CheckError(t) \/ LoadRetired(t)
    BY <1>5, <1>12 DEF CheckError, LoadRetired, Fail, p, Locations, AfterCommit
  <1>13. CASE AdvanceRetired(t)
    <2>1. CASE /\ p = "cas" /\ pc'[t] = "idle" /\ acked' = acked \union {k}
               /\ Still /\ committed' = committed
      <3>1. committed = k + 1 /\ FetchedBelow(committed)
        BY <1>2, <2>1 DEF FetchedAt
      <3>2. k \in executed
        BY <1>1, <3>1 DEF FetchedBelow
      <3>3. FetchedAt("idle", k)
        BY <3>1 DEF FetchedAt, AfterCommit
      <3>4. QED
        BY <1>2, <2>1, <3>2, <3>3, QuietStep DEF k
    <2>2. CASE /\ pc' = pc /\ acked' = acked /\ Still /\ committed' = committed
      BY <1>2, <2>2, QuietStep
    <2>3. QED
      BY <1>1, <1>13, <2>1, <2>2 DEF AdvanceRetired, ReturnOk, p, k
  <1>14. QED
    BY <1>6, <1>7, <1>8, <1>9, <1>10, <1>11, <1>12, <1>13 DEF Submit

(* Hardware fetches only what is on its way: the descriptor of the ticket  *)
(* between its tail write and the end of wait_for_consumed, in one piece.  *)
LEMMA SequentialFetch ==
  ASSUME IndInv, SequentialInv, NEW t, Threads = {t}, Fetch
  PROVE  SequentialInv'
  <1> DEFINE p == pc[t]
             k == ticket[t]
  <1>1. /\ installs > 0 /\ head # tail /\ head' = (head + 1) % EntryCount
        /\ executed' = executed \union {ring[head]}
        /\ UNCHANGED <<installs, committed, pc, ticket, acked>>
    BY DEF Fetch, softVars, threadVars, historyVars
  <1>2. t \in Threads /\ k \in Nat /\ committed \in Nat /\ FetchedAt(p, k) /\ acked \subseteq executed
    BY DEF IndInv, TypeOK, SequentialInv, AckedExecuted
  <1>3. p \in {"published", "commit"} => tail = SlotOf(committed + 1)
    BY <1>2 DEF IndInv, TailTracksCommit
  <1>4. p \notin {"published", "commit"} => tail = SlotOf(committed)
    BY <1>2 DEF IndInv, TailTracksCommit
  <1>5. p \in {"published", "commit"} => k = committed
    BY <1>2 DEF IndInv, TicketOrder, Publishing
  <1>6. p \in {"published", "commit", "consumed"} /\ FetchedBelow(k)
    BY <1>1, <1>2, <1>3, <1>4, <1>5 DEF FetchedAt, FetchedBelow, AfterCommit
  <1>7. ring[head] = k
    BY <1>2, <1>6 DEF IndInv, DescriptorIntact, Publishing, AfterCommit, FetchedBelow, slot
  <1>8. head' = SlotOf(k + 1)
    BY <1>1, <1>2, <1>6, SlotSuccessor DEF FetchedBelow
  <1>9. executed' = 0 .. (k + 1) - 1
    BY <1>1, <1>2, <1>6, <1>7 DEF FetchedBelow
  <1>10. /\ pc'[t] = p /\ ticket'[t] = k /\ committed' = committed
         /\ acked' \subseteq executed'
    BY <1>1, <1>2
  <1> HIDE DEF p, k
  <1>11. FetchedAt(pc[t], ticket[t])'
    BY <1>2, <1>5, <1>6, <1>8, <1>9, <1>10 DEF FetchedAt, FetchedBelow
  <1>12. QED
    BY <1>1, <1>10, <1>11 DEF SequentialInv, AckedExecuted

(* Every step of sequential use keeps the invariant; the ring is installed *)
(* with head still where hardware reset left it.                           *)
LEMMA SequentialStep ==
  ASSUME SequentialUse, IndInv, SequentialInv, [Next]_vars
  PROVE  SequentialInv'
  <1>1. PICK t : Threads = {t}
    BY DEF SequentialUse
  <1>2. /\ t \in Threads /\ pc \in [Threads -> Locations] /\ ticket \in [Threads -> Nat]
        /\ committed \in Nat /\ claim \in Nat /\ installs \in Nat
    BY <1>1 DEF IndInv, TypeOK
  <1>3. FetchedAt(pc[t], ticket[t]) /\ acked \subseteq executed
    BY <1>2 DEF SequentialInv, AckedExecuted
  <1>4. CASE UNCHANGED vars
    BY <1>1, <1>3, <1>4, QuietStep DEF vars, softVars, threadVars, historyVars, hwVars
  <1>5. CASE Install
    <2>1. /\ installs = 0 /\ installs' = 1 /\ head' = 0 /\ committed' = 0
          /\ executed' = {} /\ acked' = {} /\ pc'[t] = "idle"
      BY <1>2, <1>5, BoundsAssumption
      DEF SequentialUse, SequentialInv, Install, InitQueue, threadVars
    <2>2. FetchedBelow(committed)'
      BY <2>1, SlotZero DEF FetchedBelow
    <2>3. FetchedAt(pc[t], ticket[t])'
      BY <2>1, <2>2 DEF FetchedAt, AfterCommit
    <2>4. QED
      BY <1>1, <2>1, <2>3 DEF SequentialInv, AckedExecuted
  <1>6. CASE Claim(t)
    <2>1. /\ pc[t] = "idle" /\ pc'[t] = "capacity" /\ committed' = committed /\ acked' = acked
          /\ UNCHANGED <<installs, head, executed>>
      BY <1>2, <1>6 DEF Claim, Goto, historyVars, hwVars
    <2>2. FetchedBelow(committed)'
      BY <1>3, <2>1 DEF FetchedAt, FetchedBelow
    <2>3. FetchedAt(pc[t], ticket[t])'
      BY <2>1, <2>2 DEF FetchedAt, AfterCommit
    <2>4. QED
      BY <1>1, <1>3, <2>1, <2>3 DEF SequentialInv, AckedExecuted
  <1>7. CASE Submit(t)
    BY <1>1, <1>7, SequentialSubmit DEF SequentialUse
  <1>8. CASE Fetch
    BY <1>1, <1>8, SequentialFetch
  <1>9. QED
    BY <1>1, <1>4, <1>5, <1>6, <1>7, <1>8 DEF Next, Reject

(* Sequential use starts in its invariant and stays there.                 *)
THEOREM SequentialInvariance ==
  ASSUME SequentialUse
  PROVE  Spec => []SequentialInv
  <1>1. Init => SequentialInv
    <2> SUFFICES ASSUME Init PROVE SequentialInv
      OBVIOUS
    <2>1. FetchedBelow(committed)
      BY SlotZero DEF Init, FetchedBelow
    <2>2. \A t \in Threads : FetchedAt(pc[t], ticket[t])
      BY <2>1 DEF Init, FetchedAt, AfterCommit
    <2>3. QED
      BY <2>2 DEF Init, SequentialInv, AckedExecuted
  <1>2. IndInv /\ SequentialInv /\ [Next]_vars => SequentialInv'
    BY SequentialStep
  <1>3. QED
    BY <1>1, <1>2, Invariance, PTL DEF Spec

(* With one caller at a time, a submit that returns Ok has had its         *)
(* descriptor fetched by hardware, for any ring depth.                     *)
THEOREM SequentialAcksExecuted ==
  ASSUME SequentialUse
  PROVE  Spec => []AckedExecuted
  <1>1. SequentialInv => AckedExecuted
    BY DEF SequentialInv
  <1>2. QED
    BY <1>1, SequentialInvariance, PTL

(* With one caller at a time, hardware fetches whole descriptors of        *)
(* published tickets only.                                                 *)
THEOREM SequentialFetchesPublished ==
  ASSUME SequentialUse
  PROVE  Spec => []FetchesPublishedOnly
  <1>1. IndInv /\ SequentialInv => FetchesPublishedOnly
    <2> SUFFICES ASSUME IndInv, SequentialInv PROVE FetchesPublishedOnly
      OBVIOUS
    <2>1. PICK t : Threads = {t}
      BY DEF SequentialUse
    <2>2. /\ FetchedAt(pc[t], ticket[t]) /\ committed \in Nat /\ ticket[t] \in Nat
      BY <2>1 DEF SequentialInv, IndInv, TypeOK
    <2>3. \E n \in 0 .. committed + 1 : FetchedBelow(n)
      BY <2>2 DEF FetchedAt, AfterCommit
    <2>4. QED
      BY <2>2, <2>3 DEF FetchedBelow, FetchesPublishedOnly
  <1>2. QED
    BY <1>1, SequentialInvariance, Invariance, PTL

=============================================================================
