------------------------------ MODULE VtdFaults ------------------------------
(***************************************************************************)
(* Fault reporting, src/src/arch/x86_64/intel/ctrl.rs: VtdUnit::poll_fault *)
(* against a unit that records faults in a ring of fault recording         *)
(* registers and raises bits of FSTS at any time, between any two register *)
(* accesses of the poll, and the fault event: the message the unit sends   *)
(* when there is something to poll, and configure_fault_event, which sets  *)
(* where it goes.  Both calls take &mut self: they do not overlap.         *)
(*                                                                         *)
(* The handler, external, wakes on a message and polls until poll_fault    *)
(* returns None.  Others may poll at any time.                             *)
(*                                                                         *)
(* A fault is its number, in the order the unit recorded it; a recording   *)
(* register whose F bit is clear holds 0.  The unit is external.  It is    *)
(* what the code takes it to be: FRI names the oldest record pending.  A   *)
(* dropped fault is not numbered.                                          *)
(***************************************************************************)
EXTENDS Integers, Sequences, FiniteSets, FiniteSetsExt

CONSTANTS
  RecordCount,   \* cap().fault_record_count()
  MaxFaults,     \* bound: faults the unit records
  Raisable,      \* status bits other than PFO that the unit may raise
  MaxRaises,     \* bound: times it raises one
  Messages,      \* MSI messages that reach the handler
  MaxRoutes      \* bound: configure_fault_event calls

(* FSTS bits that report no record, in decode_fault_status' order.         *)
Priority == <<"PFO", "AFO", "APF", "IQE", "ICE", "ITE", "PRO">>
StatusBits == {Priority[i] : i \in DOMAIN Priority}

ASSUME UnitAssumption ==
  /\ RecordCount \in Nat \ {0} /\ MaxFaults \in Nat /\ MaxRaises \in Nat /\ MaxRoutes \in Nat
  /\ Raisable \subseteq StatusBits \ {"PFO"}

Records == 0 .. RecordCount - 1

(* A message is written to three registers: its data and the two halves of *)
(* its address.                                                            *)
Parts == {"FEDATA", "FEADDR", "FEUADDR"}
Reset == "reset"

VARIABLES
  record,     \* fault recording registers: number of the fault, 0 if F is clear
  slot,       \* the unit's next register
  recorded,   \* number of faults recorded
  status,     \* FSTS but PPF and FRI, which follow from the records
  raises,     \* status bits raised
  pc,         \* where poll_fault stands
  seen,       \* its `status`
  index,      \* its `index`
  low, high,  \* its two halves of the record
  event,      \* FEDATA, FEADDR, FEUADDR
  masked,     \* FECTL.IM
  held,       \* FECTL.IP: a message held back by the mask
  route,      \* configure_fault_event: the message and the writes left
  routes,     \* calls of it
  inbox,      \* a message is on its way to the handler
  awake,      \* the handler is polling
  reports,    \* history: faults returned
  last,       \* history: the last reason or error returned
  unseen,     \* history: status bits raised, from clear, and not read since
  rerouted    \* history: since the last None the event was routed while unmasked

faultVars == <<record, slot, recorded, raises, status>>
pollVars == <<pc, seen, index, low, high, reports, last>>
routeVars == <<event, masked, route, routes, rerouted>>
eventVars == <<held, inbox>>
vars == <<faultVars, pollVars, routeVars, eventVars, awake, unseen>>

-----------------------------------------------------------------------------
(* The unit.                                                               *)

Pending == {i \in Records : record[i] # 0}

(* FSTS.FRI.                                                               *)
FaultRecordIndex == CHOOSE i \in Pending : \A j \in Pending : record[i] <= record[j]

(* The fault event.  Setting a field of FSTS while all are clear is an     *)
(* interrupt condition; the message goes out, or is held while IM is set.  *)
(* A message in pieces reaches no handler.                                 *)
Clear == Pending = {} /\ status = {}
Whole == \E m \in Messages : \A p \in Parts : event[p] = m

Signal ==
  /\ held' = (held \/ (Clear /\ masked))
  /\ inbox' = (inbox \/ (Clear /\ ~masked /\ Whole))

(* Clearing the last field drops a held message.                           *)
Settle == held' = (held /\ ~Clear') /\ UNCHANGED inbox

(* A fault: recorded if the next register is free, else PFO is raised.     *)
(* While PFO is set no fault is recorded.                                  *)
RecordFault ==
  /\ recorded < MaxFaults /\ "PFO" \notin status
  /\ IF record[slot] = 0
     THEN /\ record' = [record EXCEPT ![slot] = recorded + 1]
          /\ slot' = (slot + 1) % RecordCount
          /\ recorded' = recorded + 1
          /\ UNCHANGED <<status, unseen>>
     ELSE /\ status' = status \union {"PFO"} /\ unseen' = unseen \union {"PFO"}
          /\ UNCHANGED <<record, slot, recorded>>
  /\ Signal
  /\ UNCHANGED <<raises, pollVars, routeVars, awake>>

RaiseStatus(b) ==
  /\ raises < MaxRaises
  /\ raises' = raises + 1
  /\ status' = status \union {b} /\ unseen' = unseen \union ({b} \ status)
  /\ Signal
  /\ UNCHANGED <<record, slot, recorded, pollVars, routeVars, awake>>

-----------------------------------------------------------------------------
(* poll_fault.                                                             *)

Init ==
  /\ record = [i \in Records |-> 0] /\ slot = 0 /\ recorded = 0
  /\ status = {} /\ raises = 0
  /\ pc = "idle" /\ seen = {} /\ index = 0 /\ low = 0 /\ high = 0
  /\ event = [p \in Parts |-> Reset] /\ masked = TRUE /\ held = FALSE
  /\ route = <<>> /\ routes = 0
  /\ inbox = FALSE /\ awake = FALSE
  /\ reports = <<>> /\ last = "none" /\ unseen = {} /\ rerouted = FALSE

(* The reason decode_fault_status gives for a non-empty set of bits.       *)
ReasonReversed(bits) == Priority[Max({i \in DOMAIN Priority : Priority[i] \in bits})]
Reason(bits) == Priority[Min({i \in DOMAIN Priority : Priority[i] \in bits})]

(* The read of FSTS and the branch on it: poll_primary_fault's index is    *)
(* FRI of the status read.  None sends the handler back to sleep.          *)
Branch(overflowFirst) ==
  LET primary == Pending # {} /\ ~(overflowFirst /\ "PFO" \in status)
  IN /\ pc = "idle" /\ route = <<>>
     /\ seen' = status /\ unseen' = {}
     /\ \/ primary /\ pc' = "low" /\ index' = FaultRecordIndex /\ UNCHANGED <<last, awake, rerouted>>
        \/ ~primary /\ status # {} /\ pc' = "clear" /\ UNCHANGED <<index, last, awake, rerouted>>
        \/ /\ Clear
           /\ last' = "none" /\ awake' = FALSE /\ rerouted' = FALSE
           /\ UNCHANGED <<pc, index>>
     /\ UNCHANGED <<faultVars, eventVars, event, masked, route, routes, low, high, reports>>

ReadStatusOverflowFirst == Branch(TRUE)
ReadStatus == Branch(FALSE)

ReadLow ==
  /\ pc = "low"
  /\ low' = record[index] /\ pc' = "high"
  /\ UNCHANGED <<faultVars, routeVars, eventVars, awake, unseen, seen, index, high, reports, last>>

ReadHigh ==
  /\ pc = "high"
  /\ high' = record[index] /\ pc' = "record"
  /\ UNCHANGED <<faultVars, routeVars, eventVars, awake, unseen, seen, index, low, reports, last>>

(* decode_primary_fault: the address is in the low half; reason, source    *)
(* and access are in the high half.                                        *)
DecodePrimary(l, h) == [iova |-> l, source |-> h]

(* The check of F, and the write that clears it.                           *)
TakeRecord(clear) ==
  /\ pc = "record"
  /\ IF high = 0
     THEN last' = "Err" /\ UNCHANGED <<record, reports>>
     ELSE /\ record' = [record EXCEPT ![clear] = 0]
          /\ reports' = Append(reports, DecodePrimary(low, high))
          /\ last' = "primary"
  /\ UNCHANGED <<slot, recorded, raises, status>>
  /\ Settle
  /\ pc' = "idle" /\ seen' = {} /\ index' = 0 /\ low' = 0 /\ high' = 0
  /\ UNCHANGED <<routeVars, awake, unseen>>

ClearRecordSlot == TakeRecord(slot)
ClearRecord == TakeRecord(index)

(* The bits clear_fault_status writes: those it was given.                 *)
ClearedAll == StatusBits
Cleared == seen

ClearStatus ==
  /\ pc = "clear"
  /\ status' = status \ Cleared
  /\ last' = Reason(seen)
  /\ UNCHANGED <<record, slot, recorded, raises>>
  /\ Settle
  /\ pc' = "idle" /\ seen' = {}
  /\ UNCHANGED <<routeVars, awake, unseen, index, low, high, reports>>

-----------------------------------------------------------------------------
(* configure_fault_event.                                                  *)

Configure ==
  /\ pc = "idle" /\ route = <<>> /\ routes < MaxRoutes
  /\ routes' = routes + 1

(* InterruptRoute::Disabled.                                               *)
ConfigureDisabled ==
  /\ Configure
  /\ masked' = TRUE
  /\ UNCHANGED <<faultVars, pollVars, eventVars, awake, unseen, event, route, rerouted>>

(* InterruptRoute::Msi: the writes, FECTL last.  The event is not masked   *)
(* first.                                                                  *)
WritesUnmaskFirst == <<"FECTL", "FEDATA", "FEADDR", "FEUADDR">>
Writes == <<"FEDATA", "FEADDR", "FEUADDR", "FECTL">>

ConfigureMsi(m) ==
  /\ Configure
  /\ route' = [k \in DOMAIN Writes |-> [register |-> Writes[k], message |-> m]]
  /\ rerouted' = (rerouted \/ ~masked)
  /\ UNCHANGED <<faultVars, pollVars, eventVars, awake, unseen, event, masked>>

(* The next write; clearing IM lets a held message go.                     *)
WriteRoute ==
  /\ route # <<>>
  /\ LET write == Head(route)
     IN IF write.register = "FECTL"
        THEN /\ masked' = FALSE
             /\ held' = FALSE /\ inbox' = (inbox \/ (held /\ Whole))
             /\ UNCHANGED event
        ELSE /\ event' = [event EXCEPT ![write.register] = write.message]
             /\ UNCHANGED <<masked, eventVars>>
  /\ route' = Tail(route)
  /\ UNCHANGED <<faultVars, pollVars, routes, rerouted, awake, unseen>>

-----------------------------------------------------------------------------
(* The handler takes a message.                                            *)
Wake ==
  /\ inbox
  /\ inbox' = FALSE /\ awake' = TRUE
  /\ UNCHANGED <<faultVars, pollVars, routeVars, held, unseen>>

Poll == ReadStatus \/ ReadLow \/ ReadHigh \/ ClearRecord \/ ClearStatus

Next ==
  \/ Poll \/ WriteRoute \/ ConfigureDisabled \/ (\E m \in Messages : ConfigureMsi(m))
  \/ RecordFault \/ (\E b \in Raisable : RaiseStatus(b))
  \/ Wake

(* A call that has begun goes on, a message arrives, and the handler polls *)
(* while it is awake.  Nobody else has to poll.                            *)
Spec ==
  /\ Init /\ [][Next]_vars
  /\ WF_vars(ReadLow \/ ReadHigh \/ ClearRecord \/ ClearStatus) /\ WF_vars(WriteRoute)
  /\ WF_vars(Wake) /\ WF_vars(awake /\ ReadStatus)

-----------------------------------------------------------------------------
(* Every variable stays in its domain.                                     *)
TypeOK ==
  /\ record \in [Records -> 0 .. MaxFaults] /\ slot \in Records
  /\ recorded \in 0 .. MaxFaults /\ status \subseteq StatusBits /\ raises \in 0 .. MaxRaises
  /\ pc \in {"idle", "low", "high", "record", "clear"}
  /\ seen \subseteq StatusBits /\ unseen \subseteq StatusBits
  /\ index \in Records /\ low \in 0 .. MaxFaults /\ high \in 0 .. MaxFaults
  /\ last \in StatusBits \union {"none", "primary", "Err"}
  /\ event \in [Parts -> Messages \union {Reset}] /\ routes \in 0 .. MaxRoutes
  /\ {masked, held, inbox, awake, rerouted} \subseteq BOOLEAN

(* poll_fault returns the recorded faults first in first out, each once    *)
(* and in one piece: report k is both halves of fault k, and the faults    *)
(* not reported are in the registers.                                      *)
FaultsFifo ==
  /\ TypeOK
  /\ \A k \in DOMAIN reports : reports[k] = DecodePrimary(k, k)
  /\ {record[i] : i \in Pending} = Len(reports) + 1 .. recorded

(* clear_fault_status clears what its poll read: a bit raised since is     *)
(* still there for the next poll.                                          *)
UnseenStays == unseen \subseteq status

(* Whatever is recorded or raised, and whenever, while the event is routed *)
(* to a handler that polls until None, that handler is awake or has a      *)
(* message coming: no fault waits for a message that was sent before it or *)
(* went astray.  Callers may lose one by routing an event that is not      *)
(* masked, and poll_fault returning None makes that good.                  *)
NoLostWakeup == ~Clear /\ ~masked => awake \/ inbox \/ rerouted

(* An overflow is reported, though records come before it and other bits   *)
(* with it: nothing else clears PFO.                                       *)
OverflowReported == "PFO" \in status ~> last = "PFO" \/ masked \/ rerouted

(* Every recorded fault is returned by some poll, unless the event is      *)
(* masked, or routed while unmasked.                                       *)
FaultsReported ==
  \A k \in 1 .. MaxFaults : recorded >= k ~> Len(reports) >= k \/ masked \/ rerouted

=============================================================================
