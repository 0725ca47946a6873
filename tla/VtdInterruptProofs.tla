------------------------- MODULE VtdInterruptProofs -------------------------
(***************************************************************************)
(* Proofs about the two parts of a VT-d unit that interrupts go through.   *)
(* VtdFaults, for any number of recording registers, faults, status bits   *)
(* raised and routes: FaultInv is inductive.  InterruptRemap, for any      *)
(* tables, entries, deliveries and index range: RemapInv is inductive.     *)
(* The safety properties follow from them.                                 *)
(***************************************************************************)
EXTENDS VtdFaults, InterruptRemap, SequenceTheorems, TLAPS

-----------------------------------------------------------------------------
(* The inductive invariant.                                                *)

ReportCount == Len(reports)

(* The registers hold the faults recorded and not reported, each once.     *)
RecordsHold ==
  /\ reports \in Seq([iova : Nat, source : Nat]) /\ ReportCount <= recorded
  /\ \A k \in 1 .. ReportCount : reports[k] = DecodePrimary(k, k)
  /\ \A i \in Records : record[i] # 0 => record[i] \in ReportCount + 1 .. recorded
  /\ \A i, j \in Records : record[i] # 0 /\ record[i] = record[j] => i = j
  /\ \A k \in ReportCount + 1 .. recorded : \E i \in Records : record[i] = k

(* A poll of a record holds the oldest, in what it has read of it too.     *)
PollHolds ==
  /\ pc \in {"low", "high", "record"} => record[index] = ReportCount + 1
  /\ pc \in {"high", "record"} => low = ReportCount + 1
  /\ pc = "record" => high = ReportCount + 1

(* A poll of the status: what it read is still set and nothing unseen.     *)
StatusHolds ==
  /\ unseen \subseteq status
  /\ pc = "clear" => seen # {} /\ seen \subseteq status /\ unseen \intersect seen = {}

(* The routing in progress: what is left of configure_fault_event's writes *)
(* and what the earlier ones have put in place.                            *)
Write(r, m) == [register |-> r, message |-> m]
FourWrites(m) == <<Write("FEDATA", m), Write("FEADDR", m), Write("FEUADDR", m), Write("FECTL", m)>>
ThreeWrites(m) == <<Write("FEADDR", m), Write("FEUADDR", m), Write("FECTL", m)>>
TwoWrites(m) == <<Write("FEUADDR", m), Write("FECTL", m)>>
OneWrite(m) == <<Write("FECTL", m)>>

RouteHolds ==
  /\ \/ route = <<>>
     \/ \E m \in Messages :
          \/ route = FourWrites(m)
          \/ route = ThreeWrites(m) /\ event["FEDATA"] = m
          \/ route = TwoWrites(m) /\ event["FEDATA"] = m /\ event["FEADDR"] = m
          \/ route = OneWrite(m) /\ \A p \in Parts : event[p] = m
  /\ route = <<>> /\ ~masked => Whole
  /\ route # <<>> /\ ~masked => rerouted

(* A set field has woken the handler, or its message is held back.         *)
WakeupHolds == ~Clear => awake \/ inbox \/ rerouted \/ (masked /\ held)

FaultInv ==
  /\ TypeOK /\ last # "Err"
  /\ RecordsHold /\ PollHolds /\ StatusHolds /\ RouteHolds /\ WakeupHolds

-----------------------------------------------------------------------------
(* Operators of the model.                                                 *)

(* The status bits, listed.                                                *)
LEMMA StatusBitsListed ==
  /\ DOMAIN Priority = 1 .. 7
  /\ \A i \in 1 .. 7 : Priority[i] \in StatusBits
  /\ \A b \in StatusBits : \E i \in 1 .. 7 : Priority[i] = b
  /\ "PFO" \in StatusBits /\ "Err" \notin StatusBits
  <1>1. DOMAIN Priority = 1 .. 7
    BY DEF Priority
  <1>2. StatusBits = {Priority[i] : i \in 1 .. 7}
    BY <1>1 DEF StatusBits
  <1>3. \A i \in 1 .. 7 : Priority[i] # "Err"
    BY DEF Priority
  <1>4. Priority[1] = "PFO"
    BY DEF Priority
  <1>5. QED
    BY <1>1, <1>2, <1>3, <1>4

(* decode_fault_status gives a reason for any bits.                        *)
LEMMA ReasonIsBit ==
  ASSUME NEW bits \in SUBSET StatusBits, bits # {}
  PROVE  Reason(bits) \in StatusBits
  <1> DEFINE S == {i \in DOMAIN Priority : Priority[i] \in bits}
  <1>1. S \subseteq 1 .. 7 /\ S # {}
    BY StatusBitsListed
  <1> HIDE DEF S
  <1>2. \E x \in S : \A y \in S : x <= y
    <2>1. ASSUME NEW k \in 1 .. 7, k \in S, S \subseteq k .. 7
          PROVE  \E x \in S : \A y \in S : x <= y
      BY <2>1
    <2>2. CASE 1 \in S \/ 2 \in S
      <3>1. S \subseteq 1 .. 7 /\ (1 \notin S => S \subseteq 2 .. 7)
        BY <1>1
      <3>2. QED
        BY <2>1, <2>2, <3>1
    <2>3. CASE 1 \notin S /\ 2 \notin S
      <3>1. S \subseteq 3 .. 7 /\ (3 \notin S => S \subseteq 4 .. 7)
        BY <1>1, <2>3
      <3>2. 3 \notin S /\ 4 \notin S => S \subseteq 5 .. 7 /\ (5 \notin S => S \subseteq 6 .. 7)
        BY <3>1
      <3>3. PICK e \in S : e \in 3 .. 7
        BY <1>1, <3>1
      <3>4. 3 \notin S /\ 4 \notin S /\ 5 \notin S /\ 6 \notin S => S \subseteq 7 .. 7 /\ 7 \in S
        <4>1. ASSUME 3 \notin S, 4 \notin S, 5 \notin S, 6 \notin S PROVE e = 7 /\ S \subseteq 7 .. 7
          BY <3>1, <3>3, <4>1
        <4>2. QED
          BY <4>1
      <3>5. QED
        BY <2>1, <3>1, <3>2, <3>4
    <2>4. QED
      BY <2>2, <2>3
  <1>3. Min(S) \in S
    BY <1>2 DEF Min
  <1>4. Priority[Min(S)] \in StatusBits
    BY <1>1, <1>3, StatusBitsListed
  <1>5. QED
    BY <1>4 DEF Reason, S

(* FRI names the register of the oldest fault not reported.                *)
LEMMA OldestRecord ==
  ASSUME FaultInv, Pending # {}
  PROVE  /\ FaultRecordIndex \in Records
         /\ record[FaultRecordIndex] = ReportCount + 1
  <1>1. ReportCount \in Nat /\ recorded \in Nat /\ \A i \in Records : record[i] \in Nat
    BY UnitAssumption, LenProperties DEF FaultInv, TypeOK, RecordsHold, ReportCount
  <1>2. PICK p \in Records : record[p] # 0
    BY DEF Pending
  <1>3. record[p] \in ReportCount + 1 .. recorded
    BY <1>2 DEF FaultInv, RecordsHold
  <1>4. ReportCount + 1 \in ReportCount + 1 .. recorded
    BY <1>1, <1>3
  <1>5. PICK i \in Records : record[i] = ReportCount + 1
    BY <1>4 DEF FaultInv, RecordsHold
  <1>6. i \in Pending /\ \A j \in Pending : record[i] <= record[j]
    BY <1>1, <1>5 DEF Pending, FaultInv, RecordsHold
  <1> DEFINE f == FaultRecordIndex
  <1>7. f \in Pending /\ \A j \in Pending : record[f] <= record[j]
    BY <1>6 DEF FaultRecordIndex
  <1> HIDE DEF f
  <1>8. f \in Records /\ record[f] \in ReportCount + 1 .. recorded /\ record[f] <= record[i]
    BY <1>6, <1>7 DEF Pending, FaultInv, RecordsHold
  <1>9. QED
    BY <1>1, <1>5, <1>8 DEF f

(* configure_fault_event's writes: what Writes lists, and what is left     *)
(* after each.                                                             *)
LEMMA RouteWrites ==
  ASSUME NEW m
  PROVE  /\ [k \in DOMAIN Writes |-> [register |-> Writes[k], message |-> m]] = FourWrites(m)
         /\ Head(FourWrites(m)) = Write("FEDATA", m) /\ Tail(FourWrites(m)) = ThreeWrites(m)
         /\ Head(ThreeWrites(m)) = Write("FEADDR", m) /\ Tail(ThreeWrites(m)) = TwoWrites(m)
         /\ Head(TwoWrites(m)) = Write("FEUADDR", m) /\ Tail(TwoWrites(m)) = OneWrite(m)
         /\ Head(OneWrite(m)) = Write("FECTL", m) /\ Tail(OneWrite(m)) = <<>>
         /\ <<>> \notin {FourWrites(m), ThreeWrites(m), TwoWrites(m), OneWrite(m)}
  <1> DEFINE a == Write("FEDATA", m)
             b == Write("FEADDR", m)
             c == Write("FEUADDR", m)
             d == Write("FECTL", m)
  <1>1. FourWrites(m) = <<a, b, c, d>> /\ ThreeWrites(m) = <<b, c, d>>
    BY DEF FourWrites, ThreeWrites
  <1>2. TwoWrites(m) = <<c, d>> /\ OneWrite(m) = <<d>>
    BY DEF TwoWrites, OneWrite
  <1>3. [k \in DOMAIN Writes |-> [register |-> Writes[k], message |-> m]] = <<a, b, c, d>>
    <2> DEFINE w == [k \in DOMAIN Writes |-> [register |-> Writes[k], message |-> m]]
    <2>1. DOMAIN Writes = 1 .. 4
      BY DEF Writes
    <2>2. /\ Writes[1] = "FEDATA" /\ Writes[2] = "FEADDR"
          /\ Writes[3] = "FEUADDR" /\ Writes[4] = "FECTL"
      BY DEF Writes
    <2>3. w[1] = a /\ w[2] = b /\ w[3] = c /\ w[4] = d
      BY <2>1, <2>2 DEF Write
    <2>4. DOMAIN w = 1 .. 4 /\ w = [k \in 1 .. 4 |-> w[k]]
      BY <2>1
    <2> HIDE DEF w, a, b, c, d
    <2> DEFINE S == {a, b, c, d}
    <2>5. \A k \in 1 .. 4 : w[k] \in S
      BY <2>3
    <2>6. w \in Seq(S) /\ Len(w) = 4
      BY <2>4, <2>5
    <2>7. <<a, b, c, d>> \in Seq(S) /\ Len(<<a, b, c, d>>) = 4
      OBVIOUS
    <2>8. \A k \in 1 .. 4 : w[k] = <<a, b, c, d>>[k]
      BY <2>3
    <2>9. w = <<a, b, c, d>>
      BY <2>6, <2>7, <2>8, SeqEqual
    <2>10. QED
      BY <2>9 DEF w
  <1> HIDE DEF a, b, c, d
  <1>4. Head(FourWrites(m)) = a /\ Tail(FourWrites(m)) = ThreeWrites(m)
    BY <1>1
  <1>5. Head(ThreeWrites(m)) = b /\ Tail(ThreeWrites(m)) = TwoWrites(m)
    BY <1>1, <1>2
  <1>6. Head(TwoWrites(m)) = c /\ Tail(TwoWrites(m)) = OneWrite(m)
    BY <1>2
  <1>7. Head(OneWrite(m)) = d /\ Tail(OneWrite(m)) = <<>>
    BY <1>2
  <1>8. <<>> \notin {FourWrites(m), ThreeWrites(m), TwoWrites(m), OneWrite(m)}
    BY <1>1, <1>2
  <1>9. QED
    BY <1>1, <1>3, <1>4, <1>5, <1>6, <1>7, <1>8 DEF a, b, c, d

-----------------------------------------------------------------------------
(* Steps of the unit.                                                      *)

(* Naturals the other steps compute with.                                  *)
LEMMA Counted ==
  ASSUME FaultInv
  PROVE  /\ ReportCount \in Nat /\ recorded \in Nat /\ RecordCount \in Nat \ {0}
         /\ record \in [Records -> Nat] /\ \A i \in Records : record[i] \in Nat
         /\ DOMAIN reports = 1 .. ReportCount
  <1>1. reports \in Seq([iova : Nat, source : Nat])
    BY DEF FaultInv, RecordsHold
  <1>2. ReportCount \in Nat /\ DOMAIN reports = 1 .. ReportCount
    BY <1>1, LenProperties DEF ReportCount
  <1>3. QED
    BY <1>2, UnitAssumption DEF FaultInv, TypeOK

(* When the unit sets a field the handler is awake, has a message coming   *)
(* or gets one, unless the mask holds it back or the event is being routed *)
(* unmasked.                                                               *)
LEMMA SignalWakes ==
  ASSUME FaultInv, Signal, UNCHANGED routeVars, UNCHANGED awake
  PROVE  /\ held' \in BOOLEAN /\ inbox' \in BOOLEAN
         /\ awake' \/ inbox' \/ rerouted' \/ (masked' /\ held')
  <1>1. held \in BOOLEAN /\ inbox \in BOOLEAN /\ masked \in BOOLEAN
    BY DEF FaultInv, TypeOK
  <1>2. held' \in BOOLEAN /\ inbox' \in BOOLEAN
    BY DEF Signal
  <1>3. CASE Clear
    BY <1>1, <1>3 DEF FaultInv, RouteHolds, Signal, routeVars
  <1>4. CASE ~Clear
    BY <1>1, <1>4 DEF FaultInv, WakeupHolds, Signal, routeVars
  <1>5. QED
    BY <1>2, <1>3, <1>4

(* configure_fault_event's state does not change with the unit's.          *)
LEMMA RouteFrame ==
  ASSUME FaultInv, UNCHANGED routeVars
  PROVE  RouteHolds'
  <1>1. event' = event /\ masked' = masked /\ route' = route /\ rerouted' = rerouted
    BY DEF routeVars
  <1>2. RouteHolds
    BY DEF FaultInv
  <1>3. Whole' = Whole
    BY <1>1 DEF Whole
  <1>4. QED
    BY <1>1, <1>2, <1>3 DEF RouteHolds

(* The unit records a fault in a free register.                            *)
LEMMA RecordStep ==
  ASSUME FaultInv, RecordFault, record[slot] = 0
  PROVE  FaultInv'
  <1> DEFINE n == ReportCount
  <1>1. /\ record' = [record EXCEPT ![slot] = recorded + 1]
        /\ slot' = (slot + 1) % RecordCount /\ recorded' = recorded + 1
        /\ UNCHANGED <<status, unseen, raises, pollVars, routeVars, awake>> /\ Signal
        /\ recorded < MaxFaults
    BY DEF RecordFault
  <1>2. /\ n \in Nat /\ recorded \in Nat /\ n <= recorded /\ MaxFaults \in Nat
        /\ slot \in Records /\ record \in [Records -> 0 .. MaxFaults]
    BY Counted, UnitAssumption DEF FaultInv, TypeOK, RecordsHold
  <1>3. slot' \in Records
    <2>1. slot \in Nat /\ RecordCount \in Nat \ {0}
      BY <1>2, Counted DEF Records
    <2>2. QED
      BY <1>1, <2>1 DEF Records
  <1>4. /\ record' \in [Records -> 0 .. MaxFaults]
        /\ record'[slot] = recorded + 1
        /\ \A i \in Records \ {slot} : record'[i] = record[i]
    BY <1>1, <1>2
  <1>5. n' = n
    BY <1>1 DEF ReportCount, pollVars
  <1> HIDE DEF n
  <1>6. TypeOK' /\ last' # "Err"
    BY <1>1, <1>2, <1>3, <1>4, SignalWakes DEF FaultInv, TypeOK, pollVars, routeVars
  <1>7. RecordsHold'
    <2>1. reports' = reports
      BY <1>1 DEF pollVars
    <2>2. \A i \in Records : record'[i] # 0 => record'[i] \in n + 1 .. recorded + 1
      BY <1>2, <1>4 DEF FaultInv, RecordsHold, n
    <2>3. \A i, j \in Records : record'[i] # 0 /\ record'[i] = record'[j] => i = j
      BY <1>2, <1>4 DEF FaultInv, RecordsHold, n
    <2>4. ASSUME NEW k \in n + 1 .. recorded + 1 PROVE \E i \in Records : record'[i] = k
      <3>1. CASE k = recorded + 1
        BY <1>2, <1>4, <3>1
      <3>2. CASE k # recorded + 1
        <4>1. k \in n + 1 .. recorded
          BY <1>2, <3>2
        <4>2. PICK i \in Records : record[i] = k
          BY <4>1 DEF FaultInv, RecordsHold, n
        <4>3. i # slot
          BY <1>2, <4>1, <4>2
        <4>4. QED
          BY <1>4, <4>2, <4>3
      <3>3. QED
        BY <3>1, <3>2
    <2>5. QED
      BY <1>1, <1>2, <1>5, <2>1, <2>2, <2>3, <2>4 DEF FaultInv, RecordsHold, n
  <1>8. PollHolds'
    <2>1. \A i \in Records : record[i] = n + 1 => record'[i] = n + 1
      BY <1>2, <1>4
    <2>2. QED
      BY <1>1, <1>5, <2>1 DEF FaultInv, TypeOK, PollHolds, pollVars, n
  <1>9. StatusHolds'
    BY <1>1 DEF FaultInv, StatusHolds, pollVars
  <1>10. RouteHolds' /\ WakeupHolds'
    BY <1>1, RouteFrame, SignalWakes DEF WakeupHolds
  <1>11. QED
    BY <1>6, <1>7, <1>8, <1>9, <1>10 DEF FaultInv

(* The unit raises a bit of the status: RaiseStatus, or RecordFault when   *)
(* the next register is taken.                                             *)
LEMMA RaiseStep ==
  ASSUME FaultInv, NEW b \in StatusBits,
         status' = status \union {b}, unseen' \subseteq unseen \union ({b} \ status),
         raises' \in 0 .. MaxRaises, Signal,
         UNCHANGED <<record, slot, recorded, pollVars, routeVars, awake>>
  PROVE  FaultInv'
  <1>1. TypeOK' /\ last' # "Err"
    BY SignalWakes DEF FaultInv, TypeOK, pollVars, routeVars
  <1>2. RecordsHold' /\ PollHolds'
    BY DEF FaultInv, RecordsHold, PollHolds, pollVars, ReportCount
  <1>3. StatusHolds'
    BY DEF FaultInv, StatusHolds, pollVars
  <1>4. RouteHolds' /\ WakeupHolds'
    BY RouteFrame, SignalWakes DEF WakeupHolds
  <1>5. QED
    BY <1>1, <1>2, <1>3, <1>4 DEF FaultInv

(* The unit's steps.                                                       *)
LEMMA UnitStep ==
  ASSUME FaultInv, RecordFault \/ \E b \in Raisable : RaiseStatus(b)
  PROVE  FaultInv'
  <1>1. CASE RecordFault /\ record[slot] = 0
    BY <1>1, RecordStep
  <1>2. CASE RecordFault /\ record[slot] # 0
    <2>1. /\ status' = status \union {"PFO"} /\ unseen' = unseen \union {"PFO"}
          /\ "PFO" \notin status /\ Signal /\ raises' = raises
          /\ UNCHANGED <<record, slot, recorded, pollVars, routeVars, awake>>
      BY <1>2 DEF RecordFault
    <2>2. "PFO" \in StatusBits /\ raises \in 0 .. MaxRaises
      BY StatusBitsListed DEF FaultInv, TypeOK
    <2>3. unseen' \subseteq unseen \union ({"PFO"} \ status)
      BY <2>1
    <2>4. QED
      BY <2>1, <2>2, <2>3, RaiseStep
  <1>3. ASSUME NEW b \in Raisable, RaiseStatus(b) PROVE FaultInv'
    <2>1. b \in StatusBits /\ raises' \in 0 .. MaxRaises
      BY <1>3, UnitAssumption DEF RaiseStatus, FaultInv, TypeOK
    <2>2. QED
      BY <1>3, <2>1, RaiseStep DEF RaiseStatus
  <1>4. QED
    BY <1>1, <1>2, <1>3

-----------------------------------------------------------------------------
(* Steps of poll_fault.                                                    *)

(* The read of FSTS: a record poll starts on the oldest fault; None is     *)
(* returned only when nothing is set.                                      *)
LEMMA ReadStatusStep ==
  ASSUME FaultInv, ReadStatus
  PROVE  FaultInv'
  <1> USE DEF faultVars, eventVars
  <1>1. /\ pc = "idle" /\ route = <<>> /\ seen' = status /\ unseen' = {}
        /\ UNCHANGED <<faultVars, eventVars, event, masked, route, routes, low, high, reports>>
    BY DEF ReadStatus, Branch
  <1>2. \/ /\ Pending # {} /\ pc' = "low" /\ index' = FaultRecordIndex
           /\ UNCHANGED <<last, awake, rerouted>>
        \/ status # {} /\ pc' = "clear" /\ UNCHANGED <<index, last, awake, rerouted>>
        \/ /\ Clear /\ last' = "none" /\ awake' = FALSE /\ rerouted' = FALSE
           /\ UNCHANGED <<pc, index>>
    BY DEF ReadStatus, Branch
  <1>3. pc' = "low" => index' \in Records /\ record[index'] = ReportCount + 1
    BY <1>1, <1>2, OldestRecord DEF Clear
  <1>4. TypeOK' /\ last' # "Err"
    <2>1. index' \in Records /\ pc' \in {"idle", "low", "high", "record", "clear"}
      BY <1>1, <1>2, <1>3 DEF FaultInv, TypeOK
    <2>2. last' \in StatusBits \union {"none", "primary", "Err"} /\ last' # "Err"
      BY <1>2 DEF FaultInv, TypeOK
    <2>3. awake' \in BOOLEAN /\ rerouted' \in BOOLEAN
      BY <1>2 DEF FaultInv, TypeOK
    <2>4. QED
      BY <1>1, <2>1, <2>2, <2>3 DEF FaultInv, TypeOK
  <1>5. RecordsHold'
    BY <1>1 DEF FaultInv, RecordsHold, ReportCount
  <1>6. PollHolds'
    <2>1. pc' \notin {"high", "record"}
      BY <1>1, <1>2
    <2>2. record' = record /\ ReportCount' = ReportCount
      BY <1>1 DEF ReportCount
    <2>3. QED
      BY <1>3, <2>1, <2>2 DEF PollHolds
  <1>7. StatusHolds'
    BY <1>1, <1>2 DEF StatusHolds
  <1>8. Clear' = Clear /\ Whole' = Whole
    BY <1>1 DEF Clear, Pending, Whole
  <1>9. RouteHolds'
    BY <1>1, <1>8 DEF FaultInv, RouteHolds
  <1>10. WakeupHolds'
    BY <1>1, <1>2, <1>8 DEF FaultInv, WakeupHolds
  <1>11. QED
    BY <1>4, <1>5, <1>6, <1>7, <1>9, <1>10 DEF FaultInv

(* The reads of the record's two halves.                                   *)
LEMMA ReadRecordStep ==
  ASSUME FaultInv, ReadLow \/ ReadHigh
  PROVE  FaultInv'
  <1> USE DEF faultVars, eventVars
  <1>1. /\ UNCHANGED <<faultVars, routeVars, eventVars, awake, unseen, seen, index, reports, last>>
        /\ \/ pc = "low" /\ pc' = "high" /\ low' = record[index] /\ high' = high
           \/ pc = "high" /\ pc' = "record" /\ high' = record[index] /\ low' = low
    BY DEF ReadLow, ReadHigh
  <1>2. index \in Records /\ record[index] \in 0 .. MaxFaults
    BY DEF FaultInv, TypeOK
  <1>3. TypeOK' /\ last' # "Err"
    <2>1. low' \in 0 .. MaxFaults /\ high' \in 0 .. MaxFaults
      BY <1>1, <1>2 DEF FaultInv, TypeOK
    <2>2. pc' \in {"idle", "low", "high", "record", "clear"}
      BY <1>1
    <2>3. QED
      BY <1>1, <2>1, <2>2 DEF FaultInv, TypeOK, routeVars
  <1>4. RecordsHold'
    BY <1>1 DEF FaultInv, RecordsHold, ReportCount
  <1>5. PollHolds'
    BY <1>1 DEF FaultInv, PollHolds, ReportCount
  <1>6. StatusHolds'
    BY <1>1 DEF FaultInv, StatusHolds
  <1>7. RouteHolds'
    BY <1>1, RouteFrame
  <1>8. WakeupHolds'
    BY <1>1 DEF FaultInv, WakeupHolds, Clear, Pending, routeVars
  <1>9. QED
    BY <1>3, <1>4, <1>5, <1>6, <1>7, <1>8 DEF FaultInv

(* Clearing a field keeps what the handler was told of the others.         *)
LEMMA SettleWakes ==
  ASSUME FaultInv, ~Clear, Settle, UNCHANGED routeVars, UNCHANGED awake
  PROVE  held' \in BOOLEAN /\ inbox' \in BOOLEAN /\ WakeupHolds'
  <1>1. held' \in BOOLEAN /\ inbox' \in BOOLEAN
    BY DEF Settle, FaultInv, TypeOK
  <1>2. ASSUME ~Clear' PROVE held' = held
    BY <1>2 DEF Settle, FaultInv, TypeOK
  <1>3. QED
    BY <1>1, <1>2 DEF Settle, FaultInv, WakeupHolds, routeVars

(* The oldest record is reported and its register freed.                   *)
LEMMA ClearRecordStep ==
  ASSUME FaultInv, ClearRecord
  PROVE  FaultInv'
  <1> DEFINE n == ReportCount
  <1>1. /\ pc = "record" /\ pc' = "idle" /\ Settle
        /\ UNCHANGED <<slot, recorded, raises, status, routeVars, awake, unseen>>
        /\ seen' = {} /\ index' = 0 /\ low' = 0 /\ high' = 0
    BY DEF ClearRecord, TakeRecord
  <1>2. /\ n \in Nat /\ recorded \in Nat /\ RecordCount \in Nat \ {0} /\ MaxFaults \in Nat
        /\ \A i \in Records : record[i] \in Nat
    BY Counted, UnitAssumption
  <1>3. record[index] = n + 1 /\ low = n + 1 /\ high = n + 1 /\ index \in Records
    BY <1>1 DEF FaultInv, PollHolds, TypeOK
  <1>4. n + 1 \in n + 1 .. recorded
    BY <1>2, <1>3 DEF FaultInv, RecordsHold
  <1>5. /\ record' = [record EXCEPT ![index] = 0]
        /\ reports' = Append(reports, DecodePrimary(n + 1, n + 1))
        /\ last' = "primary"
    BY <1>2, <1>3 DEF ClearRecord, TakeRecord
  <1>6. DecodePrimary(n + 1, n + 1) \in [iova : Nat, source : Nat]
    BY <1>2 DEF DecodePrimary
  <1>7. /\ reports' \in Seq([iova : Nat, source : Nat]) /\ n' = n + 1
        /\ \A k \in 1 .. n : reports'[k] = reports[k]
        /\ reports'[n + 1] = DecodePrimary(n + 1, n + 1)
    <2>1. reports \in Seq([iova : Nat, source : Nat])
      BY DEF FaultInv, RecordsHold
    <2>2. QED
      BY <1>5, <1>6, <2>1, AppendProperties DEF ReportCount
  <1>8. /\ record' \in [Records -> 0 .. MaxFaults] /\ record'[index] = 0
        /\ \A i \in Records \ {index} : record'[i] = record[i]
    BY <1>2, <1>3, <1>5 DEF FaultInv, TypeOK
  <1> HIDE DEF n
  <1>9. ~Clear
    BY <1>2, <1>3 DEF Clear, Pending
  <1>10. TypeOK' /\ last' # "Err"
    <2>1. 0 \in Records /\ 0 \in 0 .. MaxFaults
      BY <1>2 DEF Records
    <2>2. QED
      BY <1>1, <1>5, <1>8, <1>9, <2>1, SettleWakes DEF FaultInv, TypeOK, routeVars
  <1>11. RecordsHold'
    <2>1. \A i \in Records : record'[i] # 0 => record'[i] \in n + 2 .. recorded
      <3>1. ASSUME NEW i \in Records, record'[i] # 0 PROVE record'[i] \in n + 2 .. recorded
        <4>1. i # index /\ record'[i] = record[i]
          BY <1>8, <3>1
        <4>2. record[i] \in n + 1 .. recorded
          BY <3>1, <4>1 DEF FaultInv, RecordsHold, n
        <4>3. record[i] # n + 1
          BY <1>2, <1>3, <4>1 DEF FaultInv, RecordsHold
        <4>4. QED
          BY <1>2, <4>1, <4>2, <4>3
      <3>2. QED
        BY <3>1
    <2>2. \A i, j \in Records : record'[i] # 0 /\ record'[i] = record'[j] => i = j
      BY <1>8 DEF FaultInv, RecordsHold
    <2>3. ASSUME NEW k \in n + 2 .. recorded PROVE \E i \in Records : record'[i] = k
      <3>1. k \in n + 1 .. recorded /\ k # n + 1
        BY <1>2
      <3>2. PICK i \in Records : record[i] = k
        BY <3>1 DEF FaultInv, RecordsHold, n
      <3>3. QED
        BY <1>3, <1>8, <3>1, <3>2
    <2>4. \A k \in 1 .. n + 1 : reports'[k] = DecodePrimary(k, k)
      <3>1. ASSUME NEW k \in 1 .. n + 1 PROVE reports'[k] = DecodePrimary(k, k)
        <4>1. CASE k = n + 1
          BY <1>7, <4>1
        <4>2. CASE k \in 1 .. n
          BY <1>7, <4>2 DEF FaultInv, RecordsHold, n
        <4>3. QED
          BY <1>2, <4>1, <4>2
      <3>2. QED
        BY <3>1
    <2>5. n + 1 <= recorded /\ (n + 1) + 1 = n + 2
      BY <1>2, <1>4
    <2>6. QED
      BY <1>1, <1>7, <2>1, <2>2, <2>3, <2>4, <2>5 DEF RecordsHold, n
  <1>12. PollHolds' /\ StatusHolds'
    BY <1>1 DEF FaultInv, PollHolds, StatusHolds
  <1>13. RouteHolds' /\ WakeupHolds'
    BY <1>1, <1>9, RouteFrame, SettleWakes
  <1>14. QED
    BY <1>10, <1>11, <1>12, <1>13 DEF FaultInv

(* The status bits read are cleared; what was raised since stays.          *)
LEMMA ClearStatusStep ==
  ASSUME FaultInv, ClearStatus
  PROVE  FaultInv'
  <1>1. /\ pc = "clear" /\ pc' = "idle" /\ Settle /\ last' = Reason(seen)
        /\ status' = status \ seen /\ seen' = {}
        /\ UNCHANGED <<record, slot, recorded, raises, routeVars, awake, unseen,
                       index, low, high, reports>>
    BY DEF ClearStatus, Cleared
  <1>2. seen # {} /\ seen \subseteq status /\ unseen \intersect seen = {} /\ seen \subseteq StatusBits
    BY <1>1 DEF FaultInv, StatusHolds, TypeOK
  <1>3. ~Clear
    BY <1>2 DEF Clear
  <1>4. last' \in StatusBits /\ last' # "Err"
    BY <1>1, <1>2, ReasonIsBit, StatusBitsListed
  <1>5. TypeOK'
    BY <1>1, <1>3, <1>4, SettleWakes DEF FaultInv, TypeOK, routeVars
  <1>6. RecordsHold' /\ PollHolds'
    BY <1>1 DEF FaultInv, RecordsHold, PollHolds, ReportCount
  <1>7. StatusHolds'
    BY <1>1, <1>2 DEF FaultInv, StatusHolds
  <1>8. RouteHolds' /\ WakeupHolds'
    BY <1>1, <1>3, RouteFrame, SettleWakes
  <1>9. QED
    BY <1>4, <1>5, <1>6, <1>7, <1>8 DEF FaultInv

-----------------------------------------------------------------------------
(* Steps of configure_fault_event and of the handler.                      *)

(* What a step that leaves the records, the status and the poll alone      *)
(* keeps.                                                                  *)
LEMMA PollFrame ==
  ASSUME FaultInv, UNCHANGED <<faultVars, pollVars, unseen>>
  PROVE  /\ RecordsHold' /\ PollHolds' /\ StatusHolds' /\ last' # "Err"
         /\ Clear' = Clear
  <1>1. UNCHANGED <<record, slot, recorded, raises, status, pc, seen, index, low, high, reports,
                    last, unseen>>
    BY DEF faultVars, pollVars
  <1>2. RecordsHold' /\ PollHolds'
    BY <1>1 DEF FaultInv, RecordsHold, PollHolds, ReportCount
  <1>3. StatusHolds' /\ last' # "Err"
    BY <1>1 DEF FaultInv, StatusHolds
  <1>4. Clear' = Clear
    BY <1>1 DEF Clear, Pending
  <1>5. QED
    BY <1>2, <1>3, <1>4

(* Masking the event: what it would have said is known to the handler.     *)
LEMMA DisabledStep ==
  ASSUME FaultInv, ConfigureDisabled
  PROVE  FaultInv'
  <1>1. /\ route = <<>> /\ masked' = TRUE /\ routes < MaxRoutes /\ routes' = routes + 1
        /\ UNCHANGED <<faultVars, pollVars, eventVars, awake, unseen, event, route, rerouted>>
    BY DEF ConfigureDisabled, Configure
  <1>2. TypeOK'
    <2>1. routes' \in 0 .. MaxRoutes
      BY <1>1, UnitAssumption DEF FaultInv, TypeOK
    <2>2. QED
      BY <1>1, <2>1 DEF FaultInv, TypeOK, faultVars, pollVars, eventVars
  <1>3. RouteHolds'
    BY <1>1 DEF RouteHolds
  <1>4. WakeupHolds'
    BY <1>1, PollFrame DEF FaultInv, WakeupHolds, eventVars
  <1>5. QED
    BY <1>1, <1>2, <1>3, <1>4, PollFrame DEF FaultInv

(* Routing starts, and is remembered when the event is not masked.         *)
LEMMA ConfigureMsiStep ==
  ASSUME FaultInv, NEW m \in Messages, ConfigureMsi(m)
  PROVE  FaultInv'
  <1>1. /\ routes < MaxRoutes /\ routes' = routes + 1 /\ rerouted' = (rerouted \/ ~masked)
        /\ route' = [k \in DOMAIN Writes |-> [register |-> Writes[k], message |-> m]]
        /\ UNCHANGED <<faultVars, pollVars, eventVars, awake, unseen, event, masked>>
    BY DEF ConfigureMsi, Configure
  <1>2. route' = FourWrites(m) /\ route' # <<>>
    BY <1>1, RouteWrites
  <1>3. TypeOK'
    <2>1. routes' \in 0 .. MaxRoutes /\ rerouted' \in BOOLEAN
      BY <1>1, UnitAssumption DEF FaultInv, TypeOK
    <2>2. QED
      BY <1>1, <2>1 DEF FaultInv, TypeOK, faultVars, pollVars, eventVars
  <1>4. RouteHolds'
    BY <1>1, <1>2 DEF RouteHolds
  <1>5. WakeupHolds'
    BY <1>1, PollFrame DEF FaultInv, WakeupHolds, eventVars
  <1>6. QED
    BY <1>1, <1>3, <1>4, <1>5, PollFrame DEF FaultInv

(* A part of the message is written.                                       *)
LEMMA WritePartStep ==
  ASSUME FaultInv, WriteRoute, Head(route).register # "FECTL"
  PROVE  FaultInv'
  <1>1. /\ route # <<>> /\ route' = Tail(route)
        /\ event' = [event EXCEPT ![Head(route).register] = Head(route).message]
        /\ UNCHANGED <<faultVars, pollVars, eventVars, masked, routes, rerouted, awake, unseen>>
    BY DEF WriteRoute
  <1>2. PICK m \in Messages :
          \/ route = FourWrites(m)
          \/ route = ThreeWrites(m) /\ event["FEDATA"] = m
          \/ route = TwoWrites(m) /\ event["FEDATA"] = m /\ event["FEADDR"] = m
          \/ route = OneWrite(m)
    BY <1>1 DEF FaultInv, RouteHolds
  <1>3. \A r : Write(r, m).register = r /\ Write(r, m).message = m
    BY DEF Write
  <1>4. event \in [Parts -> Messages \union {Reset}] /\ {"FEDATA", "FEADDR", "FEUADDR"} = Parts
    BY DEF FaultInv, TypeOK, Parts
  <1>5. /\ event' \in [Parts -> Messages \union {Reset}]
        /\ \/ route' = ThreeWrites(m) /\ event'["FEDATA"] = m
           \/ route' = TwoWrites(m) /\ event'["FEDATA"] = m /\ event'["FEADDR"] = m
           \/ route' = OneWrite(m) /\ \A p \in Parts : event'[p] = m
    <2>1. CASE route = FourWrites(m)
      <3>1. Head(route) = Write("FEDATA", m) /\ Tail(route) = ThreeWrites(m)
        BY <2>1, RouteWrites
      <3>2. event' = [event EXCEPT !["FEDATA"] = m] /\ route' = ThreeWrites(m)
        BY <1>1, <1>3, <3>1
      <3>3. QED
        BY <1>4, <3>2
    <2>2. CASE route = ThreeWrites(m) /\ event["FEDATA"] = m
      <3>1. Head(route) = Write("FEADDR", m) /\ Tail(route) = TwoWrites(m)
        BY <2>2, RouteWrites
      <3>2. event' = [event EXCEPT !["FEADDR"] = m] /\ route' = TwoWrites(m)
        BY <1>1, <1>3, <3>1
      <3>3. QED
        BY <1>4, <2>2, <3>2
    <2>3. CASE route = TwoWrites(m) /\ event["FEDATA"] = m /\ event["FEADDR"] = m
      <3>1. Head(route) = Write("FEUADDR", m) /\ Tail(route) = OneWrite(m)
        BY <2>3, RouteWrites
      <3>2. event' = [event EXCEPT !["FEUADDR"] = m] /\ route' = OneWrite(m)
        BY <1>1, <1>3, <3>1
      <3>3. QED
        BY <1>4, <2>3, <3>2
    <2>4. CASE route = OneWrite(m)
      BY <1>3, <2>4, RouteWrites
    <2>5. QED
      BY <1>2, <2>1, <2>2, <2>3, <2>4
  <1>6. route' # <<>>
    BY <1>5, RouteWrites
  <1>7. TypeOK'
    BY <1>1, <1>5 DEF FaultInv, TypeOK, faultVars, pollVars, eventVars
  <1>8. RouteHolds'
    <2>1. ~masked' => rerouted'
      BY <1>1 DEF FaultInv, RouteHolds
    <2>2. QED
      BY <1>5, <1>6, <2>1 DEF RouteHolds
  <1>9. WakeupHolds'
    BY <1>1, PollFrame DEF FaultInv, WakeupHolds, eventVars
  <1>10. QED
    BY <1>1, <1>7, <1>8, <1>9, PollFrame DEF FaultInv

(* FECTL is written last: the message is whole when the event is unmasked, *)
(* and a held message goes out.                                            *)
LEMMA UnmaskStep ==
  ASSUME FaultInv, WriteRoute, Head(route).register = "FECTL"
  PROVE  FaultInv'
  <1>1. /\ route # <<>> /\ route' = Tail(route) /\ masked' = FALSE /\ held' = FALSE
        /\ inbox' = (inbox \/ (held /\ Whole)) /\ event' = event
        /\ UNCHANGED <<faultVars, pollVars, routes, rerouted, awake, unseen>>
    BY DEF WriteRoute
  <1>2. PICK m \in Messages : route = OneWrite(m) /\ \A p \in Parts : event[p] = m
    <2>1. PICK m \in Messages :
            \/ route = FourWrites(m) \/ route = ThreeWrites(m) \/ route = TwoWrites(m)
            \/ route = OneWrite(m) /\ \A p \in Parts : event[p] = m
      BY <1>1 DEF FaultInv, RouteHolds
    <2>2. /\ Head(FourWrites(m)).register = "FEDATA" /\ Head(ThreeWrites(m)).register = "FEADDR"
          /\ Head(TwoWrites(m)).register = "FEUADDR"
      BY RouteWrites DEF Write
    <2>3. QED
      BY <2>1, <2>2
  <1>3. route' = <<>> /\ Whole /\ Whole'
    BY <1>1, <1>2, RouteWrites DEF Whole
  <1>4. TypeOK'
    <2>1. inbox' \in BOOLEAN
      BY <1>1 DEF FaultInv, TypeOK
    <2>2. QED
      BY <1>1, <2>1 DEF FaultInv, TypeOK, faultVars, pollVars
  <1>5. RouteHolds'
    BY <1>3 DEF RouteHolds
  <1>6. WakeupHolds'
    BY <1>1, <1>3, PollFrame DEF FaultInv, WakeupHolds
  <1>7. QED
    BY <1>1, <1>4, <1>5, <1>6, PollFrame DEF FaultInv

(* The handler takes a message and is awake.                               *)
LEMMA WakeStep ==
  ASSUME FaultInv, Wake
  PROVE  FaultInv'
  <1>1. /\ inbox' = FALSE /\ awake' = TRUE
        /\ UNCHANGED <<faultVars, pollVars, routeVars, held, unseen>>
    BY DEF Wake
  <1>2. TypeOK'
    BY <1>1 DEF FaultInv, TypeOK, faultVars, pollVars, routeVars
  <1>3. QED
    BY <1>1, <1>2, PollFrame, RouteFrame DEF FaultInv, WakeupHolds

-----------------------------------------------------------------------------
(* Fault reporting starts in the inductive invariant and no step leaves    *)
(* it.                                                                     *)
THEOREM FaultInvariance == Spec => []FaultInv
  <1>1. Init => FaultInv
    <2> SUFFICES ASSUME Init PROVE FaultInv
      OBVIOUS
    <2>1. 0 \in Records /\ MaxFaults \in Nat /\ MaxRaises \in Nat /\ MaxRoutes \in Nat
      BY UnitAssumption DEF Records
    <2>2. TypeOK /\ last # "Err"
      <3>1. record \in [Records -> 0 .. MaxFaults] /\ event \in [Parts -> Messages \union {Reset}]
        BY <2>1 DEF Init
      <3>2. /\ slot \in Records /\ recorded \in 0 .. MaxFaults /\ raises \in 0 .. MaxRaises
            /\ index \in Records /\ low \in 0 .. MaxFaults /\ high \in 0 .. MaxFaults
            /\ routes \in 0 .. MaxRoutes
        BY <2>1 DEF Init
      <3>3. /\ status \subseteq StatusBits /\ seen \subseteq StatusBits /\ unseen \subseteq StatusBits
            /\ pc = "idle" /\ last = "none"
            /\ {masked, held, inbox, awake, rerouted} \subseteq BOOLEAN
        BY DEF Init
      <3>4. QED
        BY <3>1, <3>2, <3>3 DEF TypeOK
    <2>3. reports = <<>> /\ ReportCount = 0 /\ reports \in Seq([iova : Nat, source : Nat])
      BY DEF Init, ReportCount
    <2>4. RecordsHold
      BY <2>3 DEF Init, RecordsHold
    <2>5. PollHolds /\ StatusHolds /\ RouteHolds
      BY DEF Init, PollHolds, StatusHolds, RouteHolds
    <2>6. WakeupHolds
      BY DEF Init, WakeupHolds, Clear, Pending
    <2>7. QED
      BY <2>2, <2>4, <2>5, <2>6 DEF FaultInv
  <1>2. ASSUME FaultInv, [Next]_vars PROVE FaultInv'
    <2>1. CASE Poll
      BY <1>2, <2>1, ReadStatusStep, ReadRecordStep, ClearRecordStep, ClearStatusStep DEF Poll
    <2>2. CASE WriteRoute
      BY <1>2, <2>2, WritePartStep, UnmaskStep
    <2>3. CASE ConfigureDisabled \/ \E m \in Messages : ConfigureMsi(m)
      BY <1>2, <2>3, DisabledStep, ConfigureMsiStep
    <2>4. CASE RecordFault \/ \E b \in Raisable : RaiseStatus(b)
      BY <1>2, <2>4, UnitStep
    <2>5. CASE Wake
      BY <1>2, <2>5, WakeStep
    <2>6. CASE UNCHANGED vars
      <3>1. UNCHANGED <<faultVars, pollVars, routeVars, eventVars, awake, unseen>>
        BY <2>6 DEF vars
      <3>2. TypeOK'
        BY <1>2, <3>1 DEF FaultInv, TypeOK, faultVars, pollVars, routeVars, eventVars
      <3>3. QED
        BY <1>2, <3>1, <3>2, PollFrame, RouteFrame DEF FaultInv, WakeupHolds, routeVars, eventVars
    <2>7. QED
      BY <1>2, <2>1, <2>2, <2>3, <2>4, <2>5, <2>6 DEF Next
  <1>3. QED
    BY <1>1, <1>2, PTL DEF Spec

(* poll_fault returns the recorded faults in order, each once and in one   *)
(* piece, for a ring of any size.                                          *)
THEOREM FaultsInOrder == Spec => []FaultsFifo
  <1>1. FaultInv => FaultsFifo
    <2> SUFFICES ASSUME FaultInv PROVE FaultsFifo
      OBVIOUS
    <2>1. {record[i] : i \in Pending} = ReportCount + 1 .. recorded
      <3>1. \A i \in Pending : record[i] \in ReportCount + 1 .. recorded
        BY DEF Pending, FaultInv, RecordsHold
      <3>2. ASSUME NEW k \in ReportCount + 1 .. recorded
            PROVE  \E i \in Pending : record[i] = k
        <4>1. PICK i \in Records : record[i] = k
          BY DEF FaultInv, RecordsHold
        <4>2. k # 0
          BY Counted
        <4>3. QED
          BY <4>1, <4>2 DEF Pending
      <3>3. QED
        BY <3>1, <3>2
    <2>2. \A k \in DOMAIN reports : reports[k] = DecodePrimary(k, k)
      BY Counted DEF FaultInv, RecordsHold
    <2>3. QED
      BY <2>1, <2>2 DEF FaultsFifo, FaultInv, ReportCount
  <1>2. QED
    BY <1>1, FaultInvariance, PTL

(* clear_fault_status clears no bit raised since its poll read the status. *)
THEOREM UnseenBitsStay == Spec => []UnseenStays
  <1>1. FaultInv => UnseenStays
    BY DEF FaultInv, StatusHolds, UnseenStays
  <1>2. QED
    BY <1>1, FaultInvariance, PTL

(* While the event is routed, a handler that polls until None is awake or  *)
(* has a message coming whenever something is set, unless the event was    *)
(* routed unmasked since the last None.                                    *)
THEOREM WakeupIsNotLost == Spec => []NoLostWakeup
  <1>1. FaultInv => NoLostWakeup
    BY DEF FaultInv, WakeupHolds, NoLostWakeup
  <1>2. QED
    BY <1>1, FaultInvariance, PTL

-----------------------------------------------------------------------------
(* Entries and messages.                                                   *)

(* What from_target builds names a source and is present; an entry that    *)
(* names none is a disabled one.                                           *)
LEMMA RemapsArePresent ==
  ASSUME NEW r \in Remaps
  PROVE  /\ r.high \notin {AnySource, "nothing"}
         /\ r.low # NotPresent /\ r.low.vector # 0
         /\ r # Disabled
  <1>1. PICK d \in Deliveries : Accepted(d) /\ r = FromTarget(d)
    BY DEF Remaps
  <1>2. d.vector \in Nat /\ d.vector >= 32 /\ d.source \notin {AnySource, "nothing"}
    BY <1>1, RemapAssumption DEF Accepted, MinExternal
  <1>3. r.low.vector = d.vector /\ r.high = d.source
    BY <1>1 DEF FromTarget
  <1>4. NotPresent.vector = 0
    BY DEF NotPresent
  <1>5. r.low # NotPresent
    BY <1>2, <1>3, <1>4
  <1>6. Disabled.low = NotPresent
    BY DEF Disabled
  <1>7. QED
    BY <1>2, <1>3, <1>5, <1>6

(* Every entry a call writes is one of the words' pairs.                   *)
LEMMA WrittenAreWords ==
  /\ Written \subseteq Words /\ Disabled \in Words
  /\ \A r \in Written : r.low \in {x.low : x \in Written} /\ r.high \in {x.high : x \in Written}
  <1>1. \A r \in Written : r = [low |-> r.low, high |-> r.high]
    BY DEF Written, Remaps, FromTarget, Disabled
  <1>2. QED
    BY <1>1 DEF Written, Words

(* An index and the message that carries it: handle and its top bit give   *)
(* the index back, when no subhandle is added.                             *)
LEMMA MessageNamesEntry ==
  ASSUME NEW e \in Indices
  PROVE  IndexOf(Message(e, 0)) = e
  <1> DEFINE q == e \div HalfRange
             r == e % HalfRange
  <1>1. e \in Nat /\ HalfRange \in Nat \ {0} /\ e < 2 * HalfRange
    BY RemapAssumption DEF Indices
  <1>2. q \in Nat /\ r \in 0 .. HalfRange - 1 /\ e = HalfRange * q + r
    BY <1>1
  <1> HIDE DEF q, r
  <1>3. q = 0 \/ q = 1
    <2>1. q >= 2 => HalfRange * q >= HalfRange * 2
      BY <1>1, <1>2
    <2>2. QED
      BY <1>1, <1>2, <2>1
  <1>4. q % 2 = q
    BY <1>3
  <1>5. IndexOf(Message(e, 0)) = (r + q * HalfRange + 0) % (2 * HalfRange)
    BY <1>4 DEF IndexOf, Message, q, r
  <1>6. r + q * HalfRange + 0 = e
    BY <1>1, <1>2
  <1>7. e % (2 * HalfRange) = e
    BY <1>1
  <1>8. QED
    BY <1>5, <1>6, <1>7

-----------------------------------------------------------------------------
(* What the steps do to memory.                                            *)

(* A call in progress names an entry of a table.                           *)
LEMMA CallInProgress ==
  ASSUME RemapInv, op # Idle
  PROVE  /\ op \in Calls /\ op.table \in Tables /\ op.entry \in Indices
         /\ op.remap \in Written
  <1>1. op \in Calls
    BY DEF RemapInv, RemapTypeOK
  <1>2. op.table \in Tables /\ op.remap \in Written
    BY <1>1 DEF Calls
  <1>3. op.entry \in UsedEntries
    BY <1>1 DEF Calls
  <1>4. UsedEntries \subseteq Indices
    BY RemapAssumption
  <1>5. QED
    BY <1>1, <1>2, <1>3, <1>4

(* The first word write_128 writes is the low one.                         *)
LEMMA WriteFirstEffect ==
  ASSUME RemapInv, WriteFirst
  PROVE  /\ memory' \in [Tables -> [Indices -> Words]]
         /\ \A t \in Tables, i \in Indices :
              memory'[t][i] = IF t = op.table /\ i = op.entry
                              THEN [low |-> op.remap.low, high |-> memory[t][i].high]
                              ELSE memory[t][i]
  <1>1. op # Idle
    BY DEF WriteFirst, Idle
  <1>2. op.table \in Tables /\ op.entry \in Indices /\ op.remap \in Written
    BY <1>1, CallInProgress
  <1>3. memory \in [Tables -> [Indices -> Words]]
    BY DEF RemapInv, RemapTypeOK
  <1>4. memory' = [memory EXCEPT ![op.table][op.entry]["low"] = op.remap["low"]]
    BY DEF WriteFirst, WriteWord, WordOrder
  <1>5. op.remap.low \in {x.low : x \in Written}
    BY <1>2
  <1> DEFINE old == memory[op.table][op.entry]
             new == [old EXCEPT !["low"] = op.remap["low"]]
  <1>6. old \in Words
    BY <1>2, <1>3
  <1>7. new = [low |-> op.remap.low, high |-> old.high] /\ new \in Words
    BY <1>5, <1>6 DEF Words
  <1> HIDE DEF new
  <1>8. memory' = [memory EXCEPT ![op.table][op.entry] = new]
    BY <1>2, <1>3, <1>4 DEF new
  <1>9. QED
    BY <1>2, <1>3, <1>7, <1>8

(* The second word is the high one.                                        *)
LEMMA WriteSecondEffect ==
  ASSUME RemapInv, WriteSecond
  PROVE  /\ memory' \in [Tables -> [Indices -> Words]]
         /\ \A t \in Tables, i \in Indices :
              memory'[t][i] = IF t = op.table /\ i = op.entry
                              THEN [low |-> memory[t][i].low, high |-> op.remap.high]
                              ELSE memory[t][i]
  <1>1. op # Idle
    BY DEF WriteSecond, Idle
  <1>2. op.table \in Tables /\ op.entry \in Indices /\ op.remap \in Written
    BY <1>1, CallInProgress
  <1>3. memory \in [Tables -> [Indices -> Words]]
    BY DEF RemapInv, RemapTypeOK
  <1>4. memory' = [memory EXCEPT ![op.table][op.entry]["high"] = op.remap["high"]]
    BY DEF WriteSecond, WriteWord, WordOrder
  <1>5. op.remap.high \in {x.high : x \in Written}
    BY <1>2
  <1> DEFINE old == memory[op.table][op.entry]
             new == [old EXCEPT !["high"] = op.remap["high"]]
  <1>6. old \in Words
    BY <1>2, <1>3
  <1>7. new = [low |-> old.low, high |-> op.remap.high] /\ new \in Words
    BY <1>5, <1>6 DEF Words
  <1> HIDE DEF new
  <1>8. memory' = [memory EXCEPT ![op.table][op.entry] = new]
    BY <1>2, <1>3, <1>4 DEF new
  <1>9. QED
    BY <1>2, <1>3, <1>7, <1>8

-----------------------------------------------------------------------------
(* One lemma per action.                                                   *)

(* Nothing is written before the first call.                               *)
LEMMA InitHolds == ASSUME RemapInit PROVE RemapInv
  <1> USE DEF RemapInit
  <1>1. RemapTypeOK
    BY WrittenAreWords DEF RemapTypeOK
  <1>2. EntryInStep /\ ComposedStands
    BY DEF EntryInStep, ComposedStands
  <1>3. OpenOnlyWhileSet
    BY DEF OpenOnlyWhileSet, Disabled
  <1>4. QED
    BY <1>1, <1>2, <1>3 DEF RemapInv

(* A step that leaves everything alone.                                    *)
LEMMA StutterStep == ASSUME RemapInv, UNCHANGED remapVars PROVE RemapInv'
  BY DEF RemapInv, remapVars, RemapTypeOK, EntryInStep, ComposedStands, OpenOnlyWhileSet

(* set_interrupt_remap_table: promises end with the table they were given  *)
(* for.                                                                    *)
LEMMA SetTableStep ==
  ASSUME RemapInv, NEW t \in Tables, NEW extended \in BOOLEAN, SetTable(t, extended)
  PROVE  RemapInv'
  <1> USE DEF SetTable
  <1>1. RemapTypeOK'
    BY DEF RemapInv, RemapTypeOK
  <1>2. irta'.table # NoTable
    BY RemapAssumption
  <1>3. EntryInStep' /\ OpenOnlyWhileSet'
    BY DEF RemapInv, EntryInStep, OpenOnlyWhileSet
  <1>4. ComposedStands'
    BY DEF RemapInv, ComposedStands
  <1>5. QED
    BY <1>1, <1>2, <1>3, <1>4 DEF RemapInv

(* Turning remapping on or off.                                            *)
LEMMA SetRemappingStep ==
  ASSUME RemapInv, NEW on \in BOOLEAN, SetRemapping(on)
  PROVE  RemapInv'
  BY DEF SetRemapping, RemapInv, RemapTypeOK, EntryInStep, ComposedStands, OpenOnlyWhileSet

(* A call begins: it withdraws the promise of its entry.                   *)
LEMMA CallStep ==
  ASSUME RemapInv, NEW kind \in {"write", "compose"}, NEW t \in Tables, NEW i \in UsedEntries,
         NEW s \in Subhandles \union {0}, NEW remap \in Written, Call(kind, t, i, s, remap)
  PROVE  RemapInv'
  <1> USE DEF Call, hwVars
  <1>1. i \in Indices
    BY RemapAssumption
  <1>2. op' \in Calls
    BY DEF Calls
  <1>3. /\ DOMAIN issued' = Indices /\ issued'[i] = Nothing
        /\ \A e \in Indices \ {i} : issued'[e] = issued[e]
    BY <1>1 DEF RemapInv, RemapTypeOK
  <1>4. RemapTypeOK'
    BY <1>2, <1>3 DEF RemapInv, RemapTypeOK
  <1>5. EntryInStep'
    BY <1>3 DEF EntryInStep
  <1>6. OpenOnlyWhileSet'
    BY DEF RemapInv, OpenOnlyWhileSet
  <1>7. ComposedStands'
    BY <1>3 DEF RemapInv, ComposedStands
  <1>8. QED
    BY <1>4, <1>5, <1>6, <1>7 DEF RemapInv

(* The low word is written.  The entry may now be present with the source  *)
(* word of before, the only moment an entry can be open.                   *)
LEMMA WriteFirstStep ==
  ASSUME RemapInv, WriteFirst
  PROVE  RemapInv'
  <1> USE DEF WriteFirst, hwVars
  <1>1. op # Idle /\ op \in Calls /\ op.step = "first"
    BY CallInProgress DEF Idle
  <1>2. op.table \in Tables /\ op.entry \in Indices /\ op.remap \in Written
    BY <1>1, CallInProgress
  <1>3. /\ op' \in Calls /\ op' # Idle /\ op'.step = "second"
        /\ op'.table = op.table /\ op'.entry = op.entry /\ op'.remap = op.remap
    BY <1>1 DEF Calls, Idle
  <1>4. /\ memory' \in [Tables -> [Indices -> Words]]
        /\ memory'[op.table][op.entry].low = op.remap.low
        /\ \A t \in Tables, i \in Indices :
             t # op.table \/ i # op.entry => memory'[t][i] = memory[t][i]
    <2>1. memory'[op.table][op.entry]
            = [low |-> op.remap.low, high |-> memory[op.table][op.entry].high]
      BY <1>2, WriteFirstEffect
    <2>2. memory'[op.table][op.entry].low = op.remap.low
      BY <2>1
    <2>3. QED
      BY <1>2, <2>2, WriteFirstEffect
  <1>5. RemapTypeOK'
    BY <1>3, <1>4 DEF RemapInv, RemapTypeOK
  <1>6. EntryInStep'
    BY <1>1, <1>3, <1>4 DEF RemapInv, EntryInStep
  <1>7. OpenOnlyWhileSet'
    <2> SUFFICES ASSUME NEW t \in Tables, NEW i \in Indices,
                        memory'[t][i].low # NotPresent, memory'[t][i].high = AnySource
                 PROVE  t = op.table /\ i = op.entry /\ op.remap # Disabled
      BY <1>3 DEF OpenOnlyWhileSet
    <2>1. t = op.table /\ i = op.entry
      BY <1>1, <1>4 DEF RemapInv, OpenOnlyWhileSet
    <2>2. op.remap.low # NotPresent
      BY <2>1, <1>4
    <2>3. QED
      BY <2>1, <2>2 DEF Disabled
  <1>8. ComposedStands'
    BY <1>1, <1>4 DEF RemapInv, EntryInStep, ComposedStands
  <1>9. QED
    BY <1>5, <1>6, <1>7, <1>8 DEF RemapInv

(* The high word is written: the entry is the one the call was given.      *)
LEMMA WriteSecondStep ==
  ASSUME RemapInv, WriteSecond
  PROVE  RemapInv'
  <1> USE DEF WriteSecond, hwVars
  <1>1. op # Idle /\ op \in Calls /\ op.step = "second"
    BY CallInProgress DEF Idle
  <1>2. op.table \in Tables /\ op.entry \in Indices /\ op.remap \in Written
    BY <1>1, CallInProgress
  <1>3. \/ op' = Idle
        \/ /\ op' \in Calls /\ op'.step = "submit"
           /\ op'.table = op.table /\ op'.entry = op.entry /\ op'.remap = op.remap
    BY <1>1 DEF Calls
  <1>4. /\ memory' \in [Tables -> [Indices -> Words]]
        /\ memory'[op.table][op.entry] = [low |-> op.remap.low, high |-> op.remap.high]
        /\ \A t \in Tables, i \in Indices :
             t # op.table \/ i # op.entry => memory'[t][i] = memory[t][i]
    BY <1>1, <1>2, WriteSecondEffect DEF RemapInv, EntryInStep
  <1>5. [low |-> op.remap.low, high |-> op.remap.high] = op.remap
    BY <1>2 DEF Written, Remaps, FromTarget, Disabled
  <1>6. RemapTypeOK'
    BY <1>3, <1>4 DEF RemapInv, RemapTypeOK
  <1>7. EntryInStep'
    BY <1>1, <1>3, <1>4, <1>5 DEF RemapInv, EntryInStep
  <1>8. OpenOnlyWhileSet'
    <2>1. op.remap.low = NotPresent \/ op.remap.high # AnySource
      BY <1>2, RemapsArePresent DEF Written, Disabled
    <2> SUFFICES ASSUME NEW t \in Tables, NEW i \in Indices,
                        memory'[t][i].low # NotPresent, memory'[t][i].high = AnySource
                 PROVE  FALSE
      BY DEF OpenOnlyWhileSet
    <2>2. CASE t = op.table /\ i = op.entry
      BY <2>1, <2>2, <1>4
    <2>3. CASE t # op.table \/ i # op.entry
      BY <2>3, <1>4 DEF RemapInv, OpenOnlyWhileSet
    <2>4. QED
      BY <2>2, <2>3
  <1>9. ComposedStands'
    BY <1>1, <1>4 DEF RemapInv, EntryInStep, ComposedStands
  <1>10. QED
    BY <1>6, <1>7, <1>8, <1>9 DEF RemapInv

(* A submission: the cache drops the entry or keeps what it has, and what  *)
(* it has not dropped it has yet to fetch.                                 *)
LEMMA SubmissionEffect ==
  ASSUME RemapInv, op # Idle, Done \/ Publish \/ UNCHANGED <<cache, pending>>
  PROVE  /\ cache' \in [Indices -> Words]
         /\ \A i \in Indices : cache'[i] \in {cache[i], Disabled}
         /\ pending \subseteq pending' /\ pending' \subseteq Indices \union {Other}
         /\ Done \/ Publish => op.entry \in pending' \/ cache'[op.entry] = Disabled
  <1>1. op.entry \in Indices
    BY CallInProgress
  <1>2. /\ cache \in [Indices -> Words] /\ Disabled \in Words
        /\ pending \subseteq Indices \union {Other}
    BY WrittenAreWords DEF RemapInv, RemapTypeOK
  <1>3. CASE Done
    BY <1>1, <1>2, <1>3 DEF Done, Drop, Descriptor
  <1>4. CASE Publish
    BY <1>1, <1>2, <1>4 DEF Publish, Descriptor
  <1>5. CASE UNCHANGED <<cache, pending>> /\ ~Done /\ ~Publish
    BY <1>2, <1>5
  <1>6. QED
    BY <1>3, <1>4, <1>5

(* An Ok: the entry is whole in memory, and no longer cached once the      *)
(* invalidation is fetched, so from there on the unit can only fetch the   *)
(* entry the message was composed for.                                     *)
LEMMA SubmitOkStep ==
  ASSUME RemapInv, SubmitOk
  PROVE  RemapInv'
  <1> USE DEF SubmitOk
  <1> DEFINE promised == [message |-> Message(op.entry, op.subhandle), remap |-> op.remap]
  <1>1. op # Idle /\ op.step = "submit"
    BY DEF Idle
  <1>2. op.table \in Tables /\ op.entry \in Indices /\ op.remap \in Written
    BY <1>1, CallInProgress
  <1>3. /\ cache' \in [Indices -> Words]
        /\ op.entry \in pending' \/ cache'[op.entry] = Disabled
        /\ \A i \in Indices : cache'[i] \in {cache[i], Disabled}
        /\ pending \subseteq pending' /\ pending' \subseteq Indices \union {Other}
    BY <1>1, SubmissionEffect
  <1>4. /\ promised.message = Message(op.entry, promised.message.subhandle)
        /\ promised.remap = op.remap
    BY DEF Message
  <1> HIDE DEF promised
  <1>5. /\ DOMAIN issued' = Indices
        /\ \A e \in Indices \ {op.entry} : issued'[e] = issued[e]
        /\ \/ issued'[op.entry] = promised /\ op.table = irta.table
           \/ issued'[op.entry] = Nothing
    <2>1. DOMAIN issued = Indices /\ issued[op.entry] = Nothing
      BY <1>1 DEF RemapInv, RemapTypeOK, EntryInStep
    <2>2. CASE op.table = irta.table
      BY <1>2, <2>1, <2>2 DEF promised
    <2>3. CASE op.table # irta.table
      BY <2>1, <2>3
    <2>4. QED
      BY <2>2, <2>3
  <1>6. RemapTypeOK'
    BY <1>2, <1>3, <1>4, <1>5 DEF RemapInv, RemapTypeOK
  <1>7. EntryInStep' /\ OpenOnlyWhileSet'
    BY <1>1 DEF RemapInv, EntryInStep, OpenOnlyWhileSet
  <1>8. ComposedStands'
    <2> SUFFICES ASSUME NEW e \in Indices, issued'[e] # Nothing
                 PROVE  /\ irta.table \in Tables /\ InTable(irta.table, e)
                        /\ issued'[e].message = Message(e, issued'[e].message.subhandle)
                        /\ memory[irta.table][e] = issued'[e].remap
                        /\ e \in pending' \/ cache'[e] \in {Disabled, issued'[e].remap}
      BY DEF ComposedStands
    <2>1. CASE e = op.entry
      BY <2>1, <1>1, <1>2, <1>3, <1>4, <1>5 DEF RemapInv, EntryInStep
    <2>2. CASE e # op.entry
      BY <2>2, <1>3, <1>5 DEF RemapInv, ComposedStands
    <2>3. QED
      BY <2>1, <2>2
  <1>9. QED
    BY <1>6, <1>7, <1>8 DEF RemapInv

(* An Err: no promise is given, and what the cache dropped is not missed.  *)
LEMMA SubmitErrStep ==
  ASSUME RemapInv, SubmitErr
  PROVE  RemapInv'
  <1> USE DEF SubmitErr
  <1>1. op # Idle /\ op.step = "submit"
    BY DEF Idle
  <1>2. /\ cache' \in [Indices -> Words]
        /\ \A i \in Indices : cache'[i] \in {cache[i], Disabled}
        /\ pending \subseteq pending' /\ pending' \subseteq Indices \union {Other}
    BY <1>1, SubmissionEffect
  <1>3. RemapTypeOK'
    BY <1>2 DEF RemapInv, RemapTypeOK
  <1>4. EntryInStep' /\ OpenOnlyWhileSet'
    BY <1>1 DEF RemapInv, EntryInStep, OpenOnlyWhileSet
  <1>5. ComposedStands'
    BY <1>2 DEF RemapInv, ComposedStands
  <1>6. QED
    BY <1>3, <1>4, <1>5 DEF RemapInv

(* The unit caches what the table in use holds.                            *)
LEMMA FetchStep ==
  ASSUME RemapInv, NEW i \in Indices, Fetch(i)
  PROVE  RemapInv'
  <1> USE DEF Fetch
  <1>1. irta.table \in Tables
    BY DEF RemapInv, RemapTypeOK
  <1>2. /\ cache' \in [Indices -> Words]
        /\ \A e \in Indices : cache'[e] \in {cache[e], memory[irta.table][e]}
    BY <1>1 DEF RemapInv, RemapTypeOK
  <1>3. RemapTypeOK'
    BY <1>2 DEF RemapInv, RemapTypeOK
  <1>4. EntryInStep' /\ OpenOnlyWhileSet'
    BY DEF RemapInv, EntryInStep, OpenOnlyWhileSet
  <1>5. ComposedStands'
    BY <1>2 DEF RemapInv, ComposedStands
  <1>6. QED
    BY <1>3, <1>4, <1>5 DEF RemapInv

(* The unit drops an entry by itself.                                      *)
LEMMA EvictStep ==
  ASSUME RemapInv, NEW i \in Indices, Evict(i)
  PROVE  RemapInv'
  <1> USE DEF Evict, Drop
  <1>1. /\ cache' \in [Indices -> Words]
        /\ \A e \in Indices : cache'[e] \in {cache[e], Disabled}
    BY WrittenAreWords DEF RemapInv, RemapTypeOK
  <1>2. RemapTypeOK'
    BY <1>1 DEF RemapInv, RemapTypeOK
  <1>3. EntryInStep' /\ OpenOnlyWhileSet'
    BY DEF RemapInv, EntryInStep, OpenOnlyWhileSet
  <1>4. ComposedStands'
    BY <1>1 DEF RemapInv, ComposedStands
  <1>5. QED
    BY <1>2, <1>3, <1>4 DEF RemapInv

(* The unit executes an invalidation it had yet to fetch.                  *)
LEMMA ExecuteStep ==
  ASSUME RemapInv, NEW x \in pending, Execute(x)
  PROVE  RemapInv'
  <1> USE DEF Execute
  <1>1. /\ cache \in [Indices -> Words] /\ Disabled \in Words
        /\ pending \subseteq Indices \union {Other}
    BY WrittenAreWords DEF RemapInv, RemapTypeOK
  <1>2. cache' = cache \/ (x \in Indices /\ cache' = [cache EXCEPT ![x] = Disabled])
    BY <1>1 DEF Drop
  <1>3. /\ cache' \in [Indices -> Words]
        /\ \A e \in Indices : cache'[e] \in {cache[e], Disabled}
    BY <1>1, <1>2
  <1>4. ASSUME NEW e \in Indices, e = x
        PROVE  cache'[e] = Disabled
    <2>1. x # Other
      BY <1>4, RemapAssumption DEF Other, Indices
    <2>2. cache' = [cache EXCEPT ![x] = Disabled]
      BY <2>1 DEF Drop
    <2>3. QED
      BY <1>1, <1>4, <2>2
  <1>5. pending' \subseteq pending /\ \A e \in pending : e \in pending' \/ e = x
    OBVIOUS
  <1>6. pending' \subseteq Indices \union {Other}
    BY <1>1, <1>5
  <1>7. RemapTypeOK'
    BY <1>3, <1>6 DEF RemapInv, RemapTypeOK
  <1>8. EntryInStep' /\ OpenOnlyWhileSet'
    BY DEF RemapInv, EntryInStep, OpenOnlyWhileSet
  <1>9. ComposedStands'
    BY <1>3, <1>4, <1>5 DEF RemapInv, ComposedStands
  <1>10. QED
    BY <1>7, <1>8, <1>9 DEF RemapInv

(* The rest of the unit leaves a backlog.                                  *)
LEMMA BacklogStep ==
  ASSUME RemapInv, Backlog
  PROVE  RemapInv'
  <1> USE DEF Backlog
  <1>1. RemapTypeOK'
    BY DEF RemapInv, RemapTypeOK
  <1>2. EntryInStep' /\ OpenOnlyWhileSet'
    BY DEF RemapInv, EntryInStep, OpenOnlyWhileSet
  <1>3. ComposedStands'
    BY DEF RemapInv, ComposedStands
  <1>4. QED
    BY <1>1, <1>2, <1>3 DEF RemapInv

(* A new queue: no promise that rested on a lost descriptor stands.        *)
LEMMA InstallQueueStep ==
  ASSUME RemapInv, InstallQueue
  PROVE  RemapInv'
  <1> USE DEF InstallQueue
  <1>1. /\ DOMAIN issued' = Indices
        /\ \A i \in Indices : issued'[i] = Nothing \/ (issued'[i] = issued[i] /\ i \notin pending)
    OBVIOUS
  <1>2. pending' \subseteq Indices \union {Other}
    OBVIOUS
  <1>3. RemapTypeOK'
    BY <1>1, <1>2 DEF RemapInv, RemapTypeOK
  <1>4. EntryInStep' /\ OpenOnlyWhileSet'
    BY DEF RemapInv, EntryInStep, OpenOnlyWhileSet
  <1>5. ComposedStands'
    BY <1>1 DEF RemapInv, ComposedStands
  <1>6. QED
    BY <1>3, <1>4, <1>5 DEF RemapInv

-----------------------------------------------------------------------------
(* The invariant and what follows from it.                                 *)

(* Every step keeps the invariant.                                         *)
LEMMA NextPreserves == ASSUME RemapInv, [RemapNext]_remapVars PROVE RemapInv'
  <1>1. ASSUME NEW t \in Tables, NEW i \in UsedEntries, WriteEntry(t, i) PROVE RemapInv'
    <2>1. PICK remap \in Remaps : Call("write", t, i, 0, remap)
      BY <1>1 DEF WriteEntry
    <2>2. QED
      BY <2>1, CallStep DEF Written
  <1>2. ASSUME NEW t \in Tables, NEW i \in UsedEntries, ClearEntry(t, i) PROVE RemapInv'
    BY <1>2, CallStep DEF ClearEntry, Written
  <1>3. ASSUME NEW t \in Tables, NEW i \in UsedEntries, NEW s \in Subhandles, Compose(t, i, s)
        PROVE  RemapInv'
    <2>1. PICK remap \in Written : Call("compose", t, i, s, remap)
      BY <1>3 DEF Compose, Written
    <2>2. QED
      BY <2>1, CallStep
  <1>4. ASSUME NEW i \in UsedEntries, Fetch(i) \/ Evict(i) PROVE RemapInv'
    <2>1. i \in Indices
      BY RemapAssumption
    <2>2. QED
      BY <1>4, <2>1, FetchStep, EvictStep
  <1>5. CASE Refuse
    BY <1>5, StutterStep DEF Refuse
  <1>6. QED
    BY <1>1, <1>2, <1>3, <1>4, <1>5, StutterStep, SetTableStep, SetRemappingStep,
      WriteFirstStep, WriteSecondStep, SubmitOkStep, SubmitErrStep, BacklogStep,
      InstallQueueStep, ExecuteStep
      DEF RemapNext

(* RemapInv holds in every reachable state.                                *)
THEOREM RemapInvariance == RemapSpec => []RemapInv
  <1>1. RemapInit => RemapInv
    BY InitHolds
  <1>2. RemapInv /\ [RemapNext]_remapVars => RemapInv'
    BY NextPreserves
  <1>3. QED
    BY <1>1, <1>2, PTL DEF RemapSpec

(* Clearing or overwriting an entry word by word never opens it to every   *)
(* device, whatever tables, entries and deliveries there are.              *)
THEOREM EntriesStayClosed == RemapSpec => []OpenOnlyWhileSet
  <1>1. RemapInv => OpenOnlyWhileSet
    BY DEF RemapInv
  <1>2. QED
    BY <1>1, RemapInvariance, PTL

(* While a promise stands, and its invalidation has been fetched, the unit *)
(* has no other entry to use for it.                                       *)
LEMMA OnlyEntryInUse ==
  ASSUME RemapInv, NEW e \in Indices, issued[e] # Nothing, e \notin pending
  PROVE  InUse(e) = {issued[e].remap}
  <1>1. /\ irta.table \in Tables /\ InTable(irta.table, e)
        /\ memory[irta.table][e] = issued[e].remap
        /\ cache[e] \in {Disabled, issued[e].remap}
    BY DEF RemapInv, ComposedStands
  <1>2. HardwareEntries(irta.table) = EntryCount(irta.table)
    <2>1. SizeBits[irta.table] \in Nat
      BY <1>1, RemapAssumption
    <2>2. IrtaSize(irta.table) + 1 = SizeBits[irta.table]
      BY <2>1 DEF IrtaSize
    <2>3. QED
      BY <2>2 DEF HardwareEntries, EntryCount
  <1>3. e < HardwareEntries(irta.table)
    BY <1>1, <1>2 DEF InTable
  <1>4. QED
    BY <1>1, <1>3 DEF InUse

(* Through the entry composed, its own source and no other is delivered,   *)
(* to its target.                                                          *)
LEMMA OwnSourceOnly ==
  ASSUME NEW r \in Written, NEW s \in Sources
  PROVE  IF s = r.high
         THEN /\ Deliver(r, s) # Blocked
              /\ Deliver(r, s).vector = r.low.vector
              /\ irta.extended => Deliver(r, s).destination = r.low.dst
         ELSE Deliver(r, s) = Blocked
  <1>1. s # AnySource
    BY RemapAssumption DEF Sources
  <1>2. CASE r = Disabled
    BY <1>1, <1>2 DEF Disabled, Deliver
  <1>3. CASE r \in Remaps
    <2>1. r.high # AnySource /\ r.low # NotPresent /\ r.low.vector # 0
      BY <1>3, RemapsArePresent
    <2>2. CASE s = r.high
      <3> DEFINE d == Deliver(r, s)
      <3>1. d = [vector |-> r.low.vector,
                 destination |-> IF irta.extended THEN r.low.dst ELSE r.low.dst \div 2^ApicShift]
        BY <2>1, <2>2 DEF Deliver
      <3>2. d.vector = r.low.vector /\ (irta.extended => d.destination = r.low.dst)
        BY <3>1
      <3>3. Blocked.vector = 0
        BY DEF Blocked
      <3> HIDE DEF d
      <3>4. d # Blocked
        BY <2>1, <3>2, <3>3
      <3>5. QED
        BY <2>2, <3>2, <3>4 DEF d
    <2>3. CASE s # r.high
      BY <2>1, <2>3 DEF Deliver
    <2>4. QED
      BY <2>2, <2>3
  <1>4. QED
    BY <1>2, <1>3 DEF Written

(* compose_interrupt_remap: for every set of tables, entries, sources and  *)
(* deliveries, the message of an Ok whose invalidation has been fetched    *)
(* brings its target's vector (and, in extended mode, destination) for its *)
(* source alone, whatever failed, was cached or was fetched half-written   *)
(* before, until the entry is written again or the table changed.          *)
THEOREM ComposedIsDelivered == RemapSpec => []ComposedDelivered
  <1>1. RemapInv => ComposedDelivered
    <2> SUFFICES ASSUME RemapInv, NEW e \in Indices, issued[e] # Nothing, e \notin pending,
                        issued[e].message.subhandle = 0,
                        NEW w \in InUse(IndexOf(issued[e].message)), NEW s \in Sources
                 PROVE  IF s = issued[e].remap.high
                        THEN /\ Deliver(w, s) # Blocked
                             /\ Deliver(w, s).vector = issued[e].remap.low.vector
                             /\ irta.extended => Deliver(w, s).destination = issued[e].remap.low.dst
                        ELSE Deliver(w, s) = Blocked
      BY DEF ComposedDelivered, RemapInv
    <2>1. issued[e].message = Message(e, 0)
      BY DEF RemapInv, ComposedStands
    <2>2. IndexOf(issued[e].message) = e
      BY <2>1, MessageNamesEntry
    <2>3. w = issued[e].remap
      BY <2>2, OnlyEntryInUse
    <2>4. issued[e].remap \in Written
      BY DEF RemapInv, RemapTypeOK
    <2>5. QED
      BY <2>3, <2>4, OwnSourceOnly
  <1>2. QED
    BY <1>1, RemapInvariance, PTL

=============================================================================
