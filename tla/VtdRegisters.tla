----------------------------- MODULE VtdRegisters -----------------------------
(***************************************************************************)
(* The global command and status registers of one VT-d unit, as driven by  *)
(* VtdRegisterWindow and by VtdUnit::{install_queued_invalidation,         *)
(* enable_translation} of src/src/arch/x86_64/intel/ctrl.rs.               *)
(*                                                                         *)
(* Every change is a transaction: write the table address if there is one, *)
(* read GSTS, write GCMD with one bit of that status changed, poll GSTS.   *)
(* Hardware carries a command out in its own time, all bits together; a    *)
(* command still waiting is replaced by the next.  GCMD and GSTS use the   *)
(* same positions, so a bit has one name here; writing back the status     *)
(* also issues again the table-pointer commands already done.              *)
(***************************************************************************)
EXTENDS Naturals, Sequences

CONSTANTS
  RootTables, \* root tables
  RemapTables,\* interrupt-remapping tables
  UnitRoot,   \* VtdUnit::root_table
  Timeouts    \* whether wait_global_status may run out

ASSUME TablesAssumption == UnitRoot \in RootTables /\ Timeouts \in BOOLEAN

Switches == {"TE", "QIE", "IRE"}
Pointers == {"SRTP", "SIRTP"}
Bits == Switches \union Pointers

NoTable == "no table"
Tables == RootTables \union RemapTables
TablesOf(b) == IF b = "SRTP" THEN RootTables ELSE RemapTables

VARIABLES
  gsts,      \* GSTS
  gcmd,      \* the command hardware has yet to carry out
  pending,   \* whether there is one
  address,   \* RTADDR and IRTA
  latched,   \* the tables hardware uses
  active,    \* queue.is_active()
  todo,      \* transactions and checks left of the operation in progress
  stage,     \* where the first of them is
  seen,      \* the status it read
  promise,   \* history: what the last Ok transaction on each bit promised
  up         \* history: enable_translation returned Ok, nothing undone since

hwVars == <<gsts, pending, latched>>
vars == <<gsts, gcmd, pending, address, latched, active, todo, stage, seen, promise, up>>

Unknown == "unknown"
Turn(b, on) == [bit |-> b, on |-> on, table |-> NoTable]
Point(b, t) == [bit |-> b, on |-> TRUE, table |-> t]
CheckQueue == [bit |-> "check"]
ReturnOk == [bit |-> "return"]
Transactions ==
  {Turn(b, on) : b \in Switches, on \in BOOLEAN} \union {Point(b, t) : b \in Pointers, t \in Tables}

Init ==
  /\ gsts = {} /\ gcmd = {} /\ pending = FALSE
  /\ address = [b \in Pointers |-> NoTable]
  /\ latched = [b \in Pointers |-> NoTable]
  /\ active = FALSE
  /\ todo = <<>> /\ stage = "address" /\ seen = {}
  /\ promise = [b \in Bits |-> Unknown]
  /\ up = FALSE

-----------------------------------------------------------------------------
(* Operations.  Each takes &mut self: one at a time.                       *)

Begin(list) ==
  /\ todo = <<>>
  /\ todo' = list
  /\ stage' = "address"
  /\ UNCHANGED <<hwVars, gcmd, address, seen, promise>>

(* set_translation_enabled, set_queued_invalidation_enabled,               *)
(* set_interrupt_remapping_enabled.                                        *)
SetEnabled(b, on) ==
  /\ Begin(<<Turn(b, on)>>)
  /\ up' = (up /\ (on \/ b = "IRE"))
  /\ UNCHANGED active

(* set_root_entry_table, set_interrupt_remap_table.                        *)
SetTable(b, t) ==
  /\ Begin(<<Point(b, t)>>)
  /\ up' = (up /\ (b = "SIRTP" \/ t = UnitRoot))
  /\ UNCHANGED active

InstallQueuedInvalidation ==
  /\ Begin(<<Turn("QIE", TRUE)>>)
  /\ active' = TRUE
  /\ UNCHANGED up

EnableTranslation ==
  /\ Begin(<<Point("SRTP", UnitRoot), CheckQueue, Turn("TE", TRUE), ReturnOk>>)
  /\ UNCHANGED <<active, up>>

-----------------------------------------------------------------------------
(* The steps of the first transaction of todo.                             *)

first == todo[1]
At(s) == todo # <<>> /\ first.bit \in Bits /\ stage = s

WriteAddress ==
  /\ At("address")
  /\ address' = IF first.bit \in Pointers
                THEN [address EXCEPT ![first.bit] = first.table] ELSE address
  /\ promise' = [promise EXCEPT ![first.bit] = Unknown]
  /\ stage' = "read"
  /\ UNCHANGED <<hwVars, gcmd, active, todo, seen, up>>

ReadStatus ==
  /\ At("read")
  /\ seen' = gsts
  /\ stage' = "command"
  /\ UNCHANGED <<hwVars, gcmd, address, active, todo, promise, up>>

(* The command: the status with one bit changed.                           *)
CommandFromNothing == IF first.on THEN {first.bit} ELSE {}
Command == IF first.on THEN seen \union {first.bit} ELSE seen \ {first.bit}

(* Hardware clears a pointer's status when its command arrives.            *)
WriteCommand ==
  /\ At("command")
  /\ gcmd' = Command
  /\ pending' = TRUE
  /\ gsts' = gsts \ (Pointers \intersect Command)
  /\ stage' = "wait" /\ seen' = {}
  /\ UNCHANGED <<latched, address, active, todo, promise, up>>

(* wait_global_status, and the end of an operation.                        *)
Reached == (first.bit \in gsts) = first.on

Promised == IF first.bit \in Pointers THEN first.table ELSE IF first.on THEN "on" ELSE "off"

WaitOk ==
  /\ At("wait")
  /\ Reached
  /\ promise' = [promise EXCEPT ![first.bit] = Promised]
  /\ todo' = Tail(todo)
  /\ stage' = "address"
  /\ UNCHANGED <<hwVars, gcmd, address, active, seen, up>>

WaitTimeout ==
  /\ At("wait")
  /\ Timeouts /\ ~Reached
  /\ todo' = <<>>
  /\ stage' = "address"
  /\ UNCHANGED <<hwVars, gcmd, address, active, seen, promise, up>>

(* enable_translation: Err without a queue, and QIES is looked at again,   *)
(* because the command that set the root may have been built from a status *)
(* that did not show it yet.                                               *)
CheckQueueOnce ==
  /\ todo # <<>> /\ first = CheckQueue
  /\ todo' = IF active THEN Tail(todo) ELSE <<>>
  /\ UNCHANGED <<hwVars, gcmd, address, active, stage, seen, promise, up>>

CheckQueueStep ==
  /\ todo # <<>> /\ first = CheckQueue
  /\ todo' = CASE ~active -> <<>>
               [] active /\ "QIE" \in gsts -> Tail(todo)
               [] OTHER -> <<Turn("QIE", TRUE)>> \o Tail(todo)
  /\ UNCHANGED <<hwVars, gcmd, address, active, stage, seen, promise, up>>

EnableReturns ==
  /\ todo # <<>> /\ first = ReturnOk
  /\ todo' = <<>>
  /\ up' = TRUE
  /\ UNCHANGED <<hwVars, gcmd, address, active, stage, seen, promise>>

-----------------------------------------------------------------------------
(* Hardware.                                                               *)
CarryOut ==
  /\ pending
  /\ pending' = FALSE /\ gcmd' = {}
  /\ gsts' = gcmd \union (gsts \intersect Pointers)
  /\ latched' = [b \in Pointers |-> IF b \in gcmd THEN address[b] ELSE latched[b]]
  /\ UNCHANGED <<address, active, todo, stage, seen, promise, up>>

Next ==
  \/ \E b \in Switches, on \in BOOLEAN : SetEnabled(b, on)
  \/ \E b \in Pointers : \E t \in TablesOf(b) : SetTable(b, t)
  \/ InstallQueuedInvalidation \/ EnableTranslation
  \/ WriteAddress \/ ReadStatus \/ WriteCommand \/ WaitOk \/ WaitTimeout
  \/ CheckQueueStep \/ EnableReturns
  \/ CarryOut

Spec == Init /\ [][Next]_vars

-----------------------------------------------------------------------------
(* Every variable stays in its domain; a pointer whose status is set has a *)
(* table behind it.                                                        *)
TypeOK ==
  /\ gsts \subseteq Bits /\ gcmd \subseteq Bits /\ pending \in BOOLEAN /\ seen \subseteq Bits
  /\ address \in [Pointers -> Tables \union {NoTable}]
  /\ latched \in [Pointers -> Tables \union {NoTable}]
  /\ \A b \in Pointers \intersect gsts : latched[b] \in Tables
  /\ active \in BOOLEAN /\ up \in BOOLEAN
  /\ todo \in Seq(Transactions \union {CheckQueue, ReturnOk})
  /\ stage \in {"address", "read", "command", "wait"}
  /\ promise \in [Bits -> Tables \union {"on", "off", Unknown}]

(* What a transaction that returned Ok established stays so until software *)
(* starts another transaction on the same bit: no command built from the   *)
(* status, no late completion after a time-out and no pointer command that *)
(* is issued again undoes it.                                              *)
PromisesKept ==
  /\ TypeOK
  /\ \A b \in Switches : /\ promise[b] = "on" => b \in gsts
                         /\ promise[b] = "off" => b \notin gsts
  /\ \A b \in Pointers : promise[b] # Unknown => latched[b] = promise[b]

(* When VtdUnit::enable_translation has returned Ok, translation is on, it *)
(* uses the unit's root table and queued invalidation is running, and that *)
(* stays so whatever is enabled or times out later.                        *)
EnabledMeansReady ==
  up => {"TE", "QIE"} \subseteq gsts /\ latched["SRTP"] = UnitRoot

=============================================================================
