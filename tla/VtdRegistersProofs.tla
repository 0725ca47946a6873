-------------------------- MODULE VtdRegistersProofs --------------------------
(***************************************************************************)
(* Proofs about VtdRegisters for any root and remapping tables.  RegInv is *)
(* inductive; PromisesKept and EnabledMeansReady follow from it.           *)
(***************************************************************************)
EXTENDS VtdRegisters, SequenceTheorems, TLAPS

-----------------------------------------------------------------------------
(* The inductive invariant.                                                *)

(* The operation in progress: nothing, a single transaction, or what is    *)
(* left of enable_translation.                                             *)
EnableList == <<Point("SRTP", UnitRoot), CheckQueue, Turn("TE", TRUE), ReturnOk>>
CheckList == <<CheckQueue, Turn("TE", TRUE), ReturnOk>>
QueueList == <<Turn("QIE", TRUE), Turn("TE", TRUE), ReturnOk>>
LastList == <<Turn("TE", TRUE), ReturnOk>>
ReturnList == <<ReturnOk>>
Lists ==
  {<<>>, EnableList, CheckList, QueueList, LastList, ReturnList}
    \union {<<x>> : x \in Transactions}

(* A switch that is on (off) in the status, in the command not yet carried *)
(* out and in the status the next command will be built from.              *)
StaysOn(b) == b \in gsts /\ (pending => b \in gcmd) /\ (stage = "command" => b \in seen)
StaysOff(b) == b \notin gsts /\ (pending => b \notin gcmd) /\ (stage = "command" => b \notin seen)

(* A table hardware uses and would use again if its command were reissued. *)
StaysAt(b, t) == latched[b] = t /\ address[b] = t

(* A pointer that may be latched has a table in its address register.      *)
Backed ==
  \A b \in Pointers :
    \/ address[b] \in Tables
    \/ b \notin gsts /\ b \notin gcmd /\ b \notin seen

(* A transaction under way: its bit promises nothing, its address is       *)
(* written, and a command on its way is its own.                           *)
Underway ==
  stage # "address" =>
    /\ todo # <<>> /\ first \in Transactions
    /\ promise[first.bit] = Unknown
    /\ first.bit \in Pointers => address[first.bit] = first.table

Commanded ==
  stage = "wait" =>
    /\ pending => (first.bit \in gcmd) = first.on
    /\ first.bit \in Pointers /\ first.bit \in gsts => latched[first.bit] = first.table /\ ~pending

Promises ==
  /\ \A b \in Switches : /\ promise[b] = "on" => StaysOn(b)
                         /\ promise[b] = "off" => StaysOff(b)
  /\ \A b \in Pointers : promise[b] # Unknown => StaysAt(b, promise[b])

(* What enable_translation has reached.                                    *)
Enabling ==
  /\ todo = CheckList => ~pending
  /\ todo \in {CheckList, QueueList, LastList, ReturnList} => StaysAt("SRTP", UnitRoot)
  /\ todo \in {LastList, ReturnList} => StaysOn("QIE")
  /\ todo = ReturnList => StaysOn("TE")

Harmless(x) ==
  /\ x.bit \in {"TE", "QIE"} => x.on
  /\ x.bit = "SRTP" => x.table = UnitRoot

Ready ==
  up => /\ StaysOn("TE") /\ StaysOn("QIE") /\ StaysAt("SRTP", UnitRoot)
        /\ todo # <<>> => Harmless(first)

RegInv ==
  /\ TypeOK /\ todo \in Lists
  /\ Backed /\ Underway /\ Commanded /\ Promises /\ Enabling /\ Ready

-----------------------------------------------------------------------------
(* Transactions and lists.                                                 *)

(* A transaction turns a switch or sets a pointer to a table, and is told  *)
(* from the two checks of enable_translation by its bit.                   *)
LEMMA TransactionShape ==
  /\ \A x \in Transactions : /\ x.bit \in Bits /\ x.on \in BOOLEAN
                             /\ x.bit \in Pointers => x.on = TRUE /\ x.table \in Tables
  /\ CheckQueue.bit \notin Bits /\ ReturnOk.bit \notin Bits /\ CheckQueue # ReturnOk
  /\ CheckQueue \notin Transactions /\ ReturnOk \notin Transactions
  <1>1. ASSUME NEW x \in Transactions
        PROVE  /\ x.bit \in Bits /\ x.on \in BOOLEAN
               /\ x.bit \in Pointers => x.on = TRUE /\ x.table \in Tables
    <2>1. CASE \E b \in Switches, on \in BOOLEAN : x = Turn(b, on)
      <3>1. PICK b \in Switches, on \in BOOLEAN : x = Turn(b, on)
        BY <2>1
      <3>2. x.bit = b /\ x.on = on
        BY <3>1 DEF Turn
      <3>3. b \notin Pointers
        BY DEF Switches, Pointers
      <3>4. QED
        BY <3>2, <3>3 DEF Bits
    <2>2. CASE \E b \in Pointers, t \in Tables : x = Point(b, t)
      <3>1. PICK b \in Pointers, t \in Tables : x = Point(b, t)
        BY <2>2
      <3>2. x.bit = b /\ x.on = TRUE /\ x.table = t
        BY <3>1 DEF Point
      <3>3. QED
        BY <3>2 DEF Bits
    <2>3. \/ \E b \in Switches, on \in BOOLEAN : x = Turn(b, on)
          \/ \E b \in Pointers, t \in Tables : x = Point(b, t)
      BY DEF Transactions
    <2>4. QED
      BY <2>1, <2>2, <2>3
  <1>2. CheckQueue.bit = "check" /\ ReturnOk.bit = "return"
    BY DEF CheckQueue, ReturnOk
  <1>3. CheckQueue.bit \notin Bits /\ ReturnOk.bit \notin Bits /\ CheckQueue # ReturnOk
    BY <1>2 DEF Bits, Switches, Pointers
  <1>4. QED
    BY <1>1, <1>3

(* The transactions enable_translation makes.                              *)
LEMMA EnableTransactions ==
  /\ Point("SRTP", UnitRoot) \in Transactions
  /\ Turn("TE", TRUE) \in Transactions /\ Turn("QIE", TRUE) \in Transactions
  <1>1. "SRTP" \in Pointers /\ UnitRoot \in Tables /\ "TE" \in Switches /\ "QIE" \in Switches
    BY TablesAssumption DEF Switches, Pointers, Tables
  <1>2. \A b \in Switches, on \in BOOLEAN : Turn(b, on) \in Transactions
    BY DEF Transactions
  <1>3. \A b \in Pointers, t \in Tables : Point(b, t) \in Transactions
    BY DEF Transactions
  <1>4. QED
    BY <1>1, <1>2, <1>3

(* Tuples of at most four elements: their tails, and one element put in    *)
(* front, which is all the sequence arithmetic the model's lists need.     *)
LEMMA TupleTails ==
  /\ \A a : Tail(<<a>>) = <<>>
  /\ \A a, b : Tail(<<a, b>>) = <<b>>
  /\ \A a, b, c : Tail(<<a, b, c>>) = <<b, c>>
  /\ \A a, b, c, d : Tail(<<a, b, c, d>>) = <<b, c, d>>
  /\ \A a, b, c : <<a>> \o <<b, c>> = <<a, b, c>>
  <1>1. ASSUME NEW a PROVE Tail(<<a>>) = <<>>
    OBVIOUS
  <1>2. ASSUME NEW a, NEW b PROVE Tail(<<a, b>>) = <<b>>
    OBVIOUS
  <1>3. ASSUME NEW a, NEW b, NEW c PROVE Tail(<<a, b, c>>) = <<b, c>>
    OBVIOUS
  <1>4. ASSUME NEW a, NEW b, NEW c, NEW d PROVE Tail(<<a, b, c, d>>) = <<b, c, d>>
    OBVIOUS
  <1>5. ASSUME NEW a, NEW b, NEW c PROVE <<a>> \o <<b, c>> = <<a, b, c>>
    <2> DEFINE S == {a, b, c}
    <2>1. <<a>> \in Seq(S) /\ <<b, c>> \in Seq(S) /\ <<a, b, c>> \in Seq(S)
      OBVIOUS
    <2>2. <<a>> \o <<b, c>> \in Seq(S) /\ Len(<<a>> \o <<b, c>>) = 3 /\ Len(<<a, b, c>>) = 3
      BY <2>1
    <2>3. \A i \in 1 .. 3 : (<<a>> \o <<b, c>>)[i] = <<a, b, c>>[i]
      BY <2>1
    <2>4. QED
      BY <2>1, <2>2, <2>3, SeqEqual
  <1>6. QED
    BY <1>1, <1>2, <1>3, <1>4, <1>5

(* A tuple of elements of a set is a sequence over it.                     *)
LEMMA TupleSeqs ==
  ASSUME NEW S
  PROVE  /\ \A a \in S : <<a>> \in Seq(S)
         /\ \A a, b \in S : <<a, b>> \in Seq(S)
         /\ \A a, b, c \in S : <<a, b, c>> \in Seq(S)
         /\ \A a, b, c, d \in S : <<a, b, c, d>> \in Seq(S)
  OBVIOUS

(* What is left of a list once its first element is done.                  *)
LEMMA ListTails ==
  /\ Tail(EnableList) = CheckList /\ Tail(CheckList) = LastList
  /\ <<Turn("QIE", TRUE)>> \o Tail(CheckList) = QueueList
  /\ Tail(QueueList) = LastList /\ Tail(LastList) = ReturnList
  /\ \A x : Tail(<<x>>) = <<>>
  <1> DEFINE p == Point("SRTP", UnitRoot)
             e == Turn("TE", TRUE)
             n == Turn("QIE", TRUE)
  <1>1. EnableList = <<p, CheckQueue, e, ReturnOk>> /\ CheckList = <<CheckQueue, e, ReturnOk>>
    BY DEF EnableList, CheckList
  <1>2. QueueList = <<n, e, ReturnOk>> /\ LastList = <<e, ReturnOk>> /\ ReturnList = <<ReturnOk>>
    BY DEF QueueList, LastList, ReturnList
  <1> HIDE DEF p, e, n
  <1>3. Tail(EnableList) = CheckList
    BY <1>1
  <1>4. Tail(CheckList) = LastList /\ Tail(QueueList) = LastList /\ Tail(LastList) = ReturnList
    BY <1>1, <1>2
  <1>5. <<n>> \o LastList = QueueList
    BY <1>2, TupleTails
  <1>6. QED
    BY <1>3, <1>4, <1>5, TupleTails DEF n

(* The first element of a list.                                            *)
LEMMA ListFirsts ==
  /\ EnableList[1] = Point("SRTP", UnitRoot) /\ CheckList[1] = CheckQueue
  /\ QueueList[1] = Turn("QIE", TRUE) /\ LastList[1] = Turn("TE", TRUE)
  /\ ReturnList[1] = ReturnOk
  /\ \A x : <<x>>[1] = x
  BY DEF EnableList, CheckList, QueueList, LastList, ReturnList

(* The lists of enable_translation differ from each other, from the empty  *)
(* list and from the single transactions.                                  *)
LEMMA ListsDiffer ==
  /\ <<>> \notin {EnableList, CheckList, QueueList, LastList, ReturnList}
  /\ \A x : <<x>> # <<>> /\ <<x>> \notin {EnableList, CheckList, QueueList, LastList}
  /\ \A x \in Transactions : <<x>> # ReturnList
  /\ EnableList \notin {CheckList, QueueList, LastList, ReturnList}
  /\ CheckList \notin {QueueList, LastList, ReturnList}
  /\ QueueList \notin {LastList, ReturnList} /\ LastList # ReturnList
  <1>1. Len(EnableList) = 4 /\ Len(CheckList) = 3 /\ Len(QueueList) = 3
    BY DEF EnableList, CheckList, QueueList
  <1>2. Len(LastList) = 2 /\ Len(ReturnList) = 1 /\ Len(<<>>) = 0
    BY DEF LastList, ReturnList
  <1>3. \A x : Len(<<x>>) = 1
    OBVIOUS
  <1>4. CheckList # QueueList
    BY ListFirsts, EnableTransactions, TransactionShape
  <1>5. \A x \in Transactions : <<x>> # ReturnList
    BY ListFirsts, TransactionShape
  <1>6. <<>> \notin {EnableList, CheckList, QueueList, LastList, ReturnList}
    BY DEF EnableList, CheckList, QueueList, LastList, ReturnList
  <1>7. \A x : <<x>> # <<>> /\ <<x>> \notin {EnableList, CheckList, QueueList, LastList}
    BY <1>1, <1>2, <1>3
  <1>8. EnableList \notin {CheckList, QueueList, LastList, ReturnList}
    BY <1>1, <1>2
  <1>9. CheckList \notin {LastList, ReturnList} /\ QueueList \notin {LastList, ReturnList}
    BY <1>1, <1>2
  <1>10. LastList # ReturnList
    BY <1>2
  <1>11. QED
    BY <1>4, <1>5, <1>6, <1>7, <1>8, <1>9, <1>10

(* Every list holds transactions and checks only.                          *)
LEMMA ListsTyped ==
  Lists \subseteq Seq(Transactions \union {CheckQueue, ReturnOk})
  <1> DEFINE E == Transactions \union {CheckQueue, ReturnOk}
  <1>1. Point("SRTP", UnitRoot) \in E /\ Turn("TE", TRUE) \in E /\ Turn("QIE", TRUE) \in E
    BY EnableTransactions
  <1>2. CheckQueue \in E /\ ReturnOk \in E /\ Transactions \subseteq E
    OBVIOUS
  <1> HIDE DEF E
  <1>3. EnableList \in Seq(E)
    BY <1>1, <1>2, TupleSeqs, Zenon DEF EnableList
  <1>4. CheckList \in Seq(E) /\ QueueList \in Seq(E)
    BY <1>1, <1>2, TupleSeqs, Zenon DEF CheckList, QueueList
  <1>5. LastList \in Seq(E) /\ ReturnList \in Seq(E)
    BY <1>1, <1>2, TupleSeqs, Zenon DEF LastList, ReturnList
  <1>6. <<>> \in Seq(E) /\ \A x \in Transactions : <<x>> \in Seq(E)
    BY <1>2
  <1>7. Lists \subseteq Seq(E)
    BY <1>3, <1>4, <1>5, <1>6 DEF Lists
  <1>8. QED
    BY <1>7 DEF E

(* What the first element says of the list: a check of the queue and a     *)
(* return occur at one place of enable_translation each.                   *)
LEMMA FirstOfList ==
  ASSUME NEW list \in Lists, list # <<>>
  PROVE  /\ list[1] \in Transactions \union {CheckQueue, ReturnOk}
         /\ list[1].bit \in Bits <=> list[1] \in Transactions
         /\ list[1] = CheckQueue <=> list = CheckList
         /\ list[1] = ReturnOk <=> list = ReturnList
         /\ list[1] \in Transactions =>
              \/ list = EnableList /\ list[1] = Point("SRTP", UnitRoot)
              \/ list = QueueList /\ list[1] = Turn("QIE", TRUE)
              \/ list = LastList /\ list[1] = Turn("TE", TRUE)
              \/ list = <<list[1]>>
  <1>1. CASE list = EnableList
    BY <1>1, ListFirsts, ListsDiffer, EnableTransactions, TransactionShape
  <1>2. CASE list = CheckList
    BY <1>2, ListFirsts, ListsDiffer, TransactionShape
  <1>3. CASE list = QueueList
    BY <1>3, ListFirsts, ListsDiffer, EnableTransactions, TransactionShape
  <1>4. CASE list = LastList
    BY <1>4, ListFirsts, ListsDiffer, EnableTransactions, TransactionShape
  <1>5. CASE list = ReturnList
    BY <1>5, ListFirsts, ListsDiffer, TransactionShape
  <1>6. CASE \E x \in Transactions : list = <<x>>
    <2>1. PICK x \in Transactions : list = <<x>>
      BY <1>6
    <2>2. list[1] = x /\ list = <<list[1]>>
      BY <2>1
    <2>3. list # CheckList /\ list # ReturnList
      BY <2>1, ListsDiffer
    <2>4. x.bit \in Bits /\ x # CheckQueue /\ x # ReturnOk
      BY TransactionShape
    <2>5. QED
      BY <2>2, <2>3, <2>4
  <1>7. QED
    BY <1>1, <1>2, <1>3, <1>4, <1>5, <1>6 DEF Lists

-----------------------------------------------------------------------------
(* Steps.                                                                  *)

(* What the four operations that start have in common.                     *)
Starts == {EnableList} \union {<<x>> : x \in Transactions}
Start(list) ==
  /\ Begin(list)
  /\ active' \in BOOLEAN /\ up' \in BOOLEAN
  /\ up' => up /\ Harmless(list[1])

(* set_*_enabled, set_*_table, install_queued_invalidation and             *)
(* enable_translation each start a list, and withdraw "up" when their      *)
(* transaction could undo it.                                              *)
LEMMA OperationsStart ==
  ASSUME RegInv, Next
  PROVE  \/ \E list \in Starts : Start(list)
         \/ WriteAddress \/ ReadStatus \/ WriteCommand \/ WaitOk \/ WaitTimeout
         \/ CheckQueueStep \/ EnableReturns \/ CarryOut
  <1>1. active \in BOOLEAN /\ up \in BOOLEAN
    BY DEF RegInv, TypeOK
  <1>2. ASSUME NEW b \in Switches, NEW on \in BOOLEAN, SetEnabled(b, on)
        PROVE  \E list \in Starts : Start(list)
    <2>1. Turn(b, on) \in Transactions
      BY DEF Transactions
    <2>2. Turn(b, on).bit = b /\ Turn(b, on).on = on /\ <<Turn(b, on)>>[1] = Turn(b, on)
      BY DEF Turn
    <2>3. up' => up /\ Harmless(Turn(b, on))
      BY <1>2, <2>2 DEF SetEnabled, Harmless, Switches
    <2>4. Start(<<Turn(b, on)>>)
      BY <1>2, <1>1, <2>2, <2>3 DEF SetEnabled, Start
    <2>5. QED
      BY <2>1, <2>4 DEF Starts
  <1>3. ASSUME NEW b \in Pointers, NEW t \in TablesOf(b), SetTable(b, t)
        PROVE  \E list \in Starts : Start(list)
    <2>1. Point(b, t) \in Transactions
      BY DEF Transactions, TablesOf, Tables
    <2>2. Point(b, t).bit = b /\ Point(b, t).table = t /\ <<Point(b, t)>>[1] = Point(b, t)
      BY DEF Point
    <2>3. up' => up /\ Harmless(Point(b, t))
      BY <1>3, <2>2 DEF SetTable, Harmless, Pointers
    <2>4. Start(<<Point(b, t)>>)
      BY <1>3, <1>1, <2>2, <2>3 DEF SetTable, Start
    <2>5. QED
      BY <2>1, <2>4 DEF Starts
  <1>4. ASSUME InstallQueuedInvalidation
        PROVE  \E list \in Starts : Start(list)
    <2>1. Harmless(<<Turn("QIE", TRUE)>>[1])
      BY DEF Harmless, Turn
    <2>2. Start(<<Turn("QIE", TRUE)>>)
      BY <1>1, <1>4, <2>1 DEF InstallQueuedInvalidation, Start
    <2>3. QED
      BY <2>2, EnableTransactions DEF Starts
  <1>5. ASSUME EnableTranslation
        PROVE  \E list \in Starts : Start(list)
    <2>1. Harmless(EnableList[1])
      BY ListFirsts DEF Harmless, Point
    <2>2. Start(EnableList)
      BY <1>1, <1>5, <2>1 DEF EnableTranslation, Start, EnableList
    <2>3. QED
      BY <2>2 DEF Starts
  <1>6. QED
    BY <1>2, <1>3, <1>4, <1>5 DEF Next

(* A switch that is on everywhere stays on, whatever step is taken, unless *)
(* the command that turns it off is written.                               *)
LEMMA KeptOn ==
  ASSUME RegInv, Next, NEW b \in Switches, StaysOn(b),
         ~(WriteCommand /\ first.bit = b /\ ~first.on)
  PROVE  StaysOn(b)'
  <1> USE DEF StaysOn, hwVars
  <1>1. ASSUME NEW list \in Starts, Start(list) PROVE StaysOn(b)'
    BY <1>1 DEF Start, Begin
  <1>2. CASE WriteCommand
    <2>1. b \notin Pointers
      BY DEF Switches, Pointers
    <2>2. b \in Command
      BY <1>2 DEF WriteCommand, At, Command
    <2>3. QED
      BY <1>2, <2>1, <2>2 DEF WriteCommand
  <1>3. CASE CarryOut
    BY <1>3 DEF CarryOut
  <1>4. CASE WriteAddress \/ ReadStatus
    BY <1>4 DEF WriteAddress, ReadStatus
  <1>5. CASE WaitOk \/ WaitTimeout
    BY <1>5 DEF WaitOk, WaitTimeout
  <1>6. CASE CheckQueueStep \/ EnableReturns
    BY <1>6 DEF CheckQueueStep, EnableReturns
  <1>7. QED
    BY <1>1, <1>2, <1>3, <1>4, <1>5, <1>6, OperationsStart

(* The same for a switch that is off everywhere.                           *)
LEMMA KeptOff ==
  ASSUME RegInv, Next, NEW b \in Switches, StaysOff(b),
         ~(WriteCommand /\ first.bit = b /\ first.on)
  PROVE  StaysOff(b)'
  <1> USE DEF StaysOff, hwVars
  <1>1. ASSUME NEW list \in Starts, Start(list) PROVE StaysOff(b)'
    BY <1>1 DEF Start, Begin
  <1>2. CASE WriteCommand
    <2>1. b \notin Command
      BY <1>2 DEF WriteCommand, At, Command
    <2>2. QED
      BY <1>2, <2>1 DEF WriteCommand
  <1>3. CASE CarryOut
    BY <1>3 DEF CarryOut, Switches, Pointers
  <1>4. CASE WriteAddress \/ ReadStatus
    BY <1>4 DEF WriteAddress, ReadStatus
  <1>5. CASE WaitOk \/ WaitTimeout
    BY <1>5 DEF WaitOk, WaitTimeout
  <1>6. CASE CheckQueueStep \/ EnableReturns
    BY <1>6 DEF CheckQueueStep, EnableReturns
  <1>7. QED
    BY <1>1, <1>2, <1>3, <1>4, <1>5, <1>6, OperationsStart

(* A table in use whose address register still holds it stays in use,      *)
(* however often its command is issued again, unless a transaction of that *)
(* pointer writes another address.                                         *)
LEMMA KeptAt ==
  ASSUME RegInv, Next, NEW b \in Pointers, NEW t, StaysAt(b, t),
         ~(WriteAddress /\ first.bit = b /\ first.table # t)
  PROVE  StaysAt(b, t)'
  <1> USE DEF StaysAt, hwVars
  <1>1. ASSUME NEW list \in Starts, Start(list) PROVE StaysAt(b, t)'
    BY <1>1 DEF Start, Begin
  <1>2. CASE WriteAddress
    BY <1>2 DEF WriteAddress, RegInv, TypeOK
  <1>3. CASE CarryOut
    BY <1>3 DEF CarryOut
  <1>4. CASE ReadStatus \/ WriteCommand
    BY <1>4 DEF ReadStatus, WriteCommand
  <1>5. CASE WaitOk \/ WaitTimeout
    BY <1>5 DEF WaitOk, WaitTimeout
  <1>6. CASE CheckQueueStep \/ EnableReturns
    BY <1>6 DEF CheckQueueStep, EnableReturns
  <1>7. QED
    BY <1>1, <1>2, <1>3, <1>4, <1>5, <1>6, OperationsStart

(* A step that touches the first element finds a transaction there.        *)
LEMMA FirstIsTransaction ==
  ASSUME RegInv, NEW s, At(s)
  PROVE  /\ todo # <<>> /\ first \in Transactions
         /\ first.bit \in Bits /\ first.on \in BOOLEAN
         /\ first.bit \in Pointers => first.on = TRUE /\ first.table \in Tables
  <1>1. todo \in Lists /\ todo # <<>> /\ first.bit \in Bits
    BY DEF RegInv, At
  <1>2. first \in Transactions
    BY <1>1, FirstOfList DEF first
  <1>3. QED
    BY <1>1, <1>2, TransactionShape

(* How a step moves through the lists.                                     *)
Advance ==
  \/ todo' = todo \/ todo' = <<>>
  \/ todo = <<>> /\ todo' \in Starts
  \/ /\ WaitOk
     /\ \/ todo = EnableList /\ todo' = CheckList
        \/ todo = QueueList /\ todo' = LastList
        \/ todo = LastList /\ todo' = ReturnList
  \/ /\ CheckQueueStep /\ todo = CheckList
     /\ todo' = QueueList \/ (todo' = LastList /\ "QIE" \in gsts)

(* Every step leaves the list, empties it, starts one or takes the first   *)
(* element off; the check of the queue may put a transaction in its place. *)
LEMMA ListStep ==
  ASSUME RegInv, Next
  PROVE  Advance /\ todo' \in Lists
  <1>1. ASSUME NEW list \in Starts, Start(list) PROVE Advance
    BY <1>1 DEF Start, Begin, Advance
  <1>2. ASSUME WaitOk
        PROVE  Advance
    <2>1. todo \in Lists /\ todo # <<>> /\ first \in Transactions
      BY <1>2, FirstIsTransaction DEF WaitOk, RegInv
    <2>2. \/ todo \in {EnableList, QueueList, LastList} \/ todo = <<first>>
      BY <2>1, FirstOfList DEF first
    <2>3. todo' = Tail(todo)
      BY <1>2 DEF WaitOk
    <2>4. \/ todo = EnableList /\ todo' = CheckList
          \/ todo = QueueList /\ todo' = LastList
          \/ todo = LastList /\ todo' = ReturnList
          \/ todo' = <<>>
      <3>1. ASSUME todo = <<first>> PROVE todo' = <<>>
        BY <3>1, <2>3, ListTails
      <3>2. QED
        BY <3>1, <2>2, <2>3, ListTails
    <2>5. QED
      BY <1>2, <2>4 DEF Advance
  <1>3. ASSUME CheckQueueStep
        PROVE  Advance
    <2>1. todo = CheckList
      BY <1>3, FirstOfList DEF CheckQueueStep, first, RegInv
    <2>2. \/ todo' = <<>> \/ (todo' = Tail(todo) /\ "QIE" \in gsts)
          \/ todo' = <<Turn("QIE", TRUE)>> \o Tail(todo)
      BY <1>3 DEF CheckQueueStep
    <2>3. \/ todo' = <<>> \/ todo' = QueueList \/ (todo' = LastList /\ "QIE" \in gsts)
      BY <2>1, <2>2, ListTails
    <2>4. QED
      BY <1>3, <2>1, <2>3 DEF Advance
  <1>4. ASSUME WriteAddress \/ ReadStatus \/ WriteCommand \/ WaitTimeout \/ EnableReturns \/ CarryOut
        PROVE  Advance
    <2>1. todo' = todo \/ todo' = <<>>
      BY <1>4 DEF WriteAddress, ReadStatus, WriteCommand, WaitTimeout, EnableReturns, CarryOut
    <2>2. QED
      BY <2>1 DEF Advance
  <1>5. Advance
    BY <1>1, <1>2, <1>3, <1>4, OperationsStart
  <1>6. todo \in Lists
    BY DEF RegInv
  <1>7. Starts \subseteq Lists
    BY DEF Starts, Lists
  <1>8. QED
    BY <1>5, <1>6, <1>7 DEF Advance, Lists

(* The registers: every variable stays in its domain, and a pointer that   *)
(* may be latched has a table in its address register.                     *)
LEMMA RegistersStep ==
  ASSUME RegInv, Next
  PROVE  TypeOK' /\ Backed'
  <1> DEFINE Regs == /\ gsts' \subseteq Bits /\ gcmd' \subseteq Bits /\ seen' \subseteq Bits
                     /\ pending' \in BOOLEAN
                     /\ address' \in [Pointers -> Tables \union {NoTable}]
                     /\ latched' \in [Pointers -> Tables \union {NoTable}]
                     /\ \A b \in Pointers \intersect gsts' : latched'[b] \in Tables
                     /\ active' \in BOOLEAN /\ up' \in BOOLEAN
                     /\ stage' \in {"address", "read", "command", "wait"}
                     /\ promise' \in [Bits -> Tables \union {"on", "off", Unknown}]
  <1> USE DEF hwVars
  <1> HIDE DEF Regs
  <1>1. ASSUME NEW list \in Starts, Start(list) PROVE Regs /\ Backed'
    BY <1>1 DEF Regs, Start, Begin, RegInv, TypeOK, Backed
  <1>2. ASSUME WriteAddress
        PROVE  Regs /\ Backed'
    <2>1. first.bit \in Bits /\ (first.bit \in Pointers => first.table \in Tables)
      BY <1>2, FirstIsTransaction DEF WriteAddress
    <2>2. /\ address' \in [Pointers -> Tables \union {NoTable}]
          /\ \A b \in Pointers : address[b] \in Tables => address'[b] \in Tables
      BY <1>2, <2>1 DEF WriteAddress, RegInv, TypeOK
    <2>3. promise' \in [Bits -> Tables \union {"on", "off", Unknown}]
      BY <1>2, <2>1 DEF WriteAddress, RegInv, TypeOK
    <2>4. QED
      BY <1>2, <2>2, <2>3 DEF Regs, WriteAddress, RegInv, TypeOK, Backed
  <1>3. ASSUME ReadStatus
        PROVE  Regs /\ Backed'
    BY <1>3 DEF Regs, ReadStatus, RegInv, TypeOK, Backed
  <1>4. ASSUME WriteCommand
        PROVE  Regs /\ Backed'
    <2>1. first.bit \in Bits /\ (first.bit \in Pointers => address[first.bit] \in Tables)
      BY <1>4, FirstIsTransaction DEF WriteCommand, At, RegInv, Underway
    <2>2. Command \subseteq seen \union {first.bit}
      BY DEF Command
    <2>3. Regs
      BY <1>4, <2>1, <2>2 DEF Regs, WriteCommand, RegInv, TypeOK
    <2>4. Backed'
      BY <1>4, <2>1, <2>2 DEF WriteCommand, RegInv, Backed
    <2>5. QED
      BY <2>3, <2>4
  <1>5. ASSUME WaitOk
        PROVE  Regs /\ Backed'
    <2>1. first.bit \in Bits /\ Promised \in Tables \union {"on", "off"}
      BY <1>5, FirstIsTransaction DEF WaitOk, Promised
    <2>2. promise' \in [Bits -> Tables \union {"on", "off", Unknown}]
      BY <1>5, <2>1 DEF WaitOk, RegInv, TypeOK
    <2>3. Regs
      BY <1>5, <2>2 DEF Regs, WaitOk, RegInv, TypeOK
    <2>4. Backed'
      BY <1>5 DEF WaitOk, RegInv, Backed
    <2>5. QED
      BY <2>3, <2>4
  <1>6. ASSUME WaitTimeout \/ CheckQueueStep \/ EnableReturns
        PROVE  Regs /\ Backed'
    <2>1. /\ gsts' = gsts /\ gcmd' = gcmd /\ seen' = seen /\ pending' = pending
          /\ address' = address /\ latched' = latched /\ active' = active /\ promise' = promise
          /\ up' \in {up, TRUE} /\ stage' \in {stage, "address"}
      BY <1>6 DEF WaitTimeout, CheckQueueStep, EnableReturns
    <2>2. Regs
      BY <2>1 DEF Regs, RegInv, TypeOK
    <2>3. Backed'
      BY <2>1 DEF RegInv, Backed
    <2>4. QED
      BY <2>2, <2>3
  <1>7. ASSUME CarryOut
        PROVE  Regs /\ Backed'
    <2>1. \A b \in Pointers : b \in gcmd => address[b] \in Tables
      BY DEF RegInv, Backed
    <2>2. \A b \in Pointers : latched'[b] = IF b \in gcmd THEN address[b] ELSE latched[b]
      BY <1>7 DEF CarryOut
    <2>3. latched' \in [Pointers -> Tables \union {NoTable}]
      BY <1>7 DEF CarryOut, RegInv, TypeOK
    <2>4. \A b \in Pointers \intersect gsts' : latched'[b] \in Tables
      BY <1>7, <2>1, <2>2 DEF CarryOut, RegInv, TypeOK
    <2>5. Regs
      BY <1>7, <2>3, <2>4 DEF Regs, CarryOut, RegInv, TypeOK, Bits
    <2>6. Backed'
      BY <1>7 DEF CarryOut, RegInv, Backed
    <2>7. QED
      BY <2>5, <2>6
  <1>8. Regs /\ Backed'
    BY <1>1, <1>2, <1>3, <1>4, <1>5, <1>6, <1>7, OperationsStart
  <1>9. todo' \in Seq(Transactions \union {CheckQueue, ReturnOk})
    BY ListStep, ListsTyped
  <1>10. QED
    BY <1>8, <1>9 DEF Regs, TypeOK

(* The transaction under way stays the one the address, the command and    *)
(* the withdrawn promise belong to.                                        *)
LEMMA UnderwayStep ==
  ASSUME RegInv, Next
  PROVE  Underway' /\ Commanded'
  <1> DEFINE Goal == Underway' /\ Commanded'
  <1> USE DEF hwVars
  <1>1. ASSUME stage' = "address" PROVE Goal
    BY <1>1 DEF Underway, Commanded
  <1> HIDE DEF Goal
  <1>2. ASSUME NEW list \in Starts, Start(list) PROVE Goal
    BY <1>1, <1>2 DEF Start, Begin
  <1>3. ASSUME WaitOk \/ WaitTimeout PROVE Goal
    BY <1>1, <1>3 DEF WaitOk, WaitTimeout
  <1>4. ASSUME CheckQueueStep \/ EnableReturns PROVE Goal
    <2>1. todo # <<>> /\ first \notin Transactions /\ stage' = stage
      BY <1>4, TransactionShape DEF CheckQueueStep, EnableReturns
    <2>2. QED
      BY <1>1, <2>1 DEF RegInv, Underway
  <1>5. ASSUME WriteAddress PROVE Goal
    <2>1. todo # <<>> /\ first \in Transactions /\ first.bit \in Bits
      BY <1>5, FirstIsTransaction DEF WriteAddress
    <2>2. promise'[first.bit] = Unknown
      BY <1>5, <2>1 DEF WriteAddress, RegInv, TypeOK
    <2>3. first.bit \in Pointers => address'[first.bit] = first.table
      BY <1>5 DEF WriteAddress, RegInv, TypeOK
    <2>4. todo' = todo /\ stage' = "read"
      BY <1>5 DEF WriteAddress
    <2>5. QED
      BY <2>1, <2>2, <2>3, <2>4 DEF Goal, Underway, Commanded, first
  <1>6. ASSUME ReadStatus PROVE Goal
    BY <1>6 DEF Goal, ReadStatus, At, RegInv, Underway, Commanded, first
  <1>7. ASSUME WriteCommand PROVE Goal
    <2>1. /\ first \in Transactions /\ first.on \in BOOLEAN
          /\ first.bit \in Pointers => first.on = TRUE
      BY <1>7, FirstIsTransaction DEF WriteCommand
    <2>2. (first.bit \in Command) = first.on
      BY <2>1 DEF Command
    <2>3. first.bit \in Pointers => first.bit \notin gsts'
      BY <1>7, <2>1, <2>2 DEF WriteCommand
    <2>4. Underway'
      BY <1>7 DEF WriteCommand, At, RegInv, Underway, first
    <2>5. Commanded'
      BY <1>7, <2>2, <2>3 DEF WriteCommand, Commanded, first
    <2>6. QED
      BY <2>4, <2>5 DEF Goal
  <1>8. ASSUME CarryOut PROVE Goal
    <2>1. Underway'
      BY <1>8 DEF CarryOut, RegInv, Underway, first
    <2>2. ASSUME stage = "wait", first.bit \in Pointers, first.bit \in gsts'
          PROVE  latched'[first.bit] = first.table
      <3>1. address[first.bit] = first.table
        BY <2>2 DEF RegInv, Underway
      <3>2. latched'[first.bit] = IF first.bit \in gcmd THEN address[first.bit] ELSE latched[first.bit]
        BY <1>8, <2>2 DEF CarryOut
      <3>3. first.bit \in gcmd \/ first.bit \in gsts
        BY <1>8, <2>2 DEF CarryOut
      <3>4. QED
        BY <1>8, <2>2, <3>1, <3>2, <3>3 DEF CarryOut, RegInv, Commanded
    <2>3. Commanded'
      BY <1>8, <2>2 DEF CarryOut, Commanded, first
    <2>4. QED
      BY <2>1, <2>3 DEF Goal
  <1>9. QED
    BY <1>2, <1>3, <1>4, <1>5, <1>6, <1>7, <1>8, OperationsStart DEF Goal

(* A transaction that is answered leaves its switch so everywhere, its     *)
(* pointer latched and its command carried out.                            *)
LEMMA Answered ==
  ASSUME RegInv, WaitOk, NEW b \in Bits, first.bit = b
  PROVE  /\ b \in Switches /\ first.on => StaysOn(b)'
         /\ b \in Switches /\ ~first.on => StaysOff(b)'
         /\ b \in Pointers => latched'[b] = first.table /\ address'[b] = first.table /\ ~pending'
  <1>1. /\ stage = "wait" /\ stage' = "address"
        /\ gsts' = gsts /\ gcmd' = gcmd /\ pending' = pending /\ address' = address
        /\ latched' = latched /\ (b \in gsts) = first.on
    BY DEF WaitOk, At, Reached, hwVars
  <1>2. /\ first.on \in BOOLEAN
        /\ b \in Pointers => first.on = TRUE
    BY FirstIsTransaction DEF WaitOk
  <1>3. pending => (b \in gcmd) = first.on
    BY <1>1 DEF RegInv, Commanded
  <1>4. b \in Pointers => address[b] = first.table /\ latched[b] = first.table /\ ~pending
    BY <1>1, <1>2 DEF RegInv, Underway, Commanded
  <1>5. QED
    BY <1>1, <1>2, <1>3, <1>4 DEF StaysOn, StaysOff

(* A promise changes only when its transaction starts or is answered.      *)
LEMMA PromiseStep ==
  ASSUME RegInv, Next, NEW b \in Bits, promise'[b] # Unknown
  PROVE  \/ WaitOk /\ first.bit = b /\ promise'[b] = Promised
         \/ promise'[b] = promise[b] /\ ~(WriteAddress /\ first.bit = b)
  <1>1. ASSUME NEW list \in Starts, Start(list) PROVE promise' = promise /\ ~WriteAddress
    BY <1>1 DEF Start, Begin, WriteAddress, At
  <1>2. ASSUME WriteAddress PROVE promise'[b] = IF first.bit = b THEN Unknown ELSE promise[b]
    BY <1>2 DEF WriteAddress, RegInv, TypeOK
  <1>3. ASSUME WaitOk PROVE /\ promise'[b] = IF first.bit = b THEN Promised ELSE promise[b]
                            /\ ~WriteAddress
    BY <1>3 DEF WaitOk, WriteAddress, At, RegInv, TypeOK
  <1>4. ASSUME ReadStatus \/ WriteCommand \/ WaitTimeout PROVE promise' = promise /\ ~WriteAddress
    BY <1>4 DEF ReadStatus, WriteCommand, WaitTimeout, WriteAddress, At
  <1>5. ASSUME CheckQueueStep \/ EnableReturns PROVE promise' = promise /\ ~WriteAddress
    BY <1>5, TransactionShape DEF CheckQueueStep, EnableReturns, WriteAddress, At
  <1>6. ASSUME CarryOut PROVE promise' = promise /\ address' = address /\ stage' = stage
    BY <1>6 DEF CarryOut
  <1>7. ASSUME CarryOut PROVE ~WriteAddress
    BY <1>7 DEF CarryOut, WriteAddress, At
  <1>8. QED
    BY <1>1, <1>2, <1>3, <1>4, <1>5, <1>6, <1>7, OperationsStart

(* No step undoes what an answered transaction promised.                   *)
LEMMA PromisesStep ==
  ASSUME RegInv, Next
  PROVE  Promises'
  <1>1. ASSUME NEW b \in Bits, WriteCommand, first.bit = b
        PROVE  promise[b] = Unknown
    BY <1>1 DEF WriteCommand, At, RegInv, Underway
  <1>2. ASSUME NEW b \in Switches, promise'[b] = "on" PROVE StaysOn(b)'
    <2>1. b \in Bits /\ promise'[b] # Unknown /\ b \notin Pointers
      BY <1>2 DEF Bits, Switches, Pointers, Unknown
    <2>2. CASE WaitOk /\ first.bit = b /\ promise'[b] = Promised
      <3>1. first.on
        BY <1>2, <2>1, <2>2 DEF Promised
      <3>2. QED
        BY <2>1, <2>2, <3>1, Answered
    <2>3. CASE promise'[b] = promise[b]
      <3>1. StaysOn(b)
        BY <1>2, <2>3 DEF RegInv, Promises
      <3>2. ~(WriteCommand /\ first.bit = b)
        BY <1>1, <1>2, <2>1, <2>3
      <3>3. QED
        BY <3>1, <3>2, KeptOn
    <2>4. QED
      BY <2>1, <2>2, <2>3, PromiseStep
  <1>3. ASSUME NEW b \in Switches, promise'[b] = "off" PROVE StaysOff(b)'
    <2>1. b \in Bits /\ promise'[b] # Unknown /\ b \notin Pointers
      BY <1>3 DEF Bits, Switches, Pointers, Unknown
    <2>2. CASE WaitOk /\ first.bit = b /\ promise'[b] = Promised
      <3>1. ~first.on
        BY <1>3, <2>1, <2>2 DEF Promised
      <3>2. QED
        BY <2>1, <2>2, <3>1, Answered
    <2>3. CASE promise'[b] = promise[b]
      <3>1. StaysOff(b)
        BY <1>3, <2>3 DEF RegInv, Promises
      <3>2. ~(WriteCommand /\ first.bit = b)
        BY <1>1, <1>3, <2>1, <2>3
      <3>3. QED
        BY <3>1, <3>2, KeptOff
    <2>4. QED
      BY <2>1, <2>2, <2>3, PromiseStep
  <1>4. ASSUME NEW b \in Pointers, promise'[b] # Unknown
        PROVE  latched'[b] = promise'[b] /\ address'[b] = promise'[b]
    <2>1. b \in Bits
      BY DEF Bits
    <2>2. CASE WaitOk /\ first.bit = b /\ promise'[b] = Promised
      <3>1. promise'[b] = first.table
        BY <2>2 DEF Promised
      <3>2. QED
        BY <2>1, <2>2, <3>1, Answered
    <2>3. CASE promise'[b] = promise[b] /\ ~(WriteAddress /\ first.bit = b)
      <3>1. StaysAt(b, promise[b])
        BY <1>4, <2>3 DEF RegInv, Promises
      <3>2. latched'[b] = promise[b] /\ address'[b] = promise[b]
        BY <2>3, <3>1, KeptAt DEF StaysAt
      <3>3. QED
        BY <2>3, <3>2
    <2>4. QED
      BY <1>4, <2>1, <2>2, <2>3, PromiseStep
  <1>5. QED
    BY <1>2, <1>3, <1>4 DEF Promises, StaysAt

(* enable_translation keeps what it has reached until it returns.          *)
LEMMA EnablingStep ==
  ASSUME RegInv, Next
  PROVE  Enabling'
  <1> DEFINE Late == {CheckList, QueueList, LastList, ReturnList}
  <1>1. "SRTP" \in Pointers /\ "QIE" \in Switches /\ "TE" \in Switches
    BY DEF Pointers, Switches
  <1>2. todo # todo' /\ todo' \in Late =>
          \/ WaitOk /\ todo = EnableList /\ todo' = CheckList
          \/ WaitOk /\ todo = QueueList /\ todo' = LastList
          \/ WaitOk /\ todo = LastList /\ todo' = ReturnList
          \/ CheckQueueStep /\ todo = CheckList /\ todo' = QueueList
          \/ CheckQueueStep /\ todo = CheckList /\ todo' = LastList /\ "QIE" \in gsts
    BY ListStep, ListsDiffer DEF Advance, Starts
  <1>3. todo = EnableList => first.bit = "SRTP" /\ first.table = UnitRoot
    BY ListFirsts DEF first, Point
  <1>4. todo = QueueList => first.bit = "QIE" /\ first.on
    BY ListFirsts DEF first, Turn
  <1>5. todo = LastList => first.bit = "TE" /\ first.on
    BY ListFirsts DEF first, Turn
  <1>6. todo = CheckList \/ todo = ReturnList => first.bit \notin Bits
    BY ListFirsts, TransactionShape DEF first
  <1>7. todo \in Late => first.bit # "SRTP"
    BY <1>1, <1>4, <1>5, <1>6 DEF Bits
  <1>8. ASSUME todo \in Late PROVE StaysAt("SRTP", UnitRoot)'
    BY <1>1, <1>7, <1>8, KeptAt DEF RegInv, Enabling
  <1>9. ASSUME todo' \in Late PROVE StaysAt("SRTP", UnitRoot)'
    <2>1. CASE todo \in Late
      BY <1>8, <2>1
    <2>2. CASE WaitOk /\ todo = EnableList
      <3>1. "SRTP" \in Bits
        BY <1>1 DEF Bits
      <3>2. latched'["SRTP"] = UnitRoot /\ address'["SRTP"] = UnitRoot
        BY <1>1, <1>3, <2>2, <3>1, Answered
      <3>3. QED
        BY <3>2 DEF StaysAt
    <2>3. QED
      BY <1>2, <1>9, <2>1, <2>2
  <1>10. ASSUME todo' = CheckList PROVE ~pending'
    <2>1. CASE todo = CheckList
      <3>1. ~pending /\ ~WriteCommand
        BY <1>6, <2>1 DEF RegInv, Enabling, WriteCommand, At
      <3>2. ASSUME NEW list \in Starts, Start(list) PROVE ~pending'
        BY <3>1, <3>2 DEF Start, Begin, hwVars
      <3>3. ASSUME WriteAddress \/ ReadStatus \/ WaitOk \/ WaitTimeout PROVE ~pending'
        BY <3>1, <3>3 DEF WriteAddress, ReadStatus, WaitOk, WaitTimeout, hwVars
      <3>4. ASSUME CheckQueueStep \/ EnableReturns \/ CarryOut PROVE ~pending'
        BY <3>1, <3>4 DEF CheckQueueStep, EnableReturns, CarryOut, hwVars
      <3>5. QED
        BY <3>1, <3>2, <3>3, <3>4, OperationsStart
    <2>2. CASE WaitOk /\ todo = EnableList
      BY <1>1, <1>3, <2>2, Answered DEF Bits
    <2>3. QED
      BY <1>2, <1>10, <2>1, <2>2, ListsDiffer
  <1>11. ASSUME todo' \in {LastList, ReturnList} PROVE StaysOn("QIE")'
    <2>1. CASE todo \in {LastList, ReturnList}
      <3>1. StaysOn("QIE")
        BY <2>1 DEF RegInv, Enabling
      <3>2. first.bit # "QIE"
        BY <1>1, <1>5, <1>6, <2>1 DEF Bits
      <3>3. QED
        BY <1>1, <3>1, <3>2, KeptOn
    <2>2. CASE WaitOk /\ todo = QueueList
      BY <1>1, <1>4, <2>2, Answered DEF Bits
    <2>3. CASE CheckQueueStep /\ todo = CheckList /\ "QIE" \in gsts
      <3>1. ~pending /\ stage = "address"
        BY <1>6, <2>3, TransactionShape DEF RegInv, Enabling, Underway
      <3>2. StaysOn("QIE")
        BY <2>3, <3>1 DEF StaysOn
      <3>3. ~WriteCommand
        BY <1>6, <2>3 DEF WriteCommand, At
      <3>4. QED
        BY <1>1, <3>2, <3>3, KeptOn
    <2>4. QED
      BY <1>2, <1>11, <2>1, <2>2, <2>3, ListsDiffer
  <1>12. ASSUME todo' = ReturnList PROVE StaysOn("TE")'
    <2>1. CASE todo = ReturnList
      <3>1. StaysOn("TE") /\ first.bit # "TE"
        BY <1>1, <1>6, <2>1 DEF RegInv, Enabling, Bits
      <3>2. QED
        BY <1>1, <3>1, KeptOn
    <2>2. CASE WaitOk /\ todo = LastList
      BY <1>1, <1>5, <2>2, Answered DEF Bits
    <2>3. QED
      BY <1>2, <1>12, <2>1, <2>2, ListsDiffer
  <1>13. QED
    BY <1>9, <1>10, <1>11, <1>12 DEF Enabling

(* Once enable_translation has returned, what is started later cannot undo *)
(* what it promised without withdrawing "up".                              *)
LEMMA ReadyStep ==
  ASSUME RegInv, Next
  PROVE  Ready'
  <1> SUFFICES ASSUME up'
               PROVE  /\ StaysOn("TE")' /\ StaysOn("QIE")' /\ StaysAt("SRTP", UnitRoot)'
                      /\ todo' # <<>> => Harmless(todo'[1])
    BY DEF Ready, first, Harmless
  <1>1. "SRTP" \in Pointers /\ "QIE" \in Switches /\ "TE" \in Switches
    BY DEF Pointers, Switches
  <1>2. CASE up /\ todo = <<>>
    <2>1. StaysOn("TE") /\ StaysOn("QIE") /\ StaysAt("SRTP", UnitRoot)
      BY <1>2 DEF RegInv, Ready
    <2>2. ~WriteCommand /\ ~WriteAddress
      BY <1>2 DEF WriteCommand, WriteAddress, At
    <2>3. StaysOn("TE")' /\ StaysOn("QIE")' /\ StaysAt("SRTP", UnitRoot)'
      BY <1>1, <2>1, <2>2, KeptOn, KeptAt
    <2>4. ASSUME NEW list \in Starts, Start(list) PROVE Harmless(todo'[1])
      BY <2>4 DEF Start, Begin
    <2>5. ASSUME CarryOut PROVE todo' = <<>>
      BY <1>2, <2>5 DEF CarryOut
    <2>6. ASSUME WriteAddress \/ ReadStatus \/ WriteCommand \/ WaitOk \/ WaitTimeout
                   \/ CheckQueueStep \/ EnableReturns
          PROVE  FALSE
      BY <1>2, <2>6 DEF WriteAddress, ReadStatus, WriteCommand, WaitOk, WaitTimeout, At,
                        CheckQueueStep, EnableReturns
    <2>7. todo' # <<>> => Harmless(todo'[1])
      BY <2>4, <2>5, <2>6, OperationsStart
    <2>8. QED
      BY <2>3, <2>7
  <1>3. CASE up /\ todo # <<>>
    <2>1. StaysOn("TE") /\ StaysOn("QIE") /\ StaysAt("SRTP", UnitRoot) /\ Harmless(first)
      BY <1>3 DEF RegInv, Ready
    <2>2. StaysOn("TE")' /\ StaysOn("QIE")' /\ StaysAt("SRTP", UnitRoot)'
      BY <1>1, <2>1, KeptOn, KeptAt DEF Harmless
    <2>3. Harmless(CheckList[1]) /\ Harmless(ReturnList[1])
      BY ListFirsts, TransactionShape DEF Harmless, Bits, Switches, Pointers
    <2>4. Harmless(QueueList[1]) /\ Harmless(LastList[1])
      BY ListFirsts DEF Harmless, Turn
    <2>5. todo' # <<>> => Harmless(todo'[1])
      BY <1>3, <2>1, <2>3, <2>4, ListStep DEF Advance, first
    <2>6. QED
      BY <2>2, <2>5
  <1>4. CASE ~up
    <2>1. EnableReturns
      <3>1. ASSUME NEW list \in Starts, Start(list) PROVE FALSE
        BY <1>4, <3>1 DEF Start
      <3>2. ASSUME WriteAddress \/ ReadStatus \/ WriteCommand \/ WaitOk \/ WaitTimeout
                     \/ CheckQueueStep \/ CarryOut
            PROVE  up' = up
        BY <3>2 DEF WriteAddress, ReadStatus, WriteCommand, WaitOk, WaitTimeout,
                    CheckQueueStep, CarryOut
      <3>3. QED
        BY <1>4, <3>1, <3>2, OperationsStart
    <2>2. todo = ReturnList /\ todo' = <<>>
      BY <2>1, FirstOfList DEF EnableReturns, first, RegInv
    <2>3. StaysOn("TE") /\ StaysOn("QIE") /\ StaysAt("SRTP", UnitRoot)
      BY <2>2 DEF RegInv, Enabling
    <2>4. ~WriteCommand /\ ~WriteAddress
      BY <2>1, TransactionShape DEF EnableReturns, WriteCommand, WriteAddress, At
    <2>5. QED
      BY <1>1, <2>2, <2>3, <2>4, KeptOn, KeptAt
  <1>5. QED
    BY <1>2, <1>3, <1>4 DEF RegInv, TypeOK

-----------------------------------------------------------------------------
(* The registers start in the inductive invariant and no step leaves it.   *)
THEOREM RegistersInvariance == Spec => []RegInv
  <1>1. Init => RegInv
    <2> SUFFICES ASSUME Init PROVE RegInv
      OBVIOUS
    <2>1. TypeOK
      <3>1. todo \in Seq(Transactions \union {CheckQueue, ReturnOk})
        BY DEF Init
      <3>2. /\ address \in [Pointers -> Tables \union {NoTable}] /\ latched = address
            /\ promise \in [Bits -> Tables \union {"on", "off", Unknown}]
        BY DEF Init
      <3>3. QED
        BY <3>1, <3>2 DEF Init, TypeOK
    <2>2. todo \in Lists
      BY DEF Init, Lists
    <2>3. Backed /\ Underway /\ Commanded
      BY DEF Init, Backed, Underway, Commanded
    <2>4. Promises
      BY DEF Init, Promises, Bits, Switches, Pointers, Unknown
    <2>5. Enabling /\ Ready
      BY ListsDiffer DEF Init, Enabling, Ready
    <2>6. QED
      BY <2>1, <2>2, <2>3, <2>4, <2>5 DEF RegInv
  <1>2. ASSUME RegInv, [Next]_vars PROVE RegInv'
    <2>1. CASE Next
      BY <1>2, <2>1, ListStep, RegistersStep, UnderwayStep, PromisesStep, EnablingStep, ReadyStep
      DEF RegInv
    <2>2. CASE UNCHANGED vars
      <3>1. TypeOK' /\ (todo \in Lists)' /\ Backed'
        BY <1>2, <2>2 DEF vars, RegInv, TypeOK, Backed
      <3>2. Underway' /\ Commanded'
        BY <1>2, <2>2 DEF vars, RegInv, Underway, Commanded, first
      <3>3. Promises'
        BY <1>2, <2>2 DEF vars, RegInv, Promises, StaysOn, StaysOff, StaysAt
      <3>4. Enabling' /\ Ready'
        BY <1>2, <2>2 DEF vars, RegInv, Enabling, Ready, StaysOn, StaysAt, first, Harmless
      <3>5. QED
        BY <3>1, <3>2, <3>3, <3>4 DEF RegInv
    <2>3. QED
      BY <1>2, <2>1, <2>2
  <1>3. QED
    BY <1>1, <1>2, PTL DEF Spec

(* What a set_*_enabled or set_*_table that returned Ok established stays  *)
(* so until the next transaction on the same bit, for any tables and with  *)
(* time-outs: GCMD is built from GSTS, and re-issued pointer commands find *)
(* the same address.                                                       *)
THEOREM OkTransactionsStand == Spec => []PromisesKept
  <1>1. RegInv => PromisesKept
    BY DEF RegInv, Promises, PromisesKept, StaysOn, StaysOff, StaysAt
  <1>2. QED
    BY <1>1, RegistersInvariance, PTL

(* After enable_translation returned Ok, translation and queued            *)
(* invalidation are on and hardware uses the unit's root table, whatever   *)
(* is enabled or times out later.                                          *)
THEOREM EnabledIsReady == Spec => []EnabledMeansReady
  <1>1. RegInv => EnabledMeansReady
    BY DEF RegInv, Ready, EnabledMeansReady, StaysOn, StaysAt
  <1>2. QED
    BY <1>1, RegistersInvariance, PTL

=============================================================================
