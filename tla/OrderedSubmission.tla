-------------------------- MODULE OrderedSubmission --------------------------
(***************************************************************************)
(* What CommandQueue::submit promises its callers, without slots, polling  *)
(* or hardware: tickets are handed out in order, published in the same     *)
(* order with none left out, and each has one outcome.  A ticket given up  *)
(* before its turn is never published, and nothing after it is either.     *)
(***************************************************************************)
EXTENDS Integers

VARIABLES
  claimed,     \* tickets handed out
  published,   \* tickets shown to the hardware: exactly 0 .. published - 1
  succeeded,   \* tickets whose submit returned Ok
  abandoned    \* tickets whose submit returned Err

vars == <<claimed, published, succeeded, abandoned>>

Decided == succeeded \union abandoned
Tickets == 0 .. claimed - 1

Init ==
  /\ claimed = 0 /\ published = 0
  /\ succeeded = {} /\ abandoned = {}

Take ==
  /\ claimed' = claimed + 1
  /\ UNCHANGED <<published, succeeded, abandoned>>

Publish ==
  /\ published \in Tickets \ Decided
  /\ published' = published + 1
  /\ UNCHANGED <<claimed, succeeded, abandoned>>

Succeed ==
  \E k \in Tickets \ Decided :
    /\ k < published
    /\ succeeded' = succeeded \union {k}
    /\ UNCHANGED <<claimed, published, abandoned>>

Abandon ==
  \E k \in Tickets \ Decided :
    /\ abandoned' = abandoned \union {k}
    /\ UNCHANGED <<claimed, published, succeeded>>

(* Reinstalling the queue: only when every ticket has its outcome.         *)
Restart ==
  /\ Tickets \subseteq Decided
  /\ claimed' = 0 /\ published' = 0
  /\ succeeded' = {} /\ abandoned' = {}

Next == Take \/ Publish \/ Succeed \/ Abandon \/ Restart

Spec == Init /\ [][Next]_vars

=============================================================================
