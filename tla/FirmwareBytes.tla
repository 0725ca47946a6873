---------------------------- MODULE FirmwareBytes ----------------------------
(* The bytes of a firmware table, known as far as they have been read.     *)
(* What is at an offset is chosen when it is first read and stays so: the  *)
(* table can be any table, and it does not change.                         *)

(* What a read at an offset can give: any of `fresh` if the offset is new. *)
Contents(memory, at, fresh) == IF at \in DOMAIN memory THEN {memory[at]} ELSE fresh

(* The memory after x has been read there.                                 *)
Remember(memory, at, x) == [o \in DOMAIN memory \union {at} |-> IF o = at THEN x ELSE memory[o]]

=============================================================================
