--------------------------- MODULE MCCommandQueue ---------------------------
(* CommandQueue for TLC.                                                   *)
EXTENDS CommandQueue, TLC

(* Threads are interchangeable: submit never compares caller identities.   *)
ThreadSymmetry == Permutations(Threads)

=============================================================================
