----------------------------- MODULE MCThreads ------------------------------
(***************************************************************************)
(* Threads on two cores.                                                   *)
(***************************************************************************)
EXTENDS Threads, TLC

ThreadSymmetry == Permutations(Thread)

=============================================================================
