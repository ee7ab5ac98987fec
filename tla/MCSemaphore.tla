---------------------------- MODULE MCSemaphore -----------------------------
(***************************************************************************)
(* Semaphore on two cores with their root processes and created threads.   *)
(***************************************************************************)
EXTENDS Semaphore, TLC

=============================================================================
