------------------------------ MODULE MCNewlib ------------------------------
(***************************************************************************)
(* The calls behind newlib_lock with memory for two processes.             *)
(***************************************************************************)
EXTENDS Newlib

=============================================================================
