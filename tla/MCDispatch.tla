----------------------------- MODULE MCDispatch -----------------------------
(***************************************************************************)
(* Dispatch on two cores: each has its idle and its root process, and the  *)
(* threads come and go between them.                                       *)
(***************************************************************************)
EXTENDS Dispatch, TLC

=============================================================================
