----------------------------- MODULE MCContext ------------------------------
(***************************************************************************)
(* Context on two cores, where a late write of ret is met; that nothing    *)
(* else goes wrong, and nothing on one core, is proved in ContextProofs.   *)
(***************************************************************************)
EXTENDS Context, TLC

=============================================================================
