--------------------------- MODULE MCProcessTable ---------------------------
(***************************************************************************)
(* ProcessTable on two cores that create, look up and end processes.       *)
(***************************************************************************)
EXTENDS ProcessTable, TLC

CoreSymmetry == Permutations(Core)

=============================================================================
