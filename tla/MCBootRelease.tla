--------------------------- MODULE MCBootRelease ----------------------------
(***************************************************************************)
(* The boot of the four cores of a Raspberry Pi.                           *)
(***************************************************************************)
EXTENDS BootRelease

=============================================================================
