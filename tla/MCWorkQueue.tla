---------------------------- MODULE MCWorkQueue -----------------------------
(***************************************************************************)
(* The pool with a few workers and a little more work than workers.        *)
(***************************************************************************)
EXTENDS WorkQueue

=============================================================================
