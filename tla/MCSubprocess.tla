---------------------------- MODULE MCSubprocess ----------------------------
(***************************************************************************)
(* Subprocess with a stream that may exceed its limit.                     *)
(***************************************************************************)
EXTENDS Subprocess

=============================================================================
