------------------------------ MODULE MCBatch -------------------------------
(* TLC instances of Batch: two outputs can be published and changed         *)
(* separately.                                                              *)
EXTENDS Batch

=============================================================================
