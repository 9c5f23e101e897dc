---------------------------- MODULE MCGeneration ----------------------------
(* TLC instances of Generation.  Three members have one that is done, one   *)
(* in hand and one to come at every location of the loops; both kinds of    *)
(* preimage (present, missing) occur in every combination through Init.     *)
EXTENDS Generation

=============================================================================
