-------------------------- MODULE MCRequestControl --------------------------
(* TLC instance of RequestControl.  Three callers let two exchanges race    *)
(* while a third call loads the outcome; the callers are interchangeable.   *)
EXTENDS RequestControl, TLC

CallerSymmetry == Permutations(Callers)

=============================================================================
