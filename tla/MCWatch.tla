------------------------------ MODULE MCWatch -------------------------------
(* TLC instances of Watch: one input with two contents, and two inputs with *)
(* one output for both (a.wav and a.flac are normalized to one name), told  *)
(* apart by their contents.                                                 *)
EXTENDS Watch

CONSTANTS a, b

OwnOutput == [f \in Files |-> f]

OneOutput == [f \in Files |-> CHOOSE o \in Outputs : TRUE]

BothData == [f \in Files |-> {a, b}]

First == CHOOSE f \in Files : TRUE

OwnData == [f \in Files |-> IF f = First THEN {a} ELSE {b}]

=============================================================================
