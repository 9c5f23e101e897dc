------------------------------ MODULE Control -------------------------------
(***************************************************************************)
(* What the control of one service request is for those who look at it     *)
(* (src/src/service_runtime.rs, the comment on RequestControl): the first  *)
(* terminal transition is permanent, and the deadline is a reason only     *)
(* once it has passed.  The control of every request in GrpcAnalyze is     *)
(* one; ControlCalls adds the calls of its holders.                        *)
(***************************************************************************)
VARIABLES
  state,      \* running, or the reason why the request has ended
  late        \* the deadline has passed

object == <<state, late>>

-----------------------------------------------------------------------------

Reasons == {"cancelled", "deadline"}

Init == state = "running" /\ late \in BOOLEAN

End(reason) ==
  /\ state = "running"
  /\ reason = "deadline" => late
  /\ state' = reason
  /\ UNCHANGED late

TimePasses ==
  /\ ~late
  /\ late' = TRUE
  /\ UNCHANGED state

Next == TimePasses \/ \E reason \in Reasons : End(reason)

Spec == Init /\ [][Next]_object

=============================================================================
