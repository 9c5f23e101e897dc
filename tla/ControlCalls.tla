---------------------------- MODULE ControlCalls ----------------------------
(***************************************************************************)
(* What the calls on the control of one request promise                    *)
(* (src/src/service_runtime.rs, RequestControl): each takes effect and is  *)
(* answered in one indivisible step, and what began too late never         *)
(* succeeds.  RequestControl, with its loads, clock reads and exchanges    *)
(* that fail and are repeated, implements this module.                     *)
(***************************************************************************)
EXTENDS Control

CONSTANT Callers    \* threads and futures holding a clone of the control

VARIABLES
  call,       \* the call each caller is in
  timely,     \* it began while the request was running and not late
  verdict     \* what each caller's last finished call returned

calls == <<call, timely, verdict>>

-----------------------------------------------------------------------------

CInit ==
  /\ Init
  /\ call = [c \in Callers |-> "none"]
  /\ timely \in [Callers -> BOOLEAN]
  /\ verdict = [c \in Callers |-> "none"]

Begin(c, op) ==
  /\ call[c] = "none"
  /\ call' = [call EXCEPT ![c] = op]
  /\ timely' = [timely EXCEPT ![c] = state = "running" /\ ~late]
  /\ verdict' = [verdict EXCEPT ![c] = "none"]
  /\ UNCHANGED object

Answer(c, op, v) ==
  /\ call[c] = op
  /\ call' = [call EXCEPT ![c] = "none"]
  /\ verdict' = [verdict EXCEPT ![c] = v]
  /\ UNCHANGED timely

\* A cancel is the reason, or comes after the deadline or another reason.
Cancel(c) ==
  \/ timely[c] /\ End("cancelled") /\ Answer(c, "cancel", "won")
  \/ End("deadline") /\ Answer(c, "cancel", "lost")
  \/ state # "running" /\ Answer(c, "cancel", "lost") /\ UNCHANGED object

\* A check passes, finds the deadline, or learns the reason.
Check(c) ==
  \/ timely[c] /\ Answer(c, "check", "ok") /\ UNCHANGED object
  \/ End("deadline") /\ Answer(c, "check", "deadline")
  \/ state # "running" /\ Answer(c, "check", state) /\ UNCHANGED object

CNext ==
  \/ \E c \in Callers :
       (\E op \in {"cancel", "check"} : Begin(c, op)) \/ Cancel(c) \/ Check(c)
  \/ (End("deadline") \/ TimePasses) /\ UNCHANGED calls

CSpec == CInit /\ [][CNext]_<<object, calls>>

=============================================================================
