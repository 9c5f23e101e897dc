--------------------------- MODULE RequestControl ---------------------------
(***************************************************************************)
(* Cancellation and deadline of one service request                        *)
(* (src/src/service_runtime.rs, RequestControl).                           *)
(*                                                                         *)
(* Every holder of a clone may call cancel, check or expire at any time.   *)
(* cancel and check load the shared state, then read the clock, then       *)
(* exchange the state with compare_exchange_weak, which may fail without   *)
(* cause; another caller may run between any two of these.                 *)
(***************************************************************************)
EXTENDS Naturals

CONSTANT Callers    \* threads and futures holding a clone of the control

VARIABLES
  state,      \* RequestControlInner.state
  late,       \* the clock has reached RequestControlInner.deadline
  pc,         \* where each caller is in its current call
  terminal,   \* the terminal state cancel computed from the clock
  verdict,    \* what each caller's last finished call returned
  begun       \* history: the state and the clock when the call began

vars == <<state, late, pc, terminal, verdict, begun>>

-----------------------------------------------------------------------------

Reasons == {"cancelled", "deadline"}

States == {"running"} \cup Reasons

Labels == {"idle", "cancelLoad", "cancelClock", "cancelSwap",
           "checkLoad", "checkClock", "checkSwap"}

\* cancel returns "won" or "lost", check returns "ok" or the reason.
Verdicts == {"none", "won", "lost", "ok"} \cup Reasons

Init ==
  /\ state = "running"
  /\ late \in BOOLEAN
  /\ pc = [c \in Callers |-> "idle"]
  /\ terminal = [c \in Callers |-> "cancelled"]
  /\ verdict = [c \in Callers |-> "none"]
  /\ begun = [c \in Callers |-> [state |-> state, late |-> late]]

Goto(c, l) == pc' = [pc EXCEPT ![c] = l]

Returns(c, v) ==
  /\ Goto(c, "idle")
  /\ verdict' = [verdict EXCEPT ![c] = v]

Begin(c, l) ==
  /\ pc[c] = "idle"
  /\ Goto(c, l)
  /\ begun' = [begun EXCEPT ![c] = [state |-> state, late |-> late]]
  /\ verdict' = [verdict EXCEPT ![c] = "none"]
  /\ UNCHANGED <<state, late, terminal>>

Cancel(c) == Begin(c, "cancelLoad")

Check(c) == Begin(c, "checkLoad")

CancelLoad(c) ==
  /\ pc[c] = "cancelLoad"
  /\ IF state = "running"
       THEN Goto(c, "cancelClock") /\ UNCHANGED verdict
       ELSE Returns(c, "lost")
  /\ UNCHANGED <<state, late, terminal, begun>>

\* Mutant: the comparison with the deadline is the wrong way round.
CancelClockInverted(c) ==
  /\ pc[c] = "cancelClock"
  /\ terminal' =
       [terminal EXCEPT ![c] = IF late THEN "cancelled" ELSE "deadline"]
  /\ Goto(c, "cancelSwap")
  /\ UNCHANGED <<state, late, verdict, begun>>

CancelClock(c) ==
  /\ pc[c] = "cancelClock"
  /\ terminal' =
       [terminal EXCEPT ![c] = IF late THEN "deadline" ELSE "cancelled"]
  /\ Goto(c, "cancelSwap")
  /\ UNCHANGED <<state, late, verdict, begun>>

\* The exchange: it succeeds, or (also without cause) it fails and retries.
CancelSwap(c) ==
  /\ pc[c] = "cancelSwap"
  /\ \/ /\ state = "running"
        /\ state' = terminal[c]
        /\ Returns(c, IF terminal[c] = "cancelled" THEN "won" ELSE "lost")
     \/ Goto(c, "cancelLoad") /\ UNCHANGED <<state, verdict>>
  /\ UNCHANGED <<late, terminal, begun>>

CheckLoad(c) ==
  /\ pc[c] = "checkLoad"
  /\ IF state = "running"
       THEN Goto(c, "checkClock") /\ UNCHANGED verdict
       ELSE Returns(c, state)
  /\ UNCHANGED <<state, late, terminal, begun>>

\* Mutant: a running request passes without a look at the clock.
CheckClockIgnored(c) ==
  /\ pc[c] = "checkClock"
  /\ Returns(c, "ok")
  /\ UNCHANGED <<state, late, terminal, begun>>

CheckClock(c) ==
  /\ pc[c] = "checkClock"
  /\ IF late
       THEN Goto(c, "checkSwap") /\ UNCHANGED verdict
       ELSE Returns(c, "ok")
  /\ UNCHANGED <<state, late, terminal, begun>>

\* Mutant: the caller reports the deadline whoever won the exchange.
CheckSwapUnchecked(c) ==
  /\ pc[c] = "checkSwap"
  /\ state' = IF state = "running" THEN "deadline" ELSE state
  /\ Returns(c, "deadline")
  /\ UNCHANGED <<late, terminal, begun>>

CheckSwap(c) ==
  /\ pc[c] = "checkSwap"
  /\ \/ /\ state = "running"
        /\ state' = "deadline"
        /\ Returns(c, "deadline")
     \/ Goto(c, "checkLoad") /\ UNCHANGED <<state, verdict>>
  /\ UNCHANGED <<late, terminal, begun>>

\* expire: called when a timer set to remaining() has fired, so the clock
\* has reached the deadline; one strong exchange.
Expire(c) ==
  /\ pc[c] = "idle"
  /\ late
  /\ state' = IF state = "running" THEN "deadline" ELSE state
  /\ UNCHANGED <<late, pc, terminal, verdict, begun>>

TimePasses ==
  /\ ~late
  /\ late' = TRUE
  /\ UNCHANGED <<state, pc, terminal, verdict, begun>>

Next ==
  \/ TimePasses
  \/ \E c \in Callers :
       \/ Cancel(c) \/ CancelLoad(c) \/ CancelClock(c) \/ CancelSwap(c)
       \/ Check(c) \/ CheckLoad(c) \/ CheckClock(c) \/ CheckSwap(c)
       \/ Expire(c)

Spec == Init /\ [][Next]_vars

-----------------------------------------------------------------------------
(* Properties. *)

\* The variables have their types.
TypeOK ==
  /\ state \in States
  /\ late \in BOOLEAN
  /\ pc \in [Callers -> Labels]
  /\ terminal \in [Callers -> Reasons]
  /\ verdict \in [Callers -> Verdicts]
  /\ begun \in [Callers -> [state : States, late : BOOLEAN]]

\* The first terminal transition is permanent (service_runtime.rs:251): no
\* later cancel, check or expire, whatever it read before, replaces it.
TerminalIsPermanent == [][state # "running" => state' = state]_vars

\* Every caller that was told a reason was told the one reason the request
\* has, and a cancel that reports success is that reason.
ReasonsAgree ==
  \A c \in Callers :
    /\ verdict[c] \in Reasons => state = verdict[c]
    /\ verdict[c] = "won" => state = "cancelled"

\* However many callers cancel at once, at most one is told that it did.
OneCancelWins ==
  \A b, c \in Callers : verdict[b] = "won" /\ verdict[c] = "won" => b = c

\* A request ends by deadline only when its deadline has passed: a cancel
\* that read the clock too early cannot report the deadline.
DeadlineIsReal == state = "deadline" => late

\* No call that begins after the request ended, or after its deadline,
\* succeeds: check does not pass and cancel does not win.
LateCallsFail ==
  \A c \in Callers :
    verdict[c] \in {"ok", "won"} =>
      begun[c].state = "running" /\ ~begun[c].late

\* The call each caller is in, and whether it began in time.
Call ==
  [c \in Callers |->
    CASE pc[c] \in {"cancelLoad", "cancelClock", "cancelSwap"} -> "cancel"
      [] pc[c] \in {"checkLoad", "checkClock", "checkSwap"} -> "check"
      [] OTHER -> "none"]

Timely ==
  [c \in Callers |-> begun[c].state = "running" /\ ~begun[c].late]

Abstract == INSTANCE ControlCalls WITH call <- Call, timely <- Timely

\* Although the state, the clock and the exchange are three operations and the
\* exchange is repeated, every cancel and every check takes effect in one step:
\* it ends the request with a reason that is real, or is told the one that
\* stands, or began in time (service_runtime.rs:251).
ImplementsControl == Abstract!CSpec

-----------------------------------------------------------------------------
(* The inductive invariant. *)

\* A terminal state seen when a call began is still the state.
BegunHolds ==
  \A c \in Callers :
    /\ begun[c].late => late
    /\ begun[c].state # "running" => state = begun[c].state

\* What a caller has learnt from its load and from the clock.
CallKnows ==
  \A c \in Callers :
    /\ pc[c] \in {"cancelClock", "cancelSwap", "checkClock", "checkSwap"} =>
         begun[c].state = "running"
    /\ pc[c] = "checkSwap" => late
    /\ pc[c] = "cancelSwap" =>
         IF terminal[c] = "deadline" THEN late ELSE ~begun[c].late

IInv ==
  /\ TypeOK
  /\ ReasonsAgree
  /\ OneCancelWins
  /\ DeadlineIsReal
  /\ LateCallsFail
  /\ BegunHolds
  /\ CallKnows

=============================================================================
