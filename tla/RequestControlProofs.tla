------------------------ MODULE RequestControlProofs ------------------------
(***************************************************************************)
(* Proofs about RequestControl, for any set of callers.  IInv adds to the  *)
(* checked invariants what a caller between its load and its exchange      *)
(* knows: the clock it read and the state its call began with.             *)
(***************************************************************************)
EXTENDS RequestControl, TLAPS

\* The initial states satisfy the inductive invariant.
LEMMA InitIInv == Init => IInv
BY DEF Init, IInv, TypeOK, ReasonsAgree, OneCancelWins, DeadlineIsReal,
       LateCallsFail, BegunHolds, CallKnows, States, Reasons, Labels,
       Verdicts

\* Beginning a call and the passing of time preserve the invariant.
LEMMA BeginIInv ==
  ASSUME IInv, NEW c \in Callers, NEW l \in {"cancelLoad", "checkLoad"},
         Begin(c, l)
  PROVE  IInv'
BY DEF IInv, TypeOK, ReasonsAgree, OneCancelWins, DeadlineIsReal,
       LateCallsFail, BegunHolds, CallKnows, States, Reasons, Labels,
       Verdicts, Begin, Goto

\* Every step preserves the inductive invariant.
LEMMA NextIInv == IInv /\ [Next]_vars => IInv'
<1> SUFFICES ASSUME IInv, [Next]_vars PROVE IInv'
  OBVIOUS
<1> USE DEF IInv, TypeOK, ReasonsAgree, OneCancelWins, DeadlineIsReal,
            LateCallsFail, BegunHolds, CallKnows, States, Reasons, Labels,
            Verdicts, Goto, Returns
<1>1. CASE UNCHANGED vars
  BY <1>1 DEF vars
<1>2. CASE TimePasses
  BY <1>2 DEF TimePasses
<1>3. ASSUME NEW c \in Callers, Cancel(c) \/ Check(c) PROVE IInv'
  BY <1>3, BeginIInv DEF Cancel, Check
<1>4. ASSUME NEW c \in Callers, CancelLoad(c) PROVE IInv'
  <2>1. TypeOK'
    <3>1. CASE state = "running"
      BY <1>4, <3>1 DEF CancelLoad
    <3>2. CASE state # "running"
      BY <1>4, <3>2 DEF CancelLoad
    <3> QED
      BY <3>1, <3>2
  <2>2. ReasonsAgree'
    BY <1>4 DEF CancelLoad
  <2>3. OneCancelWins'
    BY <1>4 DEF CancelLoad
  <2>4. DeadlineIsReal'
    BY <1>4 DEF CancelLoad
  <2>5. LateCallsFail'
    BY <1>4 DEF CancelLoad
  <2>6. BegunHolds'
    BY <1>4 DEF CancelLoad
  <2>7. CallKnows'
    BY <1>4 DEF CancelLoad
  <2> QED
    BY <2>1, <2>2, <2>3, <2>4, <2>5, <2>6, <2>7
<1>5. ASSUME NEW c \in Callers, CancelClock(c) PROVE IInv'
  BY <1>5 DEF CancelClock
<1>6. ASSUME NEW c \in Callers, CancelSwap(c) PROVE IInv'
  <2>1. TypeOK'
    BY <1>6 DEF CancelSwap
  <2>2. ReasonsAgree'
    BY <1>6 DEF CancelSwap
  <2>3. OneCancelWins'
    BY <1>6 DEF CancelSwap
  <2>4. DeadlineIsReal'
    BY <1>6 DEF CancelSwap
  <2>5. LateCallsFail'
    BY <1>6 DEF CancelSwap
  <2>6. BegunHolds'
    BY <1>6 DEF CancelSwap
  <2>7. CallKnows'
    BY <1>6 DEF CancelSwap
  <2> QED
    BY <2>1, <2>2, <2>3, <2>4, <2>5, <2>6, <2>7
<1>7. ASSUME NEW c \in Callers, CheckLoad(c) PROVE IInv'
  <2>1. TypeOK'
    <3>1. CASE state = "running"
      BY <1>7, <3>1 DEF CheckLoad
    <3>2. CASE state # "running"
      BY <1>7, <3>2, SMTT(30) DEF CheckLoad
    <3> QED
      BY <3>1, <3>2
  <2>2. ReasonsAgree'
    BY <1>7 DEF CheckLoad
  <2>3. OneCancelWins'
    BY <1>7 DEF CheckLoad
  <2>4. DeadlineIsReal'
    BY <1>7 DEF CheckLoad
  <2>5. LateCallsFail'
    BY <1>7 DEF CheckLoad
  <2>6. BegunHolds'
    BY <1>7 DEF CheckLoad
  <2>7. CallKnows'
    BY <1>7 DEF CheckLoad
  <2> QED
    BY <2>1, <2>2, <2>3, <2>4, <2>5, <2>6, <2>7
<1>8. ASSUME NEW c \in Callers, CheckClock(c) PROVE IInv'
  <2>1. TypeOK'
    BY <1>8 DEF CheckClock
  <2>2. ReasonsAgree'
    BY <1>8 DEF CheckClock
  <2>3. OneCancelWins'
    BY <1>8 DEF CheckClock
  <2>4. DeadlineIsReal'
    BY <1>8 DEF CheckClock
  <2>5. LateCallsFail'
    BY <1>8 DEF CheckClock
  <2>6. BegunHolds'
    BY <1>8 DEF CheckClock
  <2>7. CallKnows'
    BY <1>8 DEF CheckClock
  <2> QED
    BY <2>1, <2>2, <2>3, <2>4, <2>5, <2>6, <2>7
<1>9. ASSUME NEW c \in Callers, CheckSwap(c) PROVE IInv'
  <2>1. TypeOK'
    BY <1>9 DEF CheckSwap
  <2>2. ReasonsAgree'
    BY <1>9 DEF CheckSwap
  <2>3. OneCancelWins'
    BY <1>9 DEF CheckSwap
  <2>4. DeadlineIsReal'
    BY <1>9 DEF CheckSwap
  <2>5. LateCallsFail'
    BY <1>9 DEF CheckSwap
  <2>6. BegunHolds'
    BY <1>9 DEF CheckSwap
  <2>7. CallKnows'
    BY <1>9 DEF CheckSwap
  <2> QED
    BY <2>1, <2>2, <2>3, <2>4, <2>5, <2>6, <2>7
<1>10. ASSUME NEW c \in Callers, Expire(c) PROVE IInv'
  BY <1>10 DEF Expire
<1> QED
  BY <1>1, <1>2, <1>3, <1>4, <1>5, <1>6, <1>7, <1>8, <1>9, <1>10 DEF Next

\* The inductive invariant holds in every reachable state.
THEOREM Invariance == Spec => []IInv
BY InitIInv, NextIInv, PTL DEF Spec

\* No step replaces a terminal state (service_runtime.rs:251).
THEOREM ReasonPermanent == Spec => TerminalIsPermanent
<1>1. IInv /\ [Next]_vars => [state # "running" => state' = state]_vars
  <2> SUFFICES ASSUME IInv, Next, state # "running" PROVE state' = state
    BY DEF vars
  <2> QED
    BY DEF Next, TimePasses, Cancel, Check, Begin, CancelLoad, CancelClock,
           CancelSwap, CheckLoad, CheckClock, CheckSwap, Expire
<1> QED
  BY <1>1, Invariance, PTL DEF Spec, TerminalIsPermanent

\* Every caller that was told a reason was told the same one.
THEOREM CallersAgree == Spec => []ReasonsAgree
BY Invariance, PTL DEF IInv

\* At most one cancel reports success.
THEOREM CancelWinsOnce == Spec => []OneCancelWins
BY Invariance, PTL DEF IInv

\* A request never ends by a deadline that has not passed.
THEOREM DeadlineOnlyWhenLate == Spec => []DeadlineIsReal
BY Invariance, PTL DEF IInv

\* A call that begins after the end of the request, or after its deadline,
\* does not succeed.
THEOREM LateCallsNeverSucceed == Spec => []LateCallsFail
BY Invariance, PTL DEF IInv

-----------------------------------------------------------------------------
(* Refinement. *)

\* The labels that make up a cancel, a check, and no call.
LEMMA CallOf ==
  ASSUME TypeOK, NEW c \in Callers
  PROVE  /\ pc[c] \in {"cancelLoad", "cancelClock", "cancelSwap"} => Call[c] = "cancel"
         /\ pc[c] \in {"checkLoad", "checkClock", "checkSwap"} => Call[c] = "check"
         /\ pc[c] = "idle" => Call[c] = "none"
         /\ Timely[c] = (begun[c].state = "running" /\ ~begun[c].late)
BY DEF TypeOK, Call, Timely, Labels

\* A step that returns from a call is an answer to it.
LEMMA ReturnsAnswers ==
  ASSUME TypeOK, NEW c \in Callers, NEW op, NEW v,
         Call[c] = op, Returns(c, v), begun' = begun
  PROVE  Abstract!Answer(c, op, v)
<1>1. Call' = [Call EXCEPT ![c] = "none"]
  BY DEF TypeOK, Call, Returns, Goto, Labels
<1>2. Timely' = Timely
  BY DEF Timely
<1> QED
  BY <1>1, <1>2 DEF Abstract!Answer, Returns

\* A step inside a call is none of the abstract ones.
LEMMA GotoStutters ==
  ASSUME TypeOK, NEW c \in Callers, NEW l \in Labels, Goto(c, l), begun' = begun,
         \/ /\ pc[c] \in {"cancelLoad", "cancelClock", "cancelSwap"}
            /\ l \in {"cancelLoad", "cancelClock", "cancelSwap"}
         \/ /\ pc[c] \in {"checkLoad", "checkClock", "checkSwap"}
            /\ l \in {"checkLoad", "checkClock", "checkSwap"}
  PROVE  Call' = Call /\ Timely' = Timely
BY DEF TypeOK, Call, Timely, Goto, Labels

\* Beginning a call.
LEMMA BeginBegins ==
  ASSUME TypeOK, NEW c \in Callers, NEW op \in {"cancel", "check"},
         NEW l \in {"cancelLoad", "checkLoad"}, Begin(c, l),
         l = (IF op = "cancel" THEN "cancelLoad" ELSE "checkLoad")
  PROVE  Abstract!Begin(c, op)
<1>1. Call[c] = "none"
  BY CallOf DEF Begin
<1>2. Call' = [Call EXCEPT ![c] = op]
  BY DEF TypeOK, Call, Begin, Goto, Labels
<1>3. Timely' = [Timely EXCEPT ![c] = state = "running" /\ ~late]
  BY DEF TypeOK, Timely, Begin
<1> QED
  BY <1>1, <1>2, <1>3 DEF Abstract!Begin, Abstract!object, Begin

\* Every step of the implementation is a step of the calls, or none: between
\* its load and its exchange a caller knows enough for the answer.
LEMMA StepImplements ==
  ASSUME IInv, Next
  PROVE  [Abstract!CNext]_<<Abstract!object, Abstract!calls>>
<1>1. TypeOK /\ CallKnows
  BY DEF IInv
<1> USE DEF Abstract!CNext, Abstract!object, Abstract!calls
<1>2. CASE TimePasses
  <2>1. Call' = Call /\ Timely' = Timely
    BY <1>2 DEF TimePasses, Call, Timely
  <2> QED
    BY <1>2, <2>1 DEF TimePasses, Abstract!TimePasses
<1>3. ASSUME NEW c \in Callers, Cancel(c)
      PROVE  Abstract!CNext
  BY <1>1, <1>3, BeginBegins DEF Cancel
<1>4. ASSUME NEW c \in Callers, Check(c)
      PROVE  Abstract!CNext
  BY <1>1, <1>4, BeginBegins DEF Check
<1>5. ASSUME NEW c \in Callers, CancelLoad(c)
      PROVE  [Abstract!CNext]_<<Abstract!object, Abstract!calls>>
  <2>1. CASE state = "running"
    <3>1. Call' = Call /\ Timely' = Timely
      BY <1>1, <1>5, <2>1, GotoStutters DEF CancelLoad, Labels
    <3> QED
      BY <1>5, <2>1, <3>1 DEF CancelLoad
  <2>2. CASE state # "running"
    <3>1. Abstract!Answer(c, "cancel", "lost")
      BY <1>1, <1>5, <2>2, CallOf, ReturnsAnswers DEF CancelLoad
    <3> QED
      BY <1>5, <2>2, <3>1 DEF CancelLoad, Abstract!Cancel
  <2> QED
    BY <2>1, <2>2
<1>6. ASSUME NEW c \in Callers, CancelClock(c)
      PROVE  UNCHANGED <<Abstract!object, Abstract!calls>>
  <2>1. Call' = Call /\ Timely' = Timely
    BY <1>1, <1>6, GotoStutters DEF CancelClock, Labels
  <2> QED
    BY <1>6, <2>1 DEF CancelClock
<1>7. ASSUME NEW c \in Callers, CancelSwap(c)
      PROVE  [Abstract!CNext]_<<Abstract!object, Abstract!calls>>
  <2>1. CASE Goto(c, "cancelLoad") /\ UNCHANGED <<state, verdict>>
    <3>1. Call' = Call /\ Timely' = Timely
      BY <1>1, <1>7, <2>1, GotoStutters DEF CancelSwap, Labels
    <3> QED
      BY <1>7, <2>1, <3>1 DEF CancelSwap
  <2>2. CASE /\ state = "running" /\ state' = "cancelled" /\ terminal[c] = "cancelled"
             /\ Returns(c, "won")
    <3>1. Abstract!Answer(c, "cancel", "won")
      BY <1>1, <1>7, <2>2, CallOf, ReturnsAnswers DEF CancelSwap
    <3>2. Timely[c]
      BY <1>1, <1>7, <2>2, CallOf DEF CancelSwap, CallKnows
    <3>3. Abstract!End("cancelled")
      BY <1>7, <2>2 DEF CancelSwap, Abstract!End
    <3> QED
      BY <3>1, <3>2, <3>3 DEF Abstract!Cancel
  <2>3. CASE /\ state = "running" /\ state' = "deadline" /\ terminal[c] = "deadline"
             /\ Returns(c, "lost")
    <3>1. Abstract!Answer(c, "cancel", "lost")
      BY <1>1, <1>7, <2>3, CallOf, ReturnsAnswers DEF CancelSwap
    <3>2. Abstract!End("deadline")
      BY <1>1, <1>7, <2>3 DEF CancelSwap, CallKnows, Abstract!End
    <3> QED
      BY <3>1, <3>2 DEF Abstract!Cancel
  <2>4. terminal[c] \in {"cancelled", "deadline"}
    BY <1>1 DEF TypeOK, Reasons
  <2> QED
    BY <1>7, <2>1, <2>2, <2>3, <2>4 DEF CancelSwap
<1>8. ASSUME NEW c \in Callers, CheckLoad(c)
      PROVE  [Abstract!CNext]_<<Abstract!object, Abstract!calls>>
  <2>1. CASE state = "running"
    <3>1. Call' = Call /\ Timely' = Timely
      BY <1>1, <1>8, <2>1, GotoStutters DEF CheckLoad, Labels
    <3> QED
      BY <1>8, <2>1, <3>1 DEF CheckLoad
  <2>2. CASE state # "running"
    <3>1. Abstract!Answer(c, "check", state)
      BY <1>1, <1>8, <2>2, CallOf, ReturnsAnswers DEF CheckLoad
    <3> QED
      BY <1>8, <2>2, <3>1 DEF CheckLoad, Abstract!Check
  <2> QED
    BY <2>1, <2>2
<1>9. ASSUME NEW c \in Callers, CheckClock(c)
      PROVE  [Abstract!CNext]_<<Abstract!object, Abstract!calls>>
  <2>1. CASE late
    <3>1. Call' = Call /\ Timely' = Timely
      BY <1>1, <1>9, <2>1, GotoStutters DEF CheckClock, Labels
    <3> QED
      BY <1>9, <2>1, <3>1 DEF CheckClock
  <2>2. CASE ~late
    <3>1. Abstract!Answer(c, "check", "ok")
      BY <1>1, <1>9, <2>2, CallOf, ReturnsAnswers DEF CheckClock
    <3>2. Timely[c]
      BY <1>1, <1>9, <2>2, CallOf DEF CheckClock, CallKnows, IInv, BegunHolds
    <3> QED
      BY <1>9, <2>2, <3>1, <3>2 DEF CheckClock, Abstract!Check
  <2> QED
    BY <2>1, <2>2
<1>10. ASSUME NEW c \in Callers, CheckSwap(c)
       PROVE  [Abstract!CNext]_<<Abstract!object, Abstract!calls>>
  <2>1. CASE Goto(c, "checkLoad") /\ UNCHANGED <<state, verdict>>
    <3>1. Call' = Call /\ Timely' = Timely
      BY <1>1, <1>10, <2>1, GotoStutters DEF CheckSwap, Labels
    <3> QED
      BY <1>10, <2>1, <3>1 DEF CheckSwap
  <2>2. CASE state = "running" /\ state' = "deadline" /\ Returns(c, "deadline")
    <3>1. Abstract!Answer(c, "check", "deadline")
      BY <1>1, <1>10, <2>2, CallOf, ReturnsAnswers DEF CheckSwap
    <3>2. Abstract!End("deadline")
      BY <1>1, <1>10, <2>2 DEF CheckSwap, CallKnows, Abstract!End
    <3> QED
      BY <3>1, <3>2 DEF Abstract!Check
  <2> QED
    BY <1>10, <2>1, <2>2 DEF CheckSwap
<1>11. ASSUME NEW c \in Callers, Expire(c)
       PROVE  [Abstract!CNext]_<<Abstract!object, Abstract!calls>>
  <2>1. Call' = Call /\ Timely' = Timely
    BY <1>11 DEF Expire, Call, Timely
  <2> QED
    BY <1>11, <2>1 DEF Expire, Abstract!End
<1> QED
  BY <1>2, <1>3, <1>4, <1>5, <1>6, <1>7, <1>8, <1>9, <1>10, <1>11 DEF Next

\* The loads, clock reads and repeated exchanges implement calls that take
\* effect in one step each, for any set of callers.
THEOREM Refinement == Spec => ImplementsControl
<1>1. Init => Abstract!CInit
  <2> SUFFICES ASSUME Init PROVE Abstract!CInit
    OBVIOUS
  <2>1. Call = [c \in Callers |-> "none"] /\ Timely \in [Callers -> BOOLEAN]
    BY DEF Init, Call, Timely
  <2> QED
    BY <2>1 DEF Init, Abstract!CInit, Abstract!Init
<1>2. IInv /\ [Next]_vars => [Abstract!CNext]_<<Abstract!object, Abstract!calls>>
  <2>1. UNCHANGED vars => UNCHANGED <<Abstract!object, Abstract!calls>>
    BY DEF vars, Call, Timely, Abstract!object, Abstract!calls
  <2> QED
    BY <2>1, StepImplements
<1> QED
  BY <1>1, <1>2, Invariance, PTL DEF Spec, ImplementsControl, Abstract!CSpec

=============================================================================
