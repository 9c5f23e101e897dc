-------------------------- MODULE SubprocessProofs --------------------------
(***************************************************************************)
(* Proofs about Subprocess, for every limit of the captured stream and     *)
(* every number of bytes written: its invariants follow from an inductive  *)
(* invariant that says what is known at every point of the supervisor, of  *)
(* the reader and of the caller.                                           *)
(***************************************************************************)
EXTENDS Subprocess, TLAPS

-----------------------------------------------------------------------------
(* The inductive invariant. *)

\* Nothing of the group runs any more, or terminating it failed.
GroupGone == missed \/ (leader # "running" /\ "member" \notin alive)

\* The leader is reaped by the last step of the supervisor, if that does not
\* fail, after its group was torn down, and is killed only for a failure.
SupervisorKnows ==
  /\ sup = "ended" => lost \/ leader = "reaped"
  /\ sup # "ended" => leader # "reaped" /\ state.failure = None
  /\ sup \in {"descendants", "reap"} => leader = "zombie"
  /\ sup \in {"reap", "wait", "ended"} => GroupGone
  /\ sup \in {"stop", "kill", "wait"} => failing # None
  /\ killed => \/ sup = "wait"
               \/ sup = "ended" /\ state.failure # None
  /\ sup = "ended" /\ state.failure = None => state.status
  /\ state.done => sup = "ended"

\* A reader that has not met the limit has, or still finds, all that was
\* written; it stores "data" at the end of the stream or when told to stop.
ReaderKnows ==
  /\ pending <= wrote
  /\ reader = "reading" => got + pending = wrote
  /\ reader = "limit" \/ slot = "limit" => wrote > Limit
  /\ reader = "data" \/ slot = "data" => readerStop \/ (got = wrote /\ Holders = {})
  /\ slot = "data" => reader = "ended"

\* Until finish returns, the reader of a process that is not aborted is told
\* to stop only because of a failure.
StopIsForFailure ==
  readerStop /\ mode \notin {"abort", "drop"} /\ caller # "returned" =>
    \/ sup \in {"kill", "wait"}
    \/ sup = "ended" /\ state.failure # None

CallerKnows ==
  /\ caller \in {"idle", "write"} => mode = None
  /\ caller \in {"join", "giveup", "conclude", "returned"} => sup = "ended"
  /\ caller \in {"conclude", "returned"} => slot # None
  /\ caller # "returned" => result # "ok"
  /\ result = "ok" => mode = "finish" /\ state.failure = None /\ ~killed /\ slot = "data"
  /\ mode = "finish" => caller \in {"await", "join", "giveup", "conclude", "returned"}

\* An error that names what happened.
Real(f) ==
  /\ f = "timeout" => past
  /\ f = "cancelled" => cancelled
  /\ f = "monitored" => exceeded
  /\ f = "limit" => wrote > Limit
  /\ f = "terminate" => missed

\* Every error on its way to the caller is real; "cancelled" also stands for
\* an owner who has dropped the process and sees no result.
FailuresAreReal ==
  /\ Real(requested) /\ Real(result)
  /\ mode # "drop" => Real(failing) /\ Real(state.failure)
  /\ forceStop /\ mode # "drop" /\ requested = None => sup \notin {"check", "poll", "descendants", "reap"}

IInv ==
  /\ TypeOK
  /\ SupervisorKnows
  /\ ReaderKnows
  /\ StopIsForFailure
  /\ CallerKnows
  /\ FailuresAreReal
  /\ OkIsComplete
  /\ OnlyOwnGroupKilled

-----------------------------------------------------------------------------

USE NoneAssumption, LimitsAssumption DEF Failures, ReaderResults, Descendants

\* What a poll of the outputs, or the owner of the process, finds is real.
LEMMA StopReasonIsReal ==
  ASSUME TypeOK, ReaderKnows
  PROVE  /\ StopReason \in {None} \cup Failures
         /\ Real(StopReason)
         /\ OutputFailure \in {None} \cup Failures
         /\ Real(OutputFailure)
<1>1. ReaderFailure \in {None, "limit", "reader"} /\ Real(ReaderFailure)
  BY DEF TypeOK, ReaderKnows, ReaderFailure, Real
<1>2. OutputFailure \in {None} \cup Failures /\ Real(OutputFailure)
  BY <1>1 DEF OutputFailure, Real
<1> QED
  BY <1>2 DEF StopReason, Real

\* Finish reports a real failure, or success at the end of the stream.
LEMMA ConcludedIsReal ==
  ASSUME IInv, caller = "conclude"
  PROVE  /\ Concluded \in {None, "ok"} \cup Failures
         /\ Real(Concluded)
         /\ Concluded = "ok" =>
              mode = "finish" /\ state.failure = None /\ slot = "data"
<1> USE DEF IInv, TypeOK, CallerKnows, FailuresAreReal, Real
<1>1. CASE mode # "finish"
  BY <1>1 DEF Concluded
<1>2. CASE mode = "finish" /\ state.failure # None
  BY <1>2 DEF Concluded
<1>3. CASE mode = "finish" /\ state.failure = None /\ OutputFailure # None
  BY <1>3, StopReasonIsReal DEF Concluded
<1>4. CASE mode = "finish" /\ state.failure = None /\ OutputFailure = None
  BY <1>4 DEF Concluded, OutputFailure, ReaderFailure
<1> QED
  BY <1>1, <1>2, <1>3, <1>4

\* The initial states satisfy the inductive invariant.
LEMMA InitIInv == Init => IInv
<1> SUFFICES ASSUME Init PROVE IInv
  OBVIOUS
<1>1. TypeOK
  <2>1. state \in [status : BOOLEAN, failure : {None} \cup Failures, done : BOOLEAN]
    BY DEF Init
  <2>2. /\ cancelled \in BOOLEAN /\ past \in BOOLEAN /\ exceeded \in BOOLEAN
        /\ readerStop \in BOOLEAN /\ forceStop \in BOOLEAN
        /\ killed \in BOOLEAN /\ missed \in BOOLEAN /\ lost \in BOOLEAN /\ foreign \in BOOLEAN
    BY DEF Init
  <2>3. wrote \in 0 .. MaxWrites /\ pending \in 0 .. MaxWrites /\ got \in 0 .. Limit
    BY DEF Init
  <2>4. alive \subseteq Descendants
    BY DEF Init
  <2> QED
    BY <2>1, <2>2, <2>3, <2>4 DEF Init, TypeOK
<1> QED
  BY <1>1 DEF Init, IInv, Holders, SupervisorKnows, ReaderKnows, StopIsForFailure, CallerKnows,
    FailuresAreReal, Real, OkIsComplete, OnlyOwnGroupKilled

\* The reader keeps or refuses a chunk.
LEMMA ReadChunkIInv == IInv /\ ReadChunk => IInv'
<1> SUFFICES ASSUME IInv, ReadChunk PROVE IInv'
  OBVIOUS
<1> USE DEF IInv, TypeOK, ReadChunk, world, readers, control, supervisor, client
<1>1. TypeOK'
  BY DEF ReaderKnows
<1>2. SupervisorKnows'
  BY DEF SupervisorKnows, GroupGone
<1>3. ReaderKnows'
  BY DEF ReaderKnows, Holders
<1>4. StopIsForFailure'
  BY DEF StopIsForFailure, SupervisorKnows, CallerKnows
<1>5. CallerKnows'
  BY DEF CallerKnows, SupervisorKnows, ReaderKnows
<1>6. FailuresAreReal'
  BY DEF FailuresAreReal, Real, SupervisorKnows, ReaderKnows, CallerKnows
<1>7. OkIsComplete'
  BY DEF OkIsComplete, CallerKnows, SupervisorKnows, ReaderKnows, Holders
<1>8. OnlyOwnGroupKilled'
  BY DEF OnlyOwnGroupKilled, SupervisorKnows
<1> QED
  BY <1>1, <1>2, <1>3, <1>4, <1>5, <1>6, <1>7, <1>8

\* The reader finds the end of the stream.
LEMMA ReadEndIInv == IInv /\ ReadEnd => IInv'
<1> SUFFICES ASSUME IInv, ReadEnd PROVE IInv'
  OBVIOUS
<1> USE DEF IInv, TypeOK, ReadEnd, Finish, world, readers, control, supervisor, client
<1>1. TypeOK'
  BY DEF ReaderKnows
<1>2. SupervisorKnows'
  BY DEF SupervisorKnows, GroupGone
<1>3. ReaderKnows'
  BY DEF ReaderKnows, Holders
<1>4. StopIsForFailure'
  BY DEF StopIsForFailure, SupervisorKnows, CallerKnows
<1>5. CallerKnows'
  BY DEF CallerKnows, SupervisorKnows, ReaderKnows
<1>6. FailuresAreReal'
  BY DEF FailuresAreReal, Real, SupervisorKnows, ReaderKnows, CallerKnows
<1>7. OkIsComplete'
  BY DEF OkIsComplete, CallerKnows, SupervisorKnows, ReaderKnows, Holders
<1>8. OnlyOwnGroupKilled'
  BY DEF OnlyOwnGroupKilled, SupervisorKnows
<1> QED
  BY <1>1, <1>2, <1>3, <1>4, <1>5, <1>6, <1>7, <1>8

\* The reader gives up.
LEMMA ReadStoppedIInv == IInv /\ ReadStopped => IInv'
<1> SUFFICES ASSUME IInv, ReadStopped PROVE IInv'
  OBVIOUS
<1> USE DEF IInv, TypeOK, ReadStopped, Finish, world, readers, control, supervisor, client
<1>1. TypeOK'
  BY DEF ReaderKnows
<1>2. SupervisorKnows'
  BY DEF SupervisorKnows, GroupGone
<1>3. ReaderKnows'
  BY DEF ReaderKnows, Holders
<1>4. StopIsForFailure'
  BY DEF StopIsForFailure, SupervisorKnows, CallerKnows
<1>5. CallerKnows'
  BY DEF CallerKnows, SupervisorKnows, ReaderKnows
<1>6. FailuresAreReal'
  BY DEF FailuresAreReal, Real, SupervisorKnows, ReaderKnows, CallerKnows
<1>7. OkIsComplete'
  BY DEF OkIsComplete, CallerKnows, SupervisorKnows, ReaderKnows, Holders
<1>8. OnlyOwnGroupKilled'
  BY DEF OnlyOwnGroupKilled, SupervisorKnows
<1> QED
  BY <1>1, <1>2, <1>3, <1>4, <1>5, <1>6, <1>7, <1>8

\* The reader fails.
LEMMA ReadFailsIInv == IInv /\ ReadFails => IInv'
<1> SUFFICES ASSUME IInv, ReadFails PROVE IInv'
  OBVIOUS
<1> USE DEF IInv, TypeOK, ReadFails, Finish, world, readers, control, supervisor, client
<1>1. TypeOK'
  BY DEF ReaderKnows
<1>2. SupervisorKnows'
  BY DEF SupervisorKnows, GroupGone
<1>3. ReaderKnows'
  BY DEF ReaderKnows, Holders
<1>4. StopIsForFailure'
  BY DEF StopIsForFailure, SupervisorKnows, CallerKnows
<1>5. CallerKnows'
  BY DEF CallerKnows, SupervisorKnows, ReaderKnows
<1>6. FailuresAreReal'
  BY DEF FailuresAreReal, Real, SupervisorKnows, ReaderKnows, CallerKnows
<1>7. OkIsComplete'
  BY DEF OkIsComplete, CallerKnows, SupervisorKnows, ReaderKnows, Holders
<1>8. OnlyOwnGroupKilled'
  BY DEF OnlyOwnGroupKilled, SupervisorKnows
<1> QED
  BY <1>1, <1>2, <1>3, <1>4, <1>5, <1>6, <1>7, <1>8

\* The reader stores its result.
LEMMA StoreResultIInv == IInv /\ StoreResult => IInv'
<1> SUFFICES ASSUME IInv, StoreResult PROVE IInv'
  OBVIOUS
<1> USE DEF IInv, TypeOK, StoreResult, world, readers, control, supervisor, client
<1>1. TypeOK'
  BY DEF ReaderKnows
<1>2. SupervisorKnows'
  BY DEF SupervisorKnows, GroupGone
<1>3. ReaderKnows'
  BY DEF ReaderKnows, Holders
<1>4. StopIsForFailure'
  BY DEF StopIsForFailure, SupervisorKnows, CallerKnows
<1>5. CallerKnows'
  BY DEF CallerKnows, SupervisorKnows, ReaderKnows
<1>6. FailuresAreReal'
  BY DEF FailuresAreReal, Real, SupervisorKnows, ReaderKnows, CallerKnows
<1>7. OkIsComplete'
  BY DEF OkIsComplete, CallerKnows, SupervisorKnows, ReaderKnows, Holders
<1>8. OnlyOwnGroupKilled'
  BY DEF OnlyOwnGroupKilled, SupervisorKnows
<1> QED
  BY <1>1, <1>2, <1>3, <1>4, <1>5, <1>6, <1>7, <1>8

\* The supervisor looks for a reason to stop.
LEMMA CheckIInv == IInv /\ Check => IInv'
<1> SUFFICES ASSUME IInv, Check PROVE IInv'
  OBVIOUS
<1> USE DEF IInv, TypeOK, Check, world, readers, control, supervisor, client
<1>1. TypeOK'
  BY StopReasonIsReal DEF ReaderKnows
<1>2. SupervisorKnows'
  BY DEF SupervisorKnows, GroupGone
<1>3. ReaderKnows'
  BY DEF ReaderKnows, Holders
<1>4. StopIsForFailure'
  <2>1. ~(readerStop /\ mode \notin {"abort", "drop"} /\ caller # "returned")
    BY DEF StopIsForFailure
  <2> QED
    BY <2>1 DEF StopIsForFailure
<1>5. CallerKnows'
  BY StopReasonIsReal DEF CallerKnows, SupervisorKnows, ReaderKnows
<1>6. FailuresAreReal'
  BY StopReasonIsReal DEF FailuresAreReal, Real, SupervisorKnows, ReaderKnows, CallerKnows
<1>7. OkIsComplete'
  BY StopReasonIsReal DEF OkIsComplete, CallerKnows, SupervisorKnows, ReaderKnows, Holders
<1>8. OnlyOwnGroupKilled'
  BY DEF OnlyOwnGroupKilled, SupervisorKnows
<1> QED
  BY <1>1, <1>2, <1>3, <1>4, <1>5, <1>6, <1>7, <1>8

\* The supervisor stops the reader.
LEMMA StopReaderIInv == IInv /\ StopReader => IInv'
<1> SUFFICES ASSUME IInv, StopReader PROVE IInv'
  OBVIOUS
<1> USE DEF IInv, TypeOK, StopReader, world, readers, control, supervisor, client
<1>1. TypeOK'
  BY DEF ReaderKnows
<1>2. SupervisorKnows'
  BY DEF SupervisorKnows, GroupGone
<1>3. ReaderKnows'
  BY DEF ReaderKnows, Holders
<1>4. StopIsForFailure'
  BY DEF StopIsForFailure, SupervisorKnows, CallerKnows
<1>5. CallerKnows'
  BY DEF CallerKnows, SupervisorKnows, ReaderKnows
<1>6. FailuresAreReal'
  BY DEF FailuresAreReal, Real, SupervisorKnows, ReaderKnows, CallerKnows
<1>7. OkIsComplete'
  BY DEF OkIsComplete, CallerKnows, SupervisorKnows, ReaderKnows, Holders
<1>8. OnlyOwnGroupKilled'
  BY DEF OnlyOwnGroupKilled, SupervisorKnows
<1> QED
  BY <1>1, <1>2, <1>3, <1>4, <1>5, <1>6, <1>7, <1>8

\* The supervisor kills the tree.
LEMMA TerminateRunningIInv == IInv /\ TerminateRunning => IInv'
<1> SUFFICES ASSUME IInv, TerminateRunning PROVE IInv'
  OBVIOUS
<1> USE DEF IInv, TypeOK, TerminateRunning, KillGroup, Reached, world, readers, control, supervisor, client
<1>1. TypeOK'
  <2>1. killed' \in BOOLEAN /\ foreign' \in BOOLEAN
    OBVIOUS
  <2>2. missed' \in BOOLEAN /\ alive' \subseteq Descendants
    OBVIOUS
  <2>3. failing' \in {None} \cup Failures
    OBVIOUS
  <2> QED
    BY <2>1, <2>2, <2>3
<1>2. SupervisorKnows'
  BY DEF SupervisorKnows, GroupGone
<1>3. ReaderKnows'
  BY DEF ReaderKnows, Holders
<1>4. StopIsForFailure'
  BY DEF StopIsForFailure, SupervisorKnows, CallerKnows
<1>5. CallerKnows'
  BY DEF CallerKnows, SupervisorKnows, ReaderKnows
<1>6. FailuresAreReal'
  BY DEF FailuresAreReal, Real, SupervisorKnows, ReaderKnows, CallerKnows
<1>7. OkIsComplete'
  BY DEF OkIsComplete, CallerKnows, SupervisorKnows, ReaderKnows, Holders
<1>8. OnlyOwnGroupKilled'
  BY DEF OnlyOwnGroupKilled, SupervisorKnows
<1> QED
  BY <1>1, <1>2, <1>3, <1>4, <1>5, <1>6, <1>7, <1>8

\* The supervisor reaps a killed leader.
LEMMA WaitKilledIInv == IInv /\ WaitKilled => IInv'
<1> SUFFICES ASSUME IInv, WaitKilled PROVE IInv'
  OBVIOUS
<1> USE DEF IInv, TypeOK, WaitKilled, world, readers, control, supervisor, client
<1>1. TypeOK'
  BY DEF ReaderKnows
<1>2. SupervisorKnows'
  BY DEF SupervisorKnows, GroupGone
<1>3. ReaderKnows'
  BY DEF ReaderKnows, Holders
<1>4. StopIsForFailure'
  BY DEF StopIsForFailure, SupervisorKnows, CallerKnows
<1>5. CallerKnows'
  BY DEF CallerKnows, SupervisorKnows, ReaderKnows
<1>6. FailuresAreReal'
  <2>1. state'.failure = failing
    OBVIOUS
  <2> QED
    BY <2>1 DEF FailuresAreReal, Real
<1>7. OkIsComplete'
  <2>1. result # "ok"
    BY DEF CallerKnows
  <2> QED
    BY <2>1 DEF OkIsComplete
<1>8. OnlyOwnGroupKilled'
  BY DEF OnlyOwnGroupKilled, SupervisorKnows
<1> QED
  BY <1>1, <1>2, <1>3, <1>4, <1>5, <1>6, <1>7, <1>8

\* The supervisor polls the leader.
LEMMA PollIInv == IInv /\ Poll => IInv'
<1> SUFFICES ASSUME IInv, Poll PROVE IInv'
  OBVIOUS
<1> USE DEF IInv, TypeOK, Poll, world, readers, control, supervisor, client
<1>1. TypeOK'
  BY DEF ReaderKnows
<1>2. SupervisorKnows'
  BY DEF SupervisorKnows, GroupGone
<1>3. ReaderKnows'
  BY DEF ReaderKnows, Holders
<1>4. StopIsForFailure'
  BY DEF StopIsForFailure, SupervisorKnows, CallerKnows
<1>5. CallerKnows'
  BY DEF CallerKnows, SupervisorKnows, ReaderKnows
<1>6. FailuresAreReal'
  BY DEF FailuresAreReal, Real, SupervisorKnows, ReaderKnows, CallerKnows
<1>7. OkIsComplete'
  BY DEF OkIsComplete, CallerKnows, SupervisorKnows, ReaderKnows, Holders
<1>8. OnlyOwnGroupKilled'
  BY DEF OnlyOwnGroupKilled, SupervisorKnows
<1> QED
  BY <1>1, <1>2, <1>3, <1>4, <1>5, <1>6, <1>7, <1>8

\* The supervisor tears down what an exited leader left.
LEMMA TerminateDescendantsIInv == IInv /\ TerminateDescendants => IInv'
<1> SUFFICES ASSUME IInv, TerminateDescendants PROVE IInv'
  OBVIOUS
<1> USE DEF IInv, TypeOK, TerminateDescendants, KillGroup, Reached, world, readers, control, supervisor, client
<1>1. TypeOK'
  <2>1. killed' \in BOOLEAN /\ foreign' \in BOOLEAN
    OBVIOUS
  <2>2. missed' \in BOOLEAN /\ alive' \subseteq Descendants
    OBVIOUS
  <2>3. failing' \in {None} \cup Failures
    OBVIOUS
  <2> QED
    BY <2>1, <2>2, <2>3
<1>2. SupervisorKnows'
  BY DEF SupervisorKnows, GroupGone
<1>3. ReaderKnows'
  BY DEF ReaderKnows, Holders
<1>4. StopIsForFailure'
  BY DEF StopIsForFailure, SupervisorKnows, CallerKnows
<1>5. CallerKnows'
  BY DEF CallerKnows, SupervisorKnows, ReaderKnows
<1>6. FailuresAreReal'
  BY DEF FailuresAreReal, Real, SupervisorKnows, ReaderKnows, CallerKnows
<1>7. OkIsComplete'
  BY DEF OkIsComplete, CallerKnows, SupervisorKnows, ReaderKnows, Holders
<1>8. OnlyOwnGroupKilled'
  BY DEF OnlyOwnGroupKilled, SupervisorKnows
<1> QED
  BY <1>1, <1>2, <1>3, <1>4, <1>5, <1>6, <1>7, <1>8

\* The supervisor reaps an exited leader.
LEMMA WaitExitedIInv == IInv /\ WaitExited => IInv'
<1> SUFFICES ASSUME IInv, WaitExited PROVE IInv'
  OBVIOUS
<1> USE DEF IInv, TypeOK, WaitExited, world, readers, control, supervisor, client
<1>1. TypeOK'
  BY DEF ReaderKnows
<1>2. SupervisorKnows'
  BY DEF SupervisorKnows, GroupGone
<1>3. ReaderKnows'
  BY DEF ReaderKnows, Holders
<1>4. StopIsForFailure'
  BY DEF StopIsForFailure, SupervisorKnows, CallerKnows
<1>5. CallerKnows'
  BY DEF CallerKnows, SupervisorKnows, ReaderKnows
<1>6. FailuresAreReal'
  BY DEF FailuresAreReal, Real, SupervisorKnows, ReaderKnows, CallerKnows
<1>7. OkIsComplete'
  BY DEF OkIsComplete, CallerKnows, SupervisorKnows, ReaderKnows, Holders
<1>8. OnlyOwnGroupKilled'
  BY DEF OnlyOwnGroupKilled, SupervisorKnows
<1> QED
  BY <1>1, <1>2, <1>3, <1>4, <1>5, <1>6, <1>7, <1>8

\* Waiting for the leader fails.
LEMMA WaitFailsIInv == IInv /\ WaitFails => IInv'
<1> SUFFICES ASSUME IInv, WaitFails PROVE IInv'
  OBVIOUS
<1> USE DEF IInv, TypeOK, WaitFails, world, readers, control, supervisor, client
<1>1. TypeOK'
  BY DEF ReaderKnows
<1>2. SupervisorKnows'
  BY DEF SupervisorKnows, GroupGone
<1>3. ReaderKnows'
  BY DEF ReaderKnows, Holders
<1>4. StopIsForFailure'
  BY DEF StopIsForFailure, SupervisorKnows, CallerKnows
<1>5. CallerKnows'
  BY DEF CallerKnows, SupervisorKnows, ReaderKnows
<1>6. FailuresAreReal'
  BY DEF FailuresAreReal, Real, SupervisorKnows, ReaderKnows, CallerKnows
<1>7. OkIsComplete'
  BY DEF OkIsComplete, CallerKnows, SupervisorKnows, ReaderKnows, Holders
<1>8. OnlyOwnGroupKilled'
  BY DEF OnlyOwnGroupKilled, SupervisorKnows
<1> QED
  BY <1>1, <1>2, <1>3, <1>4, <1>5, <1>6, <1>7, <1>8

\* The caller begins to write.
LEMMA BeginWriteIInv == IInv /\ BeginWrite => IInv'
<1> SUFFICES ASSUME IInv, BeginWrite PROVE IInv'
  OBVIOUS
<1> USE DEF IInv, TypeOK, BeginWrite, world, readers, control, supervisor, client
<1>1. TypeOK'
  BY DEF ReaderKnows
<1>2. SupervisorKnows'
  BY DEF SupervisorKnows, GroupGone
<1>3. ReaderKnows'
  BY DEF ReaderKnows, Holders
<1>4. StopIsForFailure'
  BY DEF StopIsForFailure, SupervisorKnows, CallerKnows
<1>5. CallerKnows'
  BY DEF CallerKnows, SupervisorKnows, ReaderKnows
<1>6. FailuresAreReal'
  BY DEF FailuresAreReal, Real, SupervisorKnows, ReaderKnows, CallerKnows
<1>7. OkIsComplete'
  BY DEF OkIsComplete, CallerKnows, SupervisorKnows, ReaderKnows, Holders
<1>8. OnlyOwnGroupKilled'
  BY DEF OnlyOwnGroupKilled, SupervisorKnows
<1> QED
  BY <1>1, <1>2, <1>3, <1>4, <1>5, <1>6, <1>7, <1>8

\* The caller has written, or aborts.
LEMMA WriteTakenIInv == IInv /\ WriteTaken => IInv'
<1> SUFFICES ASSUME IInv, WriteTaken PROVE IInv'
  OBVIOUS
<1> USE DEF IInv, TypeOK, WriteTaken, RequestStop, Abort, world, readers, control, supervisor, client
<1>1. TypeOK'
  <2>1. CASE caller' = "idle"
    BY <2>1
  <2>2. CASE Abort("write")
    BY <2>2
  <2> QED
    BY <2>1, <2>2
<1>2. SupervisorKnows'
  BY DEF SupervisorKnows, GroupGone
<1>3. ReaderKnows'
  BY DEF ReaderKnows, Holders
<1>4. StopIsForFailure'
  BY DEF StopIsForFailure, SupervisorKnows, CallerKnows
<1>5. CallerKnows'
  BY DEF CallerKnows, SupervisorKnows, ReaderKnows
<1>6. FailuresAreReal'
  BY DEF FailuresAreReal, Real, SupervisorKnows, ReaderKnows, CallerKnows
<1>7. OkIsComplete'
  BY DEF OkIsComplete, CallerKnows, SupervisorKnows, ReaderKnows, Holders
<1>8. OnlyOwnGroupKilled'
  BY DEF OnlyOwnGroupKilled, SupervisorKnows
<1> QED
  BY <1>1, <1>2, <1>3, <1>4, <1>5, <1>6, <1>7, <1>8

\* The caller calls finish.
LEMMA CallFinishIInv == IInv /\ CallFinish => IInv'
<1> SUFFICES ASSUME IInv, CallFinish PROVE IInv'
  OBVIOUS
<1> USE DEF IInv, TypeOK, CallFinish, world, readers, control, supervisor, client
<1>1. TypeOK'
  BY DEF ReaderKnows
<1>2. SupervisorKnows'
  BY DEF SupervisorKnows, GroupGone
<1>3. ReaderKnows'
  BY DEF ReaderKnows, Holders
<1>4. StopIsForFailure'
  BY DEF StopIsForFailure, SupervisorKnows, CallerKnows
<1>5. CallerKnows'
  BY DEF CallerKnows, SupervisorKnows, ReaderKnows
<1>6. FailuresAreReal'
  BY DEF FailuresAreReal, Real, SupervisorKnows, ReaderKnows, CallerKnows
<1>7. OkIsComplete'
  BY DEF OkIsComplete, CallerKnows, SupervisorKnows, ReaderKnows, Holders
<1>8. OnlyOwnGroupKilled'
  BY DEF OnlyOwnGroupKilled, SupervisorKnows
<1> QED
  BY <1>1, <1>2, <1>3, <1>4, <1>5, <1>6, <1>7, <1>8

\* The caller drops the process.
LEMMA CallDropIInv == IInv /\ CallDrop => IInv'
<1> SUFFICES ASSUME IInv, CallDrop PROVE IInv'
  OBVIOUS
<1> USE DEF IInv, TypeOK, CallDrop, RequestStop, world, readers, control, supervisor, client
<1>1. TypeOK'
  BY DEF ReaderKnows
<1>2. SupervisorKnows'
  BY DEF SupervisorKnows, GroupGone
<1>3. ReaderKnows'
  BY DEF ReaderKnows, Holders
<1>4. StopIsForFailure'
  BY DEF StopIsForFailure, SupervisorKnows, CallerKnows
<1>5. CallerKnows'
  BY DEF CallerKnows, SupervisorKnows, ReaderKnows
<1>6. FailuresAreReal'
  BY DEF FailuresAreReal, Real, SupervisorKnows, ReaderKnows, CallerKnows
<1>7. OkIsComplete'
  BY DEF OkIsComplete, CallerKnows, SupervisorKnows, ReaderKnows, Holders
<1>8. OnlyOwnGroupKilled'
  BY DEF OnlyOwnGroupKilled, SupervisorKnows
<1> QED
  BY <1>1, <1>2, <1>3, <1>4, <1>5, <1>6, <1>7, <1>8

\* The caller aborts a write.
LEMMA WriteStoppedIInv == IInv /\ WriteStopped => IInv'
<1> SUFFICES ASSUME IInv, WriteStopped PROVE IInv'
  OBVIOUS
<1> USE DEF IInv, TypeOK, WriteStopped, RequestStop, Abort, world, readers, control, supervisor, client
<1>1. TypeOK'
  BY StopReasonIsReal DEF ReaderKnows
<1>2. SupervisorKnows'
  BY DEF SupervisorKnows, GroupGone
<1>3. ReaderKnows'
  BY DEF ReaderKnows, Holders
<1>4. StopIsForFailure'
  BY DEF StopIsForFailure, SupervisorKnows, CallerKnows
<1>5. CallerKnows'
  BY StopReasonIsReal DEF CallerKnows, SupervisorKnows, ReaderKnows
<1>6. FailuresAreReal'
  BY StopReasonIsReal DEF FailuresAreReal, Real, SupervisorKnows, ReaderKnows, CallerKnows
<1>7. OkIsComplete'
  BY StopReasonIsReal DEF OkIsComplete, CallerKnows, SupervisorKnows, ReaderKnows, Holders
<1>8. OnlyOwnGroupKilled'
  BY DEF OnlyOwnGroupKilled, SupervisorKnows
<1> QED
  BY <1>1, <1>2, <1>3, <1>4, <1>5, <1>6, <1>7, <1>8

\* The caller has waited for the supervisor.
LEMMA AwaitDoneIInv == IInv /\ AwaitDone => IInv'
<1> SUFFICES ASSUME IInv, AwaitDone PROVE IInv'
  OBVIOUS
<1> USE DEF IInv, TypeOK, AwaitDone, world, readers, control, supervisor, client
<1>1. TypeOK'
  BY DEF ReaderKnows
<1>2. SupervisorKnows'
  BY DEF SupervisorKnows, GroupGone
<1>3. ReaderKnows'
  BY DEF ReaderKnows, Holders
<1>4. StopIsForFailure'
  BY DEF StopIsForFailure, SupervisorKnows, CallerKnows
<1>5. CallerKnows'
  BY DEF CallerKnows, SupervisorKnows, ReaderKnows
<1>6. FailuresAreReal'
  BY DEF FailuresAreReal, Real, SupervisorKnows, ReaderKnows, CallerKnows
<1>7. OkIsComplete'
  BY DEF OkIsComplete, CallerKnows, SupervisorKnows, ReaderKnows, Holders
<1>8. OnlyOwnGroupKilled'
  BY DEF OnlyOwnGroupKilled, SupervisorKnows
<1> QED
  BY <1>1, <1>2, <1>3, <1>4, <1>5, <1>6, <1>7, <1>8

\* The caller waits for the reader.
LEMMA JoinReaderIInv == IInv /\ JoinReader => IInv'
<1> SUFFICES ASSUME IInv, JoinReader PROVE IInv'
  OBVIOUS
<1> USE DEF IInv, TypeOK, JoinReader, world, readers, control, supervisor, client
<1>1. TypeOK'
  BY DEF ReaderKnows
<1>2. SupervisorKnows'
  BY DEF SupervisorKnows, GroupGone
<1>3. ReaderKnows'
  BY DEF ReaderKnows, Holders
<1>4. StopIsForFailure'
  BY DEF StopIsForFailure, SupervisorKnows, CallerKnows
<1>5. CallerKnows'
  BY DEF CallerKnows, SupervisorKnows, ReaderKnows
<1>6. FailuresAreReal'
  BY DEF FailuresAreReal, Real, SupervisorKnows, ReaderKnows, CallerKnows
<1>7. OkIsComplete'
  BY DEF OkIsComplete, CallerKnows, SupervisorKnows, ReaderKnows, Holders
<1>8. OnlyOwnGroupKilled'
  BY DEF OnlyOwnGroupKilled, SupervisorKnows
<1> QED
  BY <1>1, <1>2, <1>3, <1>4, <1>5, <1>6, <1>7, <1>8

\* The caller gives the reader up.
LEMMA GiveUpReaderIInv == IInv /\ GiveUpReader => IInv'
<1> SUFFICES ASSUME IInv, GiveUpReader PROVE IInv'
  OBVIOUS
<1> USE DEF IInv, TypeOK, GiveUpReader, world, readers, control, supervisor, client
<1>1. TypeOK'
  BY DEF ReaderKnows
<1>2. SupervisorKnows'
  BY DEF SupervisorKnows, GroupGone
<1>3. ReaderKnows'
  BY DEF ReaderKnows, Holders
<1>4. StopIsForFailure'
  BY DEF StopIsForFailure, SupervisorKnows, CallerKnows
<1>5. CallerKnows'
  BY DEF CallerKnows, SupervisorKnows, ReaderKnows
<1>6. FailuresAreReal'
  BY DEF FailuresAreReal, Real, SupervisorKnows, ReaderKnows, CallerKnows
<1>7. OkIsComplete'
  BY DEF OkIsComplete, CallerKnows, SupervisorKnows, ReaderKnows, Holders
<1>8. OnlyOwnGroupKilled'
  BY DEF OnlyOwnGroupKilled, SupervisorKnows
<1> QED
  BY <1>1, <1>2, <1>3, <1>4, <1>5, <1>6, <1>7, <1>8

\* The caller returns.
LEMMA ReturnIInv == IInv /\ Return => IInv'
<1> SUFFICES ASSUME IInv, Return PROVE IInv'
  OBVIOUS
<1> USE DEF IInv, TypeOK, Return, RequestStop, world, readers, control, supervisor, client
<1>1. TypeOK'
  BY ConcludedIsReal DEF ReaderKnows
<1>2. SupervisorKnows'
  BY DEF SupervisorKnows, GroupGone
<1>3. ReaderKnows'
  BY DEF ReaderKnows, Holders
<1>4. StopIsForFailure'
  BY DEF StopIsForFailure, SupervisorKnows, CallerKnows
<1>5. CallerKnows'
  BY ConcludedIsReal DEF CallerKnows, SupervisorKnows, ReaderKnows
<1>6. FailuresAreReal'
  BY ConcludedIsReal DEF FailuresAreReal, Real, SupervisorKnows, ReaderKnows, CallerKnows
<1>7. OkIsComplete'
  <2> SUFFICES ASSUME Concluded = "ok" PROVE OkIsComplete'
    BY DEF OkIsComplete
  <2>1. mode = "finish" /\ state.failure = None /\ slot = "data" /\ sup = "ended"
    BY ConcludedIsReal DEF CallerKnows
  <2>2. ~readerStop
    BY <2>1 DEF StopIsForFailure
  <2>3. ~killed /\ state.status /\ got = wrote /\ Holders = {}
    BY <2>1, <2>2 DEF SupervisorKnows, ReaderKnows
  <2> QED
    BY <2>1, <2>3 DEF OkIsComplete, Holders
<1>8. OnlyOwnGroupKilled'
  BY DEF OnlyOwnGroupKilled, SupervisorKnows
<1> QED
  BY <1>1, <1>2, <1>3, <1>4, <1>5, <1>6, <1>7, <1>8

\* The outside writes.
LEMMA ProduceIInv == IInv /\ Produce => IInv'
<1> SUFFICES ASSUME IInv, Produce PROVE IInv'
  OBVIOUS
<1> USE DEF IInv, TypeOK, Produce, world, readers, control, supervisor, client
<1>1. TypeOK'
  BY DEF ReaderKnows
<1>2. SupervisorKnows'
  BY DEF SupervisorKnows, GroupGone
<1>3. ReaderKnows'
  <2>1. Holders' = Holders
    BY DEF Holders
  <2>2. CASE reader = "reading"
    BY <2>1, <2>2 DEF ReaderKnows
  <2>3. CASE reader # "reading"
    BY <2>1, <2>3 DEF ReaderKnows
  <2> QED
    BY <2>2, <2>3
<1>4. StopIsForFailure'
  BY DEF StopIsForFailure, SupervisorKnows, CallerKnows
<1>5. CallerKnows'
  BY DEF CallerKnows, SupervisorKnows, ReaderKnows
<1>6. FailuresAreReal'
  BY DEF FailuresAreReal, Real, SupervisorKnows, ReaderKnows, CallerKnows
<1>7. OkIsComplete'
  BY DEF OkIsComplete, CallerKnows, SupervisorKnows, ReaderKnows, Holders
<1>8. OnlyOwnGroupKilled'
  BY DEF OnlyOwnGroupKilled, SupervisorKnows
<1> QED
  BY <1>1, <1>2, <1>3, <1>4, <1>5, <1>6, <1>7, <1>8

\* The outside lets a process exit.
LEMMA ExitIInv == IInv /\ Exit => IInv'
<1> SUFFICES ASSUME IInv, Exit PROVE IInv'
  OBVIOUS
<1> USE DEF IInv, TypeOK, Exit, world, readers, control, supervisor, client
<1>1. TypeOK'
  <2>1. alive' \subseteq Descendants
    OBVIOUS
  <2>2. leader' \in {"running", "zombie", "reaped"}
    OBVIOUS
  <2> QED
    BY <2>1, <2>2
<1>2. SupervisorKnows'
  BY DEF SupervisorKnows, GroupGone
<1>3. ReaderKnows'
  BY DEF ReaderKnows, Holders
<1>4. StopIsForFailure'
  BY DEF StopIsForFailure, SupervisorKnows, CallerKnows
<1>5. CallerKnows'
  BY DEF CallerKnows, SupervisorKnows, ReaderKnows
<1>6. FailuresAreReal'
  BY DEF FailuresAreReal, Real, SupervisorKnows, ReaderKnows, CallerKnows
<1>7. OkIsComplete'
  BY DEF OkIsComplete, CallerKnows, SupervisorKnows, ReaderKnows, Holders
<1>8. OnlyOwnGroupKilled'
  BY DEF OnlyOwnGroupKilled, SupervisorKnows
<1> QED
  BY <1>1, <1>2, <1>3, <1>4, <1>5, <1>6, <1>7, <1>8

\* The outside cancels.
LEMMA CancelIInv == IInv /\ Cancel => IInv'
<1> SUFFICES ASSUME IInv, Cancel PROVE IInv'
  OBVIOUS
<1> USE DEF IInv, TypeOK, Cancel, world, readers, control, supervisor, client
<1>1. TypeOK'
  BY DEF ReaderKnows
<1>2. SupervisorKnows'
  BY DEF SupervisorKnows, GroupGone
<1>3. ReaderKnows'
  BY DEF ReaderKnows, Holders
<1>4. StopIsForFailure'
  BY DEF StopIsForFailure, SupervisorKnows, CallerKnows
<1>5. CallerKnows'
  BY DEF CallerKnows, SupervisorKnows, ReaderKnows
<1>6. FailuresAreReal'
  BY DEF FailuresAreReal, Real, SupervisorKnows, ReaderKnows, CallerKnows
<1>7. OkIsComplete'
  BY DEF OkIsComplete, CallerKnows, SupervisorKnows, ReaderKnows, Holders
<1>8. OnlyOwnGroupKilled'
  BY DEF OnlyOwnGroupKilled, SupervisorKnows
<1> QED
  BY <1>1, <1>2, <1>3, <1>4, <1>5, <1>6, <1>7, <1>8

\* The outside lets the deadline pass.
LEMMA DeadlinePassesIInv == IInv /\ DeadlinePasses => IInv'
<1> SUFFICES ASSUME IInv, DeadlinePasses PROVE IInv'
  OBVIOUS
<1> USE DEF IInv, TypeOK, DeadlinePasses, world, readers, control, supervisor, client
<1>1. TypeOK'
  BY DEF ReaderKnows
<1>2. SupervisorKnows'
  BY DEF SupervisorKnows, GroupGone
<1>3. ReaderKnows'
  BY DEF ReaderKnows, Holders
<1>4. StopIsForFailure'
  BY DEF StopIsForFailure, SupervisorKnows, CallerKnows
<1>5. CallerKnows'
  BY DEF CallerKnows, SupervisorKnows, ReaderKnows
<1>6. FailuresAreReal'
  BY DEF FailuresAreReal, Real, SupervisorKnows, ReaderKnows, CallerKnows
<1>7. OkIsComplete'
  BY DEF OkIsComplete, CallerKnows, SupervisorKnows, ReaderKnows, Holders
<1>8. OnlyOwnGroupKilled'
  BY DEF OnlyOwnGroupKilled, SupervisorKnows
<1> QED
  BY <1>1, <1>2, <1>3, <1>4, <1>5, <1>6, <1>7, <1>8

\* The outside outgrows a monitored file.
LEMMA ExceedIInv == IInv /\ Exceed => IInv'
<1> SUFFICES ASSUME IInv, Exceed PROVE IInv'
  OBVIOUS
<1> USE DEF IInv, TypeOK, Exceed, world, readers, control, supervisor, client
<1>1. TypeOK'
  BY DEF ReaderKnows
<1>2. SupervisorKnows'
  BY DEF SupervisorKnows, GroupGone
<1>3. ReaderKnows'
  BY DEF ReaderKnows, Holders
<1>4. StopIsForFailure'
  BY DEF StopIsForFailure, SupervisorKnows, CallerKnows
<1>5. CallerKnows'
  BY DEF CallerKnows, SupervisorKnows, ReaderKnows
<1>6. FailuresAreReal'
  BY DEF FailuresAreReal, Real, SupervisorKnows, ReaderKnows, CallerKnows
<1>7. OkIsComplete'
  BY DEF OkIsComplete, CallerKnows, SupervisorKnows, ReaderKnows, Holders
<1>8. OnlyOwnGroupKilled'
  BY DEF OnlyOwnGroupKilled, SupervisorKnows
<1> QED
  BY <1>1, <1>2, <1>3, <1>4, <1>5, <1>6, <1>7, <1>8

LEMMA NextIInv == IInv /\ [Next]_vars => IInv'
<1> SUFFICES ASSUME IInv, [Next]_vars PROVE IInv'
  OBVIOUS
<1>1. CASE UNCHANGED vars
  BY <1>1 DEF vars, world, readers, control, supervisor, client, IInv, TypeOK,
    SupervisorKnows, GroupGone, ReaderKnows, Holders, StopIsForFailure, CallerKnows,
    FailuresAreReal, Real, OkIsComplete, OnlyOwnGroupKilled
<1>2. CASE ReaderStep
  BY <1>2, ReadChunkIInv, ReadEndIInv, ReadStoppedIInv, ReadFailsIInv, StoreResultIInv
  DEF ReaderStep, ReadOn
<1>3. CASE SupervisorStep
  BY <1>3, CheckIInv, StopReaderIInv, TerminateRunningIInv, WaitKilledIInv, PollIInv,
    TerminateDescendantsIInv, WaitExitedIInv
  DEF SupervisorStep
<1>4. CASE WaitFails
  BY <1>4, WaitFailsIInv
<1>5. CASE BeginWrite \/ WriteTaken \/ CallFinish \/ CallDrop \/ CallStep
  BY <1>5, BeginWriteIInv, WriteTakenIInv, CallFinishIInv, CallDropIInv, WriteStoppedIInv,
    AwaitDoneIInv, JoinReaderIInv, GiveUpReaderIInv, ReturnIInv
  DEF CallStep
<1>6. CASE World
  BY <1>6, ProduceIInv, ExitIInv, CancelIInv, DeadlinePassesIInv, ExceedIInv DEF World
<1> QED
  BY <1>1, <1>2, <1>3, <1>4, <1>5, <1>6 DEF Next

-----------------------------------------------------------------------------
(* Theorems. *)

\* What is known at every point of supervisor, reader and caller always holds.
THEOREM Invariance == Spec => []IInv
<1>1. Init /\ [][Next]_vars => []IInv
  BY InitIInv, NextIInv, PTL
<1> QED
  BY <1>1, PTL DEF Spec

\* Every variable has its type.
THEOREM TypeCorrect == Spec => []TypeOK
BY Invariance, PTL DEF IInv

\* A call of finish that succeeds has the whole stream of a helper that was
\* not killed, whatever joined, stored or gave up the reader's result.
THEOREM SuccessIsComplete == Spec => []OkIsComplete
BY Invariance, PTL DEF IInv

\* When a call returns, the leader is reaped, unless waiting for it failed, and
\* it and its group are gone, unless terminating them failed.
THEOREM TreeIsGone == Spec => []NothingIsLeft
<1>1. IInv => NothingIsLeft
  BY DEF IInv, CallerKnows, SupervisorKnows, GroupGone, NothingIsLeft
<1> QED
  BY <1>1, Invariance, PTL

\* The group is never signalled once the leader is reaped.
THEOREM NoForeignGroup == Spec => []OnlyOwnGroupKilled
BY Invariance, PTL DEF IInv

\* Every error that reaches the caller has happened.
THEOREM ErrorsAreReal == Spec => []ReasonsAreReal
<1>1. IInv => ReasonsAreReal
  BY DEF IInv, FailuresAreReal, Real, ReasonsAreReal
<1> QED
  BY <1>1, Invariance, PTL

=============================================================================
