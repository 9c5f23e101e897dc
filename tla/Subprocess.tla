----------------------------- MODULE Subprocess -----------------------------
(***************************************************************************)
(* One helper under the subprocess broker (src/src/subprocess.rs) on Unix: *)
(* the caller of RunningProcess, the supervisor thread, the reader thread  *)
(* of a captured stream, and the helper itself with two descendants.       *)
(*                                                                         *)
(* "member" stays in the process group the helper leads; "leaver" has      *)
(* called setsid, so only the walk of the child lists finds it, and only   *)
(* while the leader runs.  All of them hold the write end of the stream.   *)
(***************************************************************************)
EXTENDS Naturals

CONSTANTS
  Limit,      \* OutputMode::Capture.max_bytes
  MaxWrites,  \* bound on the bytes written to the stream
  None        \* no failure, no result

ASSUME LimitsAssumption == Limit \in Nat /\ MaxWrites \in Nat

VARIABLES
  leader,     \* the child: running, zombie, reaped
  alive,      \* the descendants that run
  cancelled,  \* CancellationToken::is_cancelled
  past,       \* the deadline has passed
  exceeded,   \* a monitored file or directory is above its limit
  wrote,      \* bytes written to the stream
  pending,    \* those of them still in the pipe
  got,        \* bytes the reader keeps
  reader,     \* reader thread: reading, or the ReaderResult it will store, ended
  slot,       \* ReaderSlot.result
  readerStop, \* ProcessControl.reader_stop
  forceStop,  \* ProcessControl.force_stop
  requested,  \* ProcessControl.requested_failure
  sup,        \* where the supervisor is
  failing,    \* the failure it is acting on
  state,      \* ControlState
  caller,     \* where the caller of RunningProcess is
  mode,       \* the call it makes
  result,     \* what that call returns
  \* History, read by properties only.
  killed,     \* the leader was killed while it ran
  missed,     \* terminating the tree failed
  lost,       \* Child::wait failed
  foreign     \* a group that is not the helper's was killed

world == <<leader, alive, cancelled, past, exceeded, wrote, killed, missed, lost,
           foreign>>
readers == <<pending, got, reader, slot>>
control == <<readerStop, forceStop, requested>>
supervisor == <<sup, failing, state>>
client == <<caller, mode, result>>
vars == <<world, readers, control, supervisor, client>>

-----------------------------------------------------------------------------

Failures == {"reader", "limit", "monitored", "cancelled", "timeout", "terminate", "wait", "write"}

ReaderResults == {"data", "limit", "io", "panic"}

ASSUME NoneAssumption == None \notin {"ok", "finish", "abort", "drop"} \cup Failures \cup ReaderResults

Descendants == {"member", "leaver"}

Init ==
  /\ leader = "running"
  /\ alive \in SUBSET Descendants
  /\ cancelled = FALSE /\ past = FALSE /\ exceeded = FALSE
  /\ wrote = 0 /\ pending = 0 /\ got = 0
  /\ reader = "reading" /\ slot = None
  /\ readerStop = FALSE /\ forceStop = FALSE /\ requested = None
  /\ sup = "check" /\ failing = None
  /\ state = [status |-> FALSE, failure |-> None, done |-> FALSE]
  /\ caller = "idle" /\ mode = None /\ result = None
  /\ killed = FALSE /\ missed = FALSE /\ lost = FALSE /\ foreign = FALSE

\* Processes that hold the write end of the stream.
Holders == alive \cup (IF leader = "running" THEN {"leader"} ELSE {})

-----------------------------------------------------------------------------
(* The reader thread (ReaderSlot::start). *)

\* A reader that ends loses what is still in the pipe.
Finish(outcome) == reader' = outcome /\ pending' = 0 /\ UNCHANGED got

\* Mutant: a stream exactly as long as the limit is refused.
ReadChunkStrict ==
  /\ reader = "reading"
  /\ \E n \in 1 .. pending :
       IF n >= Limit - got
         THEN got' = Limit /\ reader' = "limit" /\ pending' = 0
         ELSE got' = got + n /\ pending' = pending - n /\ UNCHANGED reader
  /\ UNCHANGED <<slot, world, control, supervisor, client>>

\* The pipe has bytes: a chunk is kept if it fits the limit.
ReadChunk ==
  /\ reader = "reading"
  /\ \E n \in 1 .. pending :
       IF n > Limit - got
         THEN got' = Limit /\ reader' = "limit" /\ pending' = 0
         ELSE got' = got + n /\ pending' = pending - n /\ UNCHANGED reader
  /\ UNCHANGED <<slot, world, control, supervisor, client>>

\* Nobody holds the write end any more.
ReadEnd ==
  /\ reader = "reading"
  /\ pending = 0 /\ Holders = {}
  /\ Finish("data")
  /\ UNCHANGED <<slot, world, control, supervisor, client>>

\* Nothing to read, and told to stop.
ReadStopped ==
  /\ reader = "reading"
  /\ pending = 0 /\ Holders # {}
  /\ readerStop
  /\ Finish("data")
  /\ UNCHANGED <<slot, world, control, supervisor, client>>

ReadFails ==
  /\ reader = "reading"
  /\ Finish("io")
  /\ UNCHANGED <<slot, world, control, supervisor, client>>

\* The result is stored, over whatever join_readers_bounded left.
StoreResult ==
  /\ reader \in ReaderResults
  /\ slot' = reader
  /\ reader' = "ended"
  /\ UNCHANGED <<pending, got, world, control, supervisor, client>>

ReadOn == ReadChunk \/ ReadEnd \/ ReadStopped \/ StoreResult

ReaderStep == ReadOn \/ ReadFails

\* reader_failure_from
ReaderFailure ==
  CASE slot = "limit" -> "limit"
    [] slot \in {"io", "panic"} -> "reader"
    [] OTHER -> None

\* reader_failure_from, then monitored_failure
OutputFailure ==
  IF ReaderFailure # None THEN ReaderFailure
  ELSE IF exceeded THEN "monitored" ELSE None

\* Mutant: the deadline is left to the owner.
StopReasonTimeless ==
  CASE OutputFailure # None -> OutputFailure
    [] OutputFailure = None /\ cancelled -> "cancelled"
    [] OTHER -> None

\* The conditions under which a running helper is stopped, by priority.
StopReason ==
  CASE OutputFailure # None -> OutputFailure
    [] OutputFailure = None /\ cancelled -> "cancelled"
    [] OutputFailure = None /\ ~cancelled /\ past -> "timeout"
    [] OTHER -> None

-----------------------------------------------------------------------------
(* The supervisor thread (supervise). *)

\* The failure the loop finds; a forced stop takes the requested one.
Check ==
  /\ sup = "check"
  /\ failing' = IF ~forceStop THEN StopReason
                ELSE IF requested # None THEN requested ELSE "cancelled"
  /\ requested' = IF forceStop THEN None ELSE requested
  /\ sup' = IF failing' # None THEN "stop" ELSE "poll"
  /\ UNCHANGED <<state, readerStop, forceStop, world, readers, client>>

\* A failure stops the reader first.
StopReader ==
  /\ sup = "stop"
  /\ readerStop' = TRUE
  /\ sup' = "kill"
  /\ UNCHANGED <<failing, state, forceStop, requested, world, readers, client>>

\* The descendants a kill of the tree reaches: the group, and the child lists
\* of a leader that runs.
Reached == IF leader = "running" THEN Descendants ELSE {"member"}

\* All of them are killed, or an error is kept and any of them may be missed.
\* Once the leader is reaped, its process id may name somebody else's group.
KillGroup ==
  /\ \/ alive' = alive \ Reached /\ UNCHANGED missed
     \/ \E K \in SUBSET Reached : alive' = alive \ K /\ missed' = TRUE
  /\ foreign' = (foreign \/ leader = "reaped")

\* ProcessTree::terminate_running: descendants, group and leader.  A leader
\* the kill may not signal, one with other credentials, runs on.
TerminateRunning ==
  /\ sup = "kill"
  /\ KillGroup
  /\ \/ /\ leader' = IF leader = "running" THEN "zombie" ELSE leader
        /\ killed' = (killed \/ leader = "running")
     \/ /\ leader = "running" /\ missed'
        /\ UNCHANGED <<leader, killed>>
  /\ failing' = IF missed' # missed THEN "terminate" ELSE failing
  /\ sup' = "wait"
  /\ UNCHANGED <<state, cancelled, past, exceeded, wrote, lost, control, readers, client>>

\* Child::wait, which blocks as long as the leader runs; then the failure is
\* recorded.
WaitKilled ==
  /\ sup = "wait"
  /\ leader = "zombie"
  /\ leader' = "reaped"
  /\ state' = [status |-> FALSE, failure |-> failing, done |-> TRUE]
  /\ sup' = "ended"
  /\ UNCHANGED <<failing, alive, cancelled, past, exceeded, wrote,
                 killed, missed, lost, foreign, control, readers, client>>

\* Mutant: polling reaps the leader before its group is torn down.
PollReaps ==
  /\ sup = "poll"
  /\ sup' = IF leader = "running" THEN "check" ELSE "descendants"
  /\ leader' = IF leader = "running" THEN "running" ELSE "reaped"
  /\ UNCHANGED <<failing, state, alive, cancelled, past, exceeded,
                 wrote, killed, missed, lost, foreign, control, readers, client>>

\* poll_child only observes the exit (WNOWAIT); it may fail.
Poll ==
  /\ sup = "poll"
  /\ \/ sup' = (IF leader = "running" THEN "check" ELSE "descendants") /\ UNCHANGED failing
     \/ sup' = "stop" /\ failing' = "wait"
  /\ UNCHANGED <<state, world, control, readers, client>>

\* Mutant: the descendants of a helper that exits are left alone.
TerminateNobody ==
  /\ sup = "descendants"
  /\ sup' = "reap"
  /\ UNCHANGED <<failing, state, world, control, readers, client>>

\* ProcessTree::terminate_descendants of a leader that has exited.
TerminateDescendants ==
  /\ sup = "descendants"
  /\ KillGroup
  /\ failing' = IF missed' # missed THEN "terminate" ELSE None
  /\ sup' = "reap"
  /\ UNCHANGED <<state, leader, cancelled, past, exceeded, wrote,
                 killed, lost, control, readers, client>>

\* Child::wait, then the status, or the failure to terminate, is recorded.
WaitExited ==
  /\ sup = "reap"
  /\ leader' = "reaped"
  /\ state' = [status |-> failing = None, failure |-> failing, done |-> TRUE]
  /\ sup' = "ended"
  /\ UNCHANGED <<failing, alive, cancelled, past, exceeded, wrote,
                 killed, missed, lost, foreign, control, readers, client>>

\* Child::wait returns an error: the leader is left as it is, and the error is
\* recorded behind that of terminating it but before any other.
WaitFails ==
  /\ sup \in {"wait", "reap"}
  /\ lost' = TRUE
  /\ state' = [status |-> FALSE, done |-> TRUE,
               failure |-> IF failing = "terminate" THEN failing ELSE "wait"]
  /\ sup' = "ended"
  /\ UNCHANGED <<failing, leader, alive, cancelled, past, exceeded, wrote,
                 killed, missed, foreign, control, readers, client>>

\* What the supervisor does; that Child::wait fails is up to the system.
SupervisorStep ==
  \/ Check \/ StopReader \/ TerminateRunning \/ WaitKilled
  \/ Poll \/ TerminateDescendants \/ WaitExited

-----------------------------------------------------------------------------
(* The caller. *)

\* ProcessControl::request_stop
RequestStop(failure) ==
  /\ requested' = IF requested = None THEN failure ELSE requested
  /\ readerStop' = TRUE
  /\ forceStop' = TRUE

BeginWrite ==
  /\ caller = "idle"
  /\ caller' = "write"
  /\ UNCHANGED <<mode, result, world, readers, control, supervisor>>

\* abort: the error is the call's, whatever the supervisor reports.
Abort(failure) ==
  /\ RequestStop(failure)
  /\ caller' = "await" /\ mode' = "abort" /\ result' = failure

\* write_all looks for a reason to stop before every write.
WriteStopped ==
  /\ caller = "write"
  /\ StopReason # None
  /\ Abort(StopReason)
  /\ UNCHANGED <<world, readers, supervisor>>

\* The helper takes the bytes, or nobody is left to take them.
WriteTaken ==
  /\ caller = "write"
  /\ StopReason = None
  /\ \/ /\ Holders # {}
        /\ caller' = "idle"
        /\ UNCHANGED <<mode, result, control>>
     \/ Abort("write")
  /\ UNCHANGED <<world, readers, supervisor>>

CallFinish ==
  /\ caller = "idle"
  /\ caller' = "await" /\ mode' = "finish"
  /\ UNCHANGED <<result, world, readers, control, supervisor>>

CallDrop ==
  /\ caller = "idle"
  /\ RequestStop(None)
  /\ caller' = "await" /\ mode' = "drop"
  /\ UNCHANGED <<result, world, readers, supervisor>>

\* wait_done and join_supervisor
AwaitDone ==
  /\ caller = "await"
  /\ state.done /\ sup = "ended"
  /\ caller' = "join"
  /\ UNCHANGED <<mode, result, world, readers, control, supervisor>>

\* Mutant: the reader is joined however long it takes.
JoinReaderUnbounded ==
  /\ caller = "join"
  /\ slot # None
  /\ caller' = "conclude"
  /\ UNCHANGED <<mode, result, readers, world, control, supervisor>>

\* join_readers_bounded: the reader has stored its result, or a second passes.
JoinReader ==
  /\ caller = "join"
  /\ caller' = IF slot # None THEN "conclude" ELSE "giveup"
  /\ UNCHANGED <<mode, result, readers, world, control, supervisor>>

\* The reader is detached; what it has stored meanwhile is overwritten.
GiveUpReader ==
  /\ caller = "giveup"
  /\ slot' = "panic"
  /\ caller' = "conclude"
  /\ UNCHANGED <<mode, result, pending, got, reader, world, control, supervisor>>

\* Mutant: finish does not look at the reader again.
ConcludedUnchecked ==
  IF mode # "finish" THEN result
  ELSE IF state.failure # None THEN state.failure ELSE "ok"

\* The result of finish, or the error of abort.
Concluded ==
  CASE mode # "finish" -> result
    [] mode = "finish" /\ state.failure # None -> state.failure
    [] mode = "finish" /\ state.failure = None /\ OutputFailure # None -> OutputFailure
    [] OTHER -> "ok"

\* Drop runs on the process when finish returns, and after an aborted write.
Return ==
  /\ caller = "conclude"
  /\ result' = Concluded
  /\ RequestStop(None)
  /\ caller' = "returned"
  /\ UNCHANGED <<mode, world, readers, supervisor>>

\* What the caller does once it is inside a call.
CallStep == WriteStopped \/ AwaitDone \/ JoinReader \/ GiveUpReader \/ Return

-----------------------------------------------------------------------------
(* The helper, its descendants, and the outside. *)

Produce ==
  /\ wrote < MaxWrites
  /\ Holders # {}
  /\ wrote' = wrote + 1
  /\ pending' = pending + (IF reader = "reading" THEN 1 ELSE 0)
  /\ UNCHANGED <<leader, alive, cancelled, past, exceeded, killed,
                 missed, lost, foreign, got, reader, slot, control, supervisor, client>>

Exit ==
  /\ \/ leader = "running" /\ leader' = "zombie" /\ UNCHANGED alive
     \/ \E d \in alive : alive' = alive \ {d} /\ UNCHANGED leader
  /\ UNCHANGED <<cancelled, past, exceeded, wrote, killed, missed,
                 lost, foreign, readers, control, supervisor, client>>

\* Nobody looks at the token or at the clock once the supervisor has ended and
\* the caller has joined it.
Watched == caller \in {"idle", "write", "await"}

Cancel ==
  /\ Watched
  /\ cancelled' = TRUE
  /\ UNCHANGED <<leader, alive, past, exceeded, wrote, killed, missed,
                 lost, foreign, readers, control, supervisor, client>>

DeadlinePasses ==
  /\ Watched
  /\ past' = TRUE
  /\ UNCHANGED <<leader, alive, cancelled, exceeded, wrote, killed,
                 missed, lost, foreign, readers, control, supervisor, client>>

Exceed ==
  /\ caller # "returned"
  /\ Holders # {}
  /\ exceeded' = TRUE
  /\ UNCHANGED <<leader, alive, cancelled, past, wrote, killed, missed,
                 lost, foreign, readers, control, supervisor, client>>

World == Produce \/ Exit \/ Cancel \/ DeadlinePasses \/ Exceed

Next ==
  \/ ReaderStep
  \/ SupervisorStep \/ WaitFails
  \/ BeginWrite \/ WriteTaken \/ CallFinish \/ CallDrop
  \/ CallStep
  \/ World

Spec ==
  /\ Init /\ [][Next]_vars
  /\ WF_vars(ReadOn) /\ WF_vars(SupervisorStep) /\ WF_vars(CallStep)
  /\ WF_vars(DeadlinePasses)

-----------------------------------------------------------------------------
(* Properties. *)

\* Every variable has its type.
TypeOK ==
  /\ leader \in {"running", "zombie", "reaped"}
  /\ alive \subseteq Descendants
  /\ cancelled \in BOOLEAN /\ past \in BOOLEAN /\ exceeded \in BOOLEAN
  /\ readerStop \in BOOLEAN /\ forceStop \in BOOLEAN
  /\ killed \in BOOLEAN /\ missed \in BOOLEAN /\ lost \in BOOLEAN /\ foreign \in BOOLEAN
  /\ wrote \in 0 .. MaxWrites /\ pending \in 0 .. MaxWrites
  /\ got \in 0 .. Limit
  /\ reader \in {"reading", "ended"} \cup ReaderResults
  /\ slot \in {None} \cup ReaderResults
  /\ requested \in {None} \cup Failures
  /\ sup \in {"check", "stop", "kill", "wait", "poll", "descendants", "reap", "ended"}
  /\ failing \in {None} \cup Failures
  /\ state \in [status : BOOLEAN, failure : {None} \cup Failures, done : BOOLEAN]
  /\ caller \in {"idle", "write", "await", "join", "giveup", "conclude", "returned"}
  /\ mode \in {None, "finish", "abort", "drop"}
  /\ result \in {None, "ok"} \cup Failures

\* A completed process exited by itself, and its captured stream is all that
\* it and its descendants ever wrote, within the limit: not a part of it, and
\* not the empty buffer take_reader falls back to (finish, take_reader).
OkIsComplete ==
  result = "ok" => /\ ~killed /\ state.status
                   /\ slot = "data" /\ got = wrote
                   /\ Holders = {}

\* When finish, an aborted write or a drop returns, the leader is reaped and
\* nothing of its group runs: "always terminates the tree and reaps the child
\* before the error is returned" (module comment).  Only an error of Child::wait
\* leaves a zombie, and only an error of terminating the tree leaves more.
NothingIsLeft ==
  caller \in {"conclude", "returned"} =>
    /\ lost \/ leader = "reaped"
    /\ missed \/ (leader # "running" /\ "member" \notin alive)

\* No signal ever goes to a process group that may have received the process id
\* of the helper after the helper was reaped (supervise, poll_child).
OnlyOwnGroupKilled == ~foreign

\* An error names something that happened, also when several conditions and
\* the exit of the helper meet (supervise, should_abort, finish).
ReasonsAreReal ==
  /\ result = "timeout" => past
  /\ result = "cancelled" => cancelled
  /\ result = "monitored" => exceeded
  /\ result = "limit" => wrote > Limit
  /\ result = "terminate" => missed

\* The kill of the leader has failed and Child::wait, which has no deadline,
\* blocks for as long as the leader runs (supervise, lines 950 to 951).
Unkilled == sup = "wait" /\ leader = "running"

\* Every call returns, although the helper may neither exit nor read nor close
\* its streams: a write goes back to its caller or is aborted.  The one helper
\* that keeps a call is the one that cannot be killed, and only while it runs.
\* When the last call has returned, the reader thread ends too, even if an
\* escaped descendant keeps the stream open for ever.
CallsReturn ==
  /\ caller \notin {"idle", "returned"} ~> caller \in {"idle", "returned"} \/ Unkilled
  /\ caller = "returned" ~> reader = "ended"

\* Cancellation and the deadline stop the helper and reap it without any call
\* of its owner, unless it cannot be killed or waited for (supervise).
StopsUnattended == cancelled \/ past ~> leader = "reaped" \/ lost \/ Unkilled

=============================================================================
