------------------------------- MODULE Watch --------------------------------
(***************************************************************************)
(* Watch folders (src/src/watch.rs, driven by run_watch of src/src/main.rs):*)
(* a process scans an input directory, waits for every file to be stable,  *)
(* normalizes it and records each transition in a state document, while    *)
(* producers rewrite inputs, others touch outputs, and the process fails,  *)
(* dies and is started again.                                              *)
(*                                                                         *)
(* mem is the document in memory and disk the one in the state file.  A    *)
(* digest is represented by the bytes it is taken of, and a normalized     *)
(* output by the input bytes it was rendered from.  The exclusive lock of  *)
(* the state file leaves one process.                                      *)
(***************************************************************************)
EXTENDS Naturals, FiniteSets

CONSTANTS
  Files,          \* supported files below the input root
  Outputs,        \* paths below the output root
  OutputOf,       \* the output path of each file
  DataOf,         \* what each input may contain
  Foreign,        \* an output that the normalizer did not write
  None,           \* no file, no digest
  MaxWrites,      \* bound on the times each input is written
  Retries         \* values of --watch-retry-failed at a start

Data == UNION {DataOf[f] : f \in Files}

ASSUME FilesAssumption == OutputOf \in [Files -> Outputs]
ASSUME DataAssumption ==
  /\ \A f \in Files : DataOf[f] # {}
  /\ Foreign \notin Data
  /\ None \notin Data \cup {Foreign}
ASSUME BoundsAssumption == MaxWrites \in Nat /\ Retries \subseteq BOOLEAN

VARIABLES
  present,    \* the input exists
  stamp,      \* its size and modification time, fresh at every write
  data,       \* its bytes
  out,        \* what each output path holds
  disk,       \* entries of the state file
  mem,        \* entries of WatchDocument
  pc,         \* where the process is
  todo,       \* discovered inputs the scan has still to look at
  seen,       \* discovered inputs
  ripe,       \* entries that were a stable interval old when the scan began
  lapsed,     \* a stable interval has passed since the scan began
  candidates, \* stable inputs the loop has still to process
  job,        \* the candidate being processed
  preimage,   \* WatchProcessingOutput.destination_preimage
  staged,     \* input bytes of the normalization in progress
  \* History, read by properties only.
  quiet,      \* whether a stable interval has passed since the input's last
              \* write ("yes"), or at least since the scan during which it
              \* was written began ("scan")
  forged,     \* since the attempt began, the output, or the input behind an
              \* unchanged stamp, was changed by somebody else
  moved,      \* since the state file named the entry completed, its input or
              \* output was changed
  calm        \* the environment and the machine have stopped interfering

inputs == <<present, stamp, data, quiet>>
attempt == <<job, preimage, staged>>
scanning == <<todo, seen, ripe, lapsed, candidates>>
history == <<quiet, forged, moved, calm>>
vars ==
  <<present, stamp, data, out, disk, mem, pc, scanning, attempt, history>>

-----------------------------------------------------------------------------
(* Entries. *)

Statuses == {"none", "observing", "processing", "completed", "failed"}

OutputFiles == Data \cup {Foreign}

Entries ==
  [status : Statuses, stamp : 0 .. MaxWrites, old : BOOLEAN,
   input : Data \cup {None}, output : BOOLEAN,
   digest : OutputFiles \cup {None}, prior : OutputFiles \cup {None},
   error : BOOLEAN]

\* reset_entry; old says that the stable interval has passed since
\* first_observed_unix_ms.
Reset(s, old) ==
  [status |-> "observing", stamp |-> s, old |-> old, input |-> None,
   output |-> FALSE, digest |-> None, prior |-> None, error |-> FALSE]

NoEntry == [Reset(0, FALSE) EXCEPT !.status = "none"]

\* reset_entry_preserving_output
ResetPreservingOutput(e, s, old) ==
  [e EXCEPT !.status = "observing", !.stamp = s, !.old = old,
            !.input = None, !.prior = None, !.error = FALSE]

\* Mutant: completed entries are requeued too.
RetriedCompleted(e) ==
  IF e.status \notin {"completed", "failed"} THEN e
  ELSE [e EXCEPT !.status = "observing", !.input = None, !.prior = None,
                 !.error = FALSE]

\* retry_failed
Retried(e) ==
  IF e.status # "failed" THEN e
  ELSE [e EXCEPT !.status = "observing", !.input = None, !.prior = None,
                 !.error = FALSE]

\* validate_entry
Valid(e) ==
  CASE e.status = "observing" -> /\ e.input = None
                                 /\ e.prior = None
                                 /\ ~e.error
                                 /\ e.output <=> e.digest # None
    [] e.status = "processing" -> /\ e.input # None
                                  /\ e.output
                                  /\ e.digest = None
                                  /\ ~e.error
    [] e.status = "completed" -> /\ e.input # None
                                 /\ e.output
                                 /\ e.digest # None
                                 /\ e.prior = None
                                 /\ ~e.error
    [] e.status = "failed" -> /\ e.error
                              /\ e.prior = None
                              /\ e.output <=> e.digest # None
    [] OTHER -> TRUE

Output(f) == out[OutputOf[f]]

Unchanged(f) == present[f] /\ stamp[f] = mem[f].stamp

-----------------------------------------------------------------------------

Init ==
  /\ present = [f \in Files |-> FALSE]
  /\ stamp = [f \in Files |-> 0]
  /\ data = [f \in Files |-> CHOOSE d \in DataOf[f] : TRUE]
  /\ out \in [Outputs -> {None, Foreign}]
  /\ disk = [f \in Files |-> NoEntry]
  /\ mem = disk
  /\ pc = "down"
  /\ todo = {} /\ seen = {} /\ candidates = {}
  /\ ripe = {} /\ lapsed = FALSE
  /\ job = None /\ preimage = None /\ staged = None
  /\ quiet = [f \in Files |-> "no"]
  /\ forged = [f \in Files |-> FALSE]
  /\ moved = [f \in Files |-> TRUE]
  /\ calm = FALSE

Goto(l) == pc' = l

Update(f, e) == mem' = [mem EXCEPT ![f] = e]

\* The process ends: an error leaves run_watch, or the machine stops.
Stop ==
  /\ Goto("down")
  /\ mem' = [f \in Files |-> NoEntry]
  /\ todo' = {} /\ seen' = {} /\ candidates' = {}
  /\ ripe' = {} /\ lapsed' = FALSE
  /\ job' = None /\ preimage' = None /\ staged' = None

\* save may fail before or after the state file is replaced.
SaveFails == ~calm /\ disk' \in {disk, mem'}

Idle == pc = "loop" /\ candidates = {}

-----------------------------------------------------------------------------
(* Starting. *)

\* WatchFolder::open, then retry_failed; a failed save ends the process.
Open(retry) ==
  LET opened == [f \in Files |-> IF retry THEN Retried(disk[f]) ELSE disk[f]]
  IN /\ pc = "down"
     /\ \A f \in Files : Valid(disk[f])
     /\ \/ disk' = opened /\ mem' = opened /\ Goto("loop")
        \/ ~calm /\ disk' = opened /\ UNCHANGED <<mem, pc>>
     /\ UNCHANGED <<inputs, out, scanning, attempt, forged, moved, calm>>

Crash ==
  /\ ~calm
  /\ pc # "down"
  /\ Stop
  /\ UNCHANGED <<inputs, out, disk, forged, moved, calm>>

-----------------------------------------------------------------------------
(* scan_at *)

\* now_ms is taken, and the inputs are discovered.
StartScan ==
  /\ Idle
  /\ Goto("scan")
  /\ todo' = {f \in Files : present[f]}
  /\ seen' = todo'
  /\ ripe' = {f \in Files : mem[f].old}
  /\ lapsed' = FALSE
  /\ UNCHANGED <<inputs, out, disk, mem, candidates, attempt, forged, moved,
                 calm>>

\* verify_output or the recovery of an entry returns an error.
Refused(f) ==
  LET e == mem[f]
      changed == Output(f) \notin {None, e.digest}
  IN \/ ~present[f]
     \/ /\ stamp[f] # e.stamp
        /\ e.status \in {"completed", "failed"}
        /\ e.digest # None
        /\ changed
     \/ stamp[f] = e.stamp /\ e.status = "completed" /\ changed
     \/ stamp[f] = e.stamp /\ e.status = "processing" /\ e.input # data[f]

ScanRefuses(f) ==
  /\ pc = "scan"
  /\ f \in todo
  /\ Refused(f)
  /\ Stop
  /\ UNCHANGED <<inputs, out, disk, forged, moved, calm>>

\* Mutant: a changed input does not restart the stable interval.
ObservedKeepsInterval(f) ==
  LET e == mem[f]
  IN IF e.status \in {"completed", "failed"} /\ e.digest # None
          /\ Output(f) # None
       THEN ResetPreservingOutput(e, stamp[f], e.old)
       ELSE Reset(stamp[f], e.old)

\* An input that is new, or whose stamp differs from its entry: it counts as
\* observed when the scan began.
Observed(f) ==
  LET e == mem[f]
  IN IF e.status \in {"completed", "failed"} /\ e.digest # None
          /\ Output(f) # None
       THEN ResetPreservingOutput(e, stamp[f], lapsed)
       ELSE Reset(stamp[f], lapsed)

\* Mutant: an entry without output stays in processing.
RecoveredKeepsProcessing(f) ==
  LET e == mem[f]
  IN IF Output(f) = None THEN e
     ELSE IF Output(f) = e.prior
       THEN [e EXCEPT !.status = "observing", !.input = None,
                      !.digest = Output(f), !.prior = None]
       ELSE [e EXCEPT !.status = "failed", !.digest = Output(f),
                      !.prior = None, !.error = TRUE]

\* recover_processing
Recovered(f) ==
  LET e == mem[f]
  IN IF Output(f) = None THEN Reset(e.stamp, e.old)
     ELSE IF Output(f) = e.prior
       THEN [e EXCEPT !.status = "observing", !.input = None,
                      !.digest = Output(f), !.prior = None]
       ELSE [e EXCEPT !.status = "failed", !.digest = Output(f),
                      !.prior = None, !.error = TRUE]

\* verify_completed
Verified(f) ==
  LET e == mem[f]
  IN IF Output(f) = None
       THEN Reset(e.stamp, e.old /\ e.input = data[f])
     ELSE IF e.input = data[f] THEN e
     ELSE ResetPreservingOutput(e, stamp[f], FALSE)

Scanned(f) ==
  IF mem[f].status = "none" \/ mem[f].stamp # stamp[f] THEN Observed(f)
  ELSE IF mem[f].status = "processing" THEN Recovered(f)
  ELSE IF mem[f].status = "completed" THEN Verified(f)
  ELSE mem[f]

\* This scan sets the entry's observation time.
Reobserved(f) ==
  LET e == mem[f]
  IN \/ e.status = "none"
     \/ e.stamp # stamp[f]
     \/ e.status = "completed" /\ e.input # data[f]

ScanFile(f) ==
  /\ pc = "scan"
  /\ f \in todo
  /\ ~Refused(f)
  /\ Update(f, Scanned(f))
  /\ todo' = todo \ {f}
  /\ candidates' = IF /\ Scanned(f).status = "observing"
                       /\ f \in ripe
                       /\ ~Reobserved(f)
                     THEN candidates \cup {f} ELSE candidates
  /\ UNCHANGED <<inputs, out, disk, pc, seen, ripe, lapsed, attempt, forged,
                 moved, calm>>

\* Of the absent inputs, only those under observation are forgotten.
Retained(f) ==
  IF f \notin seen /\ mem[f].status = "observing" THEN NoEntry ELSE mem[f]

EndScan ==
  LET retained == [f \in Files |-> Retained(f)]
  IN /\ pc = "scan"
     /\ todo = {}
     /\ \/ /\ mem' = retained
           /\ disk' = retained
           /\ Goto("loop")
           /\ seen' = {} /\ ripe' = {} /\ lapsed' = FALSE
           /\ UNCHANGED <<todo, candidates, attempt>>
        \/ ~calm /\ disk' \in {disk, retained} /\ Stop
     /\ UNCHANGED <<inputs, out, forged, moved, calm>>

-----------------------------------------------------------------------------
(* process_watch_candidate: mark_processing_output, normalize, publish,     *)
(* mark_completed; any error leads to mark_failed.                          *)

\* Mutant: an existing output is replaced whatever it is.
CheckpointAdopts(f) ==
  /\ pc = "loop"
  /\ f \in candidates
  /\ candidates' = candidates \ {f}
  /\ job' = f
  /\ Unchanged(f)
  /\ preimage' = Output(f)
  /\ Goto("bind")
  /\ Update(f, [mem[f] EXCEPT !.digest = None])
  /\ UNCHANGED <<inputs, out, disk, todo, seen, ripe, lapsed, staged, forged,
                 moved, calm>>

\* mark_processing_output up to the hash of the input: an existing output
\* must be the one the entry has verified, whose digest is taken out of it.
Checkpoint(f) ==
  /\ pc = "loop"
  /\ f \in candidates
  /\ candidates' = candidates \ {f}
  /\ job' = f
  /\ \/ Goto("fail") /\ UNCHANGED <<mem, preimage>>
     \/ /\ Unchanged(f)
        /\ Output(f) \in {None, mem[f].digest}
        /\ preimage' = Output(f)
        /\ Goto("bind")
        /\ IF Output(f) = None THEN UNCHANGED mem
           ELSE Update(f, [mem[f] EXCEPT !.digest = None])
  /\ UNCHANGED <<inputs, out, disk, todo, seen, ripe, lapsed, staged, forged,
                 moved, calm>>

\* The rest of mark_processing_output.
Bind ==
  LET bound == [mem[job] EXCEPT !.status = "processing", !.input = data[job],
                                !.output = TRUE, !.digest = None,
                                !.prior = preimage, !.error = FALSE]
  IN /\ pc = "bind"
     /\ IF Unchanged(job)
          THEN /\ Update(job, bound)
               /\ \/ disk' = mem' /\ Goto("snapshot")
                  \/ SaveFails /\ Goto("fail")
               /\ forged' = [forged EXCEPT ![job] = FALSE]
          ELSE Goto("fail") /\ UNCHANGED <<mem, disk, forged>>
     /\ UNCHANGED <<inputs, out, scanning, attempt, moved, calm>>

\* The input is copied to a private snapshot, and normalized from there.
Snapshot ==
  /\ pc = "snapshot"
  /\ \/ Goto("fail") /\ UNCHANGED staged
     \/ present[job] /\ staged' = data[job] /\ Goto("publish")
  /\ UNCHANGED <<inputs, out, disk, mem, scanning, job, preimage, forged,
                 moved, calm>>

\* Publication compares the destination with the checkpoint's preimage; an
\* error may also follow it.
Publish ==
  LET o == OutputOf[job]
  IN /\ pc = "publish"
     /\ \/ /\ out[o] = preimage
           /\ out' = [out EXCEPT ![o] = staged]
           /\ Goto("complete") \/ Goto("fail")
           /\ moved' = [f \in Files |-> moved[f] \/ OutputOf[f] = o]
        \/ Goto("fail") /\ UNCHANGED <<out, moved>>
     /\ UNCHANGED <<inputs, disk, mem, scanning, attempt, forged, calm>>

FinishJob == job' = None /\ preimage' = None /\ staged' = None

\* Mutant: the input is not hashed again.
MarkCompletedUnchecked ==
  /\ pc = "complete"
  /\ IF Output(job) # None
       THEN /\ Update(job, [mem[job] EXCEPT !.status = "completed",
                              !.digest = Output(job), !.prior = None])
            /\ disk' = mem'
            /\ Goto("loop")
            /\ FinishJob
            /\ moved' = [moved EXCEPT ![job] = FALSE]
       ELSE Goto("fail") /\ UNCHANGED <<mem, disk, attempt, moved>>
  /\ UNCHANGED <<inputs, out, scanning, forged, calm>>

MarkCompleted ==
  /\ pc = "complete"
  /\ IF Unchanged(job) /\ data[job] = mem[job].input /\ Output(job) # None
       THEN /\ Update(job, [mem[job] EXCEPT !.status = "completed",
                              !.digest = Output(job), !.prior = None,
                              !.error = FALSE])
            /\ \/ disk' = mem' /\ Goto("loop") /\ FinishJob
               \/ SaveFails /\ Goto("fail") /\ UNCHANGED attempt
            /\ moved' = [moved EXCEPT ![job] = @ /\ disk' = disk]
       ELSE Goto("fail") /\ UNCHANGED <<mem, disk, attempt, moved>>
  /\ UNCHANGED <<inputs, out, scanning, forged, calm>>

\* Mutant: a missing output stays recorded.
MarkFailedKeepsOutput ==
  LET e == mem[job]
      kept == e.output /\ Output(job) # None
      saved == [mem EXCEPT ![job] =
                 [e EXCEPT !.status = "failed", !.error = TRUE, !.prior = None,
                           !.digest = IF kept THEN Output(job) ELSE None]]
  IN /\ pc = "fail"
     /\ mem' = saved
     /\ disk' = saved
     /\ Goto("loop")
     /\ FinishJob
     /\ UNCHANGED <<inputs, out, scanning, forged, moved, calm>>

\* mark_failed takes the digest of whatever the recorded output path holds.
MarkFailed ==
  LET e == mem[job]
      kept == e.output /\ Output(job) # None
      failed == [e EXCEPT !.status = "failed", !.error = TRUE, !.prior = None,
                   !.output = kept,
                   !.digest = IF kept THEN Output(job) ELSE None]
      saved == [mem EXCEPT ![job] = failed]
  IN /\ pc = "fail"
     /\ \/ /\ mem' = saved
           /\ disk' = saved
           /\ Goto("loop")
           /\ FinishJob
           /\ UNCHANGED scanning
        \/ ~calm /\ disk' \in {disk, saved} /\ Stop
     /\ UNCHANGED <<inputs, out, forged, moved, calm>>

-----------------------------------------------------------------------------
(* Producers, competitors, time. *)

Write(f, d) ==
  /\ ~calm
  /\ stamp[f] < MaxWrites
  /\ present' = [present EXCEPT ![f] = TRUE]
  /\ stamp' = [stamp EXCEPT ![f] = @ + 1]
  /\ data' = [data EXCEPT ![f] = d]
  /\ quiet' = [quiet EXCEPT ![f] = IF lapsed THEN "scan" ELSE "no"]
  /\ moved' = [moved EXCEPT ![f] = TRUE]
  /\ UNCHANGED <<out, disk, mem, pc, scanning, attempt, forged, calm>>

\* A write that keeps the size and restores the modification time, or the
\* return of a removed input that was moved away or copied with its time.
WriteUnseen(f, d) ==
  /\ ~calm
  /\ stamp[f] # 0
  /\ present' = [present EXCEPT ![f] = TRUE]
  /\ data' = [data EXCEPT ![f] = d]
  /\ moved' = [moved EXCEPT ![f] = TRUE]
  /\ forged' = [forged EXCEPT ![f] = TRUE]
  /\ UNCHANGED <<stamp, quiet, out, disk, mem, pc, scanning, attempt, calm>>

Remove(f) ==
  /\ ~calm
  /\ present[f]
  /\ present' = [present EXCEPT ![f] = FALSE]
  /\ UNCHANGED <<stamp, data, quiet, out, disk, mem, pc, scanning, attempt,
                 forged, moved, calm>>

\* Somebody removes an output or puts a file of his own there.
Compete(o, x) ==
  /\ ~calm
  /\ out[o] # x
  /\ out' = [out EXCEPT ![o] = x]
  /\ moved' = [f \in Files |-> moved[f] \/ OutputOf[f] = o]
  /\ forged' = [f \in Files |-> forged[f] \/ OutputOf[f] = o]
  /\ UNCHANGED <<inputs, disk, mem, pc, scanning, attempt, calm>>

Older(e) == IF e.status = "none" THEN e ELSE [e EXCEPT !.old = TRUE]

\* A whole stable interval passes.
IntervalPasses ==
  /\ mem' = [f \in Files |-> Older(mem[f])]
  /\ disk' = [f \in Files |-> Older(disk[f])]
  /\ quiet' = [f \in Files |-> "yes"]
  /\ lapsed' = (pc = "scan")
  /\ UNCHANGED <<present, stamp, data, out, pc, todo, seen, ripe, candidates,
                 attempt, forged, moved, calm>>

Settle ==
  /\ ~calm
  /\ calm' = TRUE
  /\ UNCHANGED <<inputs, out, disk, mem, pc, scanning, attempt, forged, moved>>

-----------------------------------------------------------------------------

ProcessStep ==
  \/ Open(FALSE)
  \/ StartScan
  \/ \E f \in Files : ScanRefuses(f) \/ ScanFile(f) \/ Checkpoint(f)
  \/ EndScan
  \/ Bind \/ Snapshot \/ Publish \/ MarkCompleted \/ MarkFailed

Next ==
  \/ ProcessStep
  \/ \E retry \in Retries : Open(retry)
  \/ Crash
  \/ \E f \in Files : \/ \E d \in DataOf[f] : Write(f, d) \/ WriteUnseen(f, d)
                      \/ Remove(f)
  \/ \E o \in Outputs, x \in {None, Foreign} : Compete(o, x)
  \/ IntervalPasses
  \/ Settle

Spec == Init /\ [][Next]_vars

\* The process runs, is started again when it ends, and time passes.
FairSpec == Spec /\ WF_vars(ProcessStep) /\ WF_vars(IntervalPasses)

-----------------------------------------------------------------------------
(* Properties. *)

\* The variables have their types.
TypeOK ==
  /\ present \in [Files -> BOOLEAN]
  /\ stamp \in [Files -> 0 .. MaxWrites]
  /\ data \in [Files -> Data]
  /\ out \in [Outputs -> OutputFiles \cup {None}]
  /\ disk \in [Files -> Entries]
  /\ mem \in [Files -> Entries]
  /\ pc \in {"down", "scan", "loop", "bind", "snapshot", "publish", "complete",
             "fail"}
  /\ todo \subseteq seen
  /\ seen \subseteq Files
  /\ candidates \subseteq Files
  /\ ripe \subseteq Files
  /\ lapsed \in BOOLEAN
  /\ job \in Files \cup {None}
  /\ preimage \in OutputFiles \cup {None}
  /\ staged \in Data \cup {None}
  /\ quiet \in [Files -> {"no", "scan", "yes"}]
  /\ forged \in [Files -> BOOLEAN]
  /\ moved \in [Files -> BOOLEAN]
  /\ calm \in BOOLEAN

\* Whatever step the process failed or died in, the state file it leaves is
\* one that open accepts: no half-made entry is ever saved.
Reopenable == \A f \in Files : Valid(disk[f])

BeginsProcessing(f) ==
  disk[f].status # "processing" /\ disk'[f].status = "processing"

\* An input is processed only if a whole stable interval has passed since its
\* last write, or at least since the scan during which it was written began,
\* across resets, retries, recoveries and restarts.
StableSinceScan ==
  [][\A f \in Files : BeginsProcessing(f) => quiet[f] # "no"]_vars

\* The step in which the process, and nobody else, changes an output.
Publishes == pc = "publish" /\ pc' # "publish" /\ out' # out

\* An existing output is replaced only if the state file named its digest as
\* the entry's verified output before the attempt and as the prior output
\* during it.
ReplacesOnlyRecorded ==
  [][/\ \A f \in Files :
          BeginsProcessing(f) /\ disk'[f].prior # None
          => disk[f].digest = disk'[f].prior
     /\ Publishes /\ Output(job) # None
          => /\ disk[job].status = "processing"
             /\ disk[job].prior = Output(job)]_vars

\* A completed entry pairs the digest of an input with that of the output
\* rendered from those very bytes, whatever was written to the input while it
\* was processed.
CompletedIsRendered ==
  \A f \in Files :
    disk[f].status = "completed" /\ ~forged[f]
      => disk[f].digest = disk[f].input

\* Completed work is not lost: as long as nobody touches its input or its
\* output, no scan, retry, crash or restart takes it back, and no failure but
\* one: when the save that completes an entry fails after it has replaced the
\* state file, mark_failed turns that very entry into a failed one (run_watch,
\* save).  It changes nothing else of it, the digest of the output least of
\* all, so that a retry may replace what was rendered.
CompletedStays ==
  [][\A f \in Files :
       disk[f].status = "completed" /\ ~moved[f] =>
         \/ disk'[f].status = "completed"
         \/ /\ pc = "fail" /\ job = f /\ mem[f] = disk[f]
            /\ disk'[f] = [disk[f] EXCEPT !.status = "failed", !.error = TRUE]]_vars

\* A failed input is left alone until its stamp changes or a start asks for
\* a retry.
FailedIsSuppressed ==
  [][\A f \in Files :
       disk[f].status = "failed" /\ disk'[f].status # "failed"
         => pc = "down" \/ disk'[f].stamp # disk[f].stamp]_vars

\* A changed output, or an input changed behind its stamp, on which every
\* scan gives up.
Wedged ==
  \E f \in Files :
    /\ present[f]
    /\ \/ /\ \/ disk[f].status = "completed"
             \/ disk[f].status = "failed" /\ disk[f].stamp # stamp[f]
          /\ disk[f].digest # None
          /\ Output(f) \notin {None, disk[f].digest}
       \/ disk[f].status = "processing" /\ disk[f].input # data[f]

Served ==
  \A f \in Files : present[f] => disk[f].status \in {"completed", "failed"}

\* Once nobody interferes any more, every input is completed or failed and
\* stays so, unless an entry fails verification and blocks the whole folder.
Serves == calm ~> [](Served \/ Wedged)

\* WATCH-FOLDERS.md:27-30: an input is eligible "only when both properties
\* remain unchanged for the full" interval.  scan_at counts it from the start
\* of a scan, which may be long before the scan looks at the input.
OnlyStableInputs ==
  [][\A f \in Files : BeginsProcessing(f) => quiet[f] = "yes"]_vars

\* WATCH-FOLDERS.md:67-70: "replacement is allowed only for the exact
\* previously verified output".  mark_failed records whatever file it finds.
ForeignOutputsKept ==
  [][Publishes => Output(job) # Foreign]_vars

=============================================================================
