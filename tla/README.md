# Forge: a verification project in TLA+

Forge (`src/`) is an audio loudness normalizer written in Rust.  Most of its
code is signal processing and format parsing.  What this project is about is
the rest: the parts that publish files so that a crash never loses or mixes
them, the parts that serve requests with bounded resources, and the protocols
that tie a durable state document to files that other programs may change at
any moment.

- [1. The system](#1-the-system): inventory of components, hard behaviours, and
  what makes each component correct
- [2. Modules](#2-modules): which module models which part, and how its state
  and actions correspond to the code
- [3. Runs](#3-runs): what TLC checks, the bounds, the fairness
- [4. Proofs](#4-proofs): what TLAPS proves, from what, and how
- [5. Where code and words differ](#5-where-code-and-words-differ)
- [6. Not modelled](#6-not-modelled)
- [7. Plan](#7-plan)

`PROJECT.json` is the machine-readable side: components, runs, mutants (for
every property a plausible bug in a mapped definition that must break it), the
map from definitions to source lines, findings, hazards and theorems.

To repeat the work, in this directory:

    tlc -workers 2 -config MCGeneration.cfg MCGeneration.tla
    tlapm GenerationProofs.tla

## 1. The system

Paths are relative to `src/src/`.

### Components

| Component | Source | State it keeps | Operations |
|---|---|---|---|
| Generation transaction | `generation.rs`, moves in `atomic.rs` | journal on disk (phase, one step and evidence per member); stage, backup and destination files | prepare, resume, commit/publish, abandon, inspect_reclaim, reclaim |
| Request control | `service_runtime.rs` 220-360 | one atomic state and a deadline | cancel, check, expire |
| Byte budgets | `service_runtime.rs` 70-200 | one atomic counter; RAII leases | try_acquire, drop |
| gRPC Analyze requests | `service_grpc.rs` | worker permits, request registry, leases, metrics timers; a future and a blocking worker per request | Analyze, Cancel, transport admission, timeouts |
| Watch folder | `watch.rs`, loop in `main.rs` | state file with one entry per input; in-memory copy | open, retry_failed, scan, mark_processing_output, mark_completed, mark_failed |
| REST service | `service.rs` | two concurrency gates, request controls, one thread per connection | accept, analyze, cancel, metrics |
| gRPC connections | `service_grpc.rs` 335-590 | connection permits and deadlines | accept, handshake, idle and age limits |
| Upload spool, stable analysis | `service_runtime.rs`, `bound_analysis.rs` | temporary file, running digest, poison flag | write_chunk, finish, analyze |
| Metadata transaction | `metadata_transaction.rs` | one-file journal Prepared/Ready/Committed | prepare, resume, commit |
| Batch job | `batch.rs` | resumable job document, one record per asset | open, mark_*, publish, generation hand-over |
| Analysis cache | `analysis_cache.rs` | content-addressed entries in a shared directory | lookup_or_compute, prune |
| External tool supervisor | `subprocess.rs` | child process, three pipe threads, deadline, cancellation | supervise |
| PCM spool, private snapshots | `pcm_spool.rs`, `stable_input.rs` | memory buffer then file; snapshot and digest | append, read back, verify |
| Remote ranges | `remote_range.rs` | one pinned ETag and length | open, read_range |
| Catalogue | `catalogue.rs` | SQLite database | upsert, query |
| State lock | `state_lock.rs` | OS file lock | acquire, drop |
| Output plan, discovery | `output_plan.rs`, `discovery.rs` | none | validate sets of paths |
| Deliveries, segments | `multi_delivery.rs`, `segment_normalize.rs` | none between calls | plan |
| Realtime meter and gain | `realtime.rs`, plugin front ends | filter and gain state | process block |
| DSP, codecs, QC readers, metadata, reports, adapters, bindings | see `PROJECT.json` | none that outlives a call | sequential data transformation |

### How they interact

- The command line runs one job, a batch job, a multi-delivery generation, the
  watch loop, or one of the two services.
- Batch and multi-delivery jobs *prepare* staged outputs and hand them to a
  **generation transaction**, which owns them from the moment its Ready journal
  is visible; a batch job then records completion in its own document.
- The **watch loop** calls the normalizer for each stable input and passes it
  the digest and identity the destination must have at publication.
- Both services give every request a **request control** and charge memory and
  temporary storage to shared **byte budgets**.  The request's future, its
  detached worker, the Cancel call and the timers share these objects and
  nothing else.
- Every durable document is replaced by temporary file, sync, rename and
  directory sync, under an exclusive **state lock**; an error reported by the
  directory sync leaves the *new* document visible.

### Hard behaviours, and what makes each component correct

*Generation.*  The process may die between any two renames; any file operation
may fail with or without effect; the journal is only saved at phase changes,
so recovery must reconstruct how far a publication came from the files alone;
another program that ignores the lock may replace a destination between a check
and the rename that relies on it.  Correct means: all destinations new or all
old, old bytes exist until Committed is durable, every interrupted state can be
recovered, and no foreign file is ever destroyed.

*Request control, byte budgets.*  Weak compare-and-exchange loops that decide on
values loaded earlier.  Correct means: one permanent reason all callers agree
on, no success after the end; the counter is exactly the bytes on lease, never
over capacity, and a refusal is never due to a stale value.

*gRPC Analyze.*  Dropping the future detaches the blocking worker; three guards
race to record one status; an identifier is free again only when the detached
worker has ended; two timers and the answer race at the deadline.  Correct means: permits, leases and registry follow the
work that is really going on and not the client's patience, metrics match the
response, and abandoned work ends.

*Watch.*  Every file operation of a pass may fail; inputs are rewritten while
they are processed; the process dies with an output published and not recorded.
Correct means: only stable inputs are processed, a completed entry pairs an
input digest with the output rendered from those bytes, an existing output is
replaced only if it is the recorded one, completed work stays, failures are not
retried by themselves, and no failure leaves a state file that cannot be opened.

*Batch.*  Completion of a generation is recorded in a second document, under a
second lock, after the first one is committed; the process may die or fail
between the two, and an operator may reclaim the generation meanwhile.  Correct
means: the two documents never contradict each other, completion is announced
only for outputs seen to be the published ones, a file is replaced only by an
invocation with `--overwrite`, a committed generation is not published twice,
and repeating the command completes the job.

*Analysis cache.*  Threads share a mutex, processes share nothing but the
directory, each with a limit of its own; entries are replaced, evicted and
damaged while they are read, and the source is rewritten during the analysis.
Correct means: an answer is the analysis of what the source holds when the call
returns, prunes restore the limit, a call keeps the entry it has just stored,
and the threads of one process never disturb each other.

*Supervisor.*  A cancellation, the deadline, a reader's overflow, a monitored
file and the exit of the child may all be found in one poll; the process id is
reused once the child is reaped; a descendant that left the process group keeps
the captured stream open.  Correct means: success means complete output of a
process that exited by itself, nothing of the group survives the call unless an
error says so, no other group is ever killed, an error names something that
happened, and every call returns unless the helper cannot be killed.

*Metadata transaction, connections* (not modelled): a crash after the source was
replaced and before Committed is saved; permits held by slow clients.  The
hazards in `PROJECT.json` name the lines.

## 2. Modules

Definitions keep the names of the source where that is possible; `PROJECT.json`
"map" gives the lines of each.  A definition whose comment begins with
*Mutant* is not part of the specification: it is the mutated form of the
definition that follows it, for the mutants in `PROJECT.json`.

| Module | Contents |
|---|---|
| `Publication` | abstract: a set of outputs published as a whole or not at all |
| `Generation` | publication with journal, backup, rollback, recovery; implements `Publication` |
| `GenerationProofs` | its safety and the refinement, for every number of members |
| `Batch`, `BatchProofs` | job document and generation, on top of `Publication` |
| `Control`, `ControlCalls` | abstract: the control of a request as an object that ends once; its calls, each answered in one step |
| `RequestControl`, `RequestControlProofs` | the loads, clock readings and exchanges of these calls, and that they implement `ControlCalls` |
| `Quota` | abstract: an indivisible byte budget |
| `ByteQuota`, `ByteQuotaProofs` | the counter loops, and that they implement `Quota` |
| `GrpcAnalyze`, `GrpcAnalyzeProofs` | future, worker, Cancel, timers and budgets of gRPC requests; keeps to `Control` and `Quota` |
| `Subprocess`, `SubprocessProofs` | one helper process under its supervisor |
| `AnalysisCache`, `AnalysisCacheProofs` | threads and processes on one cache directory |
| `Watch`, `WatchProofs` | the watch folder, its process, producers and competitors |
| `MC*` | instances of these for TLC |

The layers meet at abstract specifications: `Generation` implements
`Publication`, on which `Batch` is built; `ByteQuota` implements `Quota` and
`RequestControl` implements `ControlCalls`, which extends `Control`; and
`GrpcAnalyze` uses two budgets as `Quota`, and one control for each request as
`Control`, allows.  Each of these relations is a theorem (section 4).

### Generation

*State.*  `journal` is the durable `GenerationDocument`: a phase and a step per
member.  `fs[m][p]` says what each of a member's three path names (`dest`,
`stage`, `backup`) holds: `none`, `old` (the file whose evidence the journal
records as the destination preimage), `new` (the recorded stage) or `alien`.
`preimage` is the set of members that had a destination.  `doc`, `pc`, `i` and
`acts` belong to the process holding the state lock: its in-memory document,
its location, its loop index and the result of `classify_rollback`.  `touched`
and `forecast` are history; `calm` says that crashes, failures and competitors
have ended.

*Actions.*  Every durable save, rename and unlink is one action, so that a
crash or a competitor can come between any two; the read-only checks before
a rename belong to the action of the check.  `Prepare`, `FinishReadyDocumentSave`
are prepare; `ResumeReady`, `ReclaimReady`, `RecoverPublishing`,
`ReopenCommitted` are the cases of resume and reclaim; `Commit`, `Abandon`,
`Drop` what can be done with a held transaction; `SavePublishing`,
`BackupMember`, `BackupMove`, `PublishMember`, `PublishMove`, `PublishVerify`,
`SaveCommitted`, `CleanupCommittedBackups` the publication loop; `SaveAbandon`,
`ClassifyRollback`, `RollbackMember`, `TakePublished`, `PutBack`,
`RestoreBackup`, `RestoreVerify`, `UndoRestore`, `UnlinkStage`,
`SaveRolledBack` the rollback.  `Crash`, `Compete(m)` and `Settle` are the
environment.

*Abstractions.*  A file is described by the evidence it matches (identity,
length and digest are compared together by the code).  The classification of
all members is one step: it only reads, and what a competitor changes after it
is changed after the action.  The check of a file and the identity check right
before its rename are one step, because the rename still follows in a step of
its own and is followed by the check of what was really moved.  Hard links,
symbolic links and path validation are refusals before the first step.
Competitors change destinations only: the private names are random and
unpublished.  A crash is the death of
the process; a loss of power, after which a rename that was not yet synced may
be undone, is not represented.
A wrong fingerprint returns like `Drop`.  The revision counter of the journal
is left out.

### Publication and Batch

`Publication` has a journal phase, what each destination holds, the members that
had a preimage, whether private names may exist, and which members a competitor
has touched.  Its steps are the journal saves and, member by member, the moves
that take a destination from preimage to nothing to new file and back;
`Generation` maps `phase` to the phase of its journal, `dest` to the live names,
`private` to "a stage or backup of this journal is retained", and everything
else it does to a stutter.

`Batch` EXTENDS it with the job document `job`, the process (`pc`, `overwrite`,
the phase `seen` by its unlocked inspection), and the lock of the journal with
what its holder is doing (`way`).  `Open` and `Reconcile` are open_v3 and
reconcile_batch_generation; `Resume`, `Commit`, `Work`, `TurnBack`,
`FinishPublish`, `FinishRollback`, `CleanBackups`, `WorkFails` the operations on
the generation, driven by the process or by `Reclaim` in another one; `Inspect`
and `Reinspect` the inspections after an error; `Checkpoint`, `SaveCompleted`,
`Finish` completion; `Render`, `PrepareBatch` a new generation.  `Crash`,
`CompeteWith`, `Lose` (somebody deletes a document nobody uses) and `Settle` are
the environment.  A failing save leaves the old or the new document.  `stale`
and `glitch` are history.

*Abstractions.*  Only v3 jobs, which are the only ones the command line opens:
their assets are all pending or all completed.  A completed asset's digest is
that of the file that was prepared ("new" or a competitor's "copy" of its
bytes).  Rendering into the stages is one step.

### RequestControl

`state` is the atomic of `RequestControlInner`, `late` says that the clock has
reached the deadline, and `pc[c]`, `terminal[c]` are the program location and
local of each caller.  `cancel` and `check` are three actions each (load, clock,
exchange); the weak exchange may fail without cause; `expire` is one exchange.
`verdict` and `begun` record what each finished call returned and what held
when it began.

`Control` is the object the comment on `RequestControl` describes: it ends once,
with a reason, and with the deadline only when that has passed.  `ControlCalls`
adds the calls: each begins, takes effect in one step and is answered, `timely`
if it began while the request ran and was not late.  A cancel that began in time
may be the reason although the deadline passed before its exchange, and a check
that began in time may pass; that, and no more, is what the steps of the code
add to an indivisible call.

### ByteQuota and Quota

`used` is the counter; each lease slot has a location, the value it `seen` last,
and its `bytes`.  Loading, exchanging and failing are separate actions, for
granting and for returning.  `MaxU64` is the width of the counter: a sum above
it is the `checked_add` failure.  `Quota` is the budget a reader of
`try_acquire` has in mind: a set of leases and one step that grants one or
returns some (an owner of several leases may return them with one drop, and be
granted another in the same step of `GrpcAnalyze`).  `ConcurrencyGate` of `service.rs` (867-912) is the same loop with units
of one and has no module of its own.

### GrpcAnalyze

*State.*  For each request: where its future is (`pc`), where its blocking
worker is (`worker`), the state of its control, the kinds of leases alive for
it, what the worker returned, what the metrics timer recorded and what the
client was sent.  Shared: free `permits` and the `registry`.

*Actions.*  Transport admission (`Arrive`, `ReadHeader`, `HeaderTimeout`,
`RejectMessage`), the handler (`Register`, `SpawnWorker`, `Join`,
`InnerTimeout`), the transport around it (`OuterTimeout`, `BodySent`,
`Disconnect`), the worker from checkpoint to checkpoint (`WorkerStart`,
`WorkerSpool`, `WorkerReserve`, `WorkerDecoded` or `WorkerStops`,
`WorkerReply`, `WorkerUnregister`, `WorkerRelease`), `Cancel(i)` and
`DeadlinePasses`.  What a dropped future releases is `DropFuture`, used by
every way a future can be dropped.

*Composition.*  The control and the budgets are indivisible objects here; that
the real ones behave so is the `Refinement` of `RequestControl` and of
`ByteQuota`.  In the other direction, `ControlsAreKept` and `BudgetsAreKept` say
that what requests do to their controls and to the two budgets is what `Control`
and `Quota` allow, so that the two halves fit.

*Abstractions.*  Every lease of one kind has the same size.  A worker's panic is
one of its errors.  The three drops of a spawn that is refused are one step
(nothing runs between them that could see the difference: the registry lock and
the permit are taken by later requests only).  Permits of Cancel calls,
and calls of the trait that bypass the transport, are left out.

### Subprocess

*State.*  The helper (`leader`), the descendants that run, and the facts the
supervisor polls: `cancelled`, `past`, `exceeded`.  The stream: bytes `wrote`,
still `pending` in the pipe, and `got` by the reader.  `readerStop`,
`forceStop`, `requested` are the atomics of `ProcessControl`; `slot` the
`ReaderSlot`; `sup`, `failing`, `state` the supervisor and its `ControlState`;
`caller`, `mode`, `result` the owner's call.  `killed`, `missed` (an error of
terminating the tree), `lost` (an error of `Child::wait`) and `foreign` are
history.

*Actions.*  The reader (`ReadChunk`, `ReadEnd`, `ReadStopped`, `ReadFails`,
`StoreResult`), the supervisor from its poll of the failures to the kill, the
wait, the descendants and the bounded join, the caller's write_all, finish,
abort and drop, and the world: the helper writes, exits, is cancelled, runs out
of time, exceeds a monitored limit.  A termination that fails keeps its error
and may have missed any of the processes, the leader included; `WaitKilled`
then blocks as `Child::wait` does, without a deadline, until the leader ends.
`WaitFails` is `Child::wait` returning an error.  `JoinReader` and
`GiveUpReader` are the two halves of the bounded join: the reader may store its
result between the look at its slot and the store of the panic result.  After
the helper has been reaped, a signal to its group would reach somebody else's
(`foreign`).

*Abstractions.*  Unix, one captured stream.  Two descendants stand for those
that stay in the process group (`member`) and those that called setsid
(`leaver`).  Bytes are counted, not represented.  Left out: the launch (paths,
environment, pinned executable), the stdin writer worker of platforms
without non-blocking pipes, and a member of the group with other credentials
that a group signal passes over without an error, as `kill(2)` does when it
reaches anyone.

### AnalysisCache

*State.*  `source` holds a content, `entry` maps addresses (the content an entry
is for) to documents with an identity; `mutation` is the mutex of each process;
each call has a location and locals.  `unpruned`, `covers`, `mutated` and
`writes` are history.

*Actions.*  `Capture` (bind and hash the source), `Load`, `Confirm` (the entry
read is still the one at its name), `AnswerHit` (the source is hashed again),
`Compute`; under the mutex `Lock`, `Stage`, `Commit` (the destination is still
the one staged for), then the prune: `Name` and `Inspect` one entry of the
listing at a time, `Evict` one entry, `AnswerStored`.  `Write` rewrites a
source, `Crash` kills a process.

*Abstractions.*  All calls make the same request, so the content stands for the
address; the analysis of a content is the content.  One number stands for the
file identity and the modification time of an entry: every stored entry gets a
fresh one, in the order of time.  Checks of the directory and of the fields of a
document are refusals that change nothing.

### Watch

*State.*  For each input: whether it exists, its `stamp` (size and modification
time; every ordinary write gives a fresh one) and its bytes.  For each output:
the input bytes it was rendered from, or `Foreign`.  `disk` and `mem` are the
entries of the state file and of the document in memory; a digest is
represented by the bytes it is taken of.  The rest is the process: location,
scan sets, and the candidate being processed with its destination preimage and
its private snapshot.  A scan reads the clock once, at its start, so `ripe` is
the set of entries that were a stable interval old then, and `lapsed` says that
an interval has passed since.  `quiet`, `forged` and `moved` are history that
only the properties read; `quiet` tells for each input whether a stable interval
has passed since its last write (`yes`), only since the start of the scan during
which it was written (`scan`), or neither (`no`); `moved`, that its input or
output was touched since the state file on disk named the entry completed, also
when the save that did so failed.

*Actions.*  `Open(retry)` is open and retry_failed; `StartScan`, `ScanFile`,
`ScanRefuses`, `EndScan` are `scan_at`, one action per discovered input
because each reads files others may change; `Checkpoint` and `Bind` are the two
halves of `mark_processing_output` (before and after the input is hashed);
`Snapshot`, `Publish`, `MarkCompleted`, `MarkFailed` are the rest of
`process_watch_candidate`.  A save may fail before or after the state file was
replaced.  The environment writes inputs (`Write`; `WriteUnseen` keeps size and
restores the modification time, or brings a removed input back with its old
one), removes them, changes outputs, and lets a
stable interval pass.

*Abstractions.*  An error that only ends the process is `Crash`, and so is the
end of `--watch-once`.  Discovery, path checks, the binding of the state file
to one configuration and its size limit are refusals that change nothing.
Publication compares the destination with the preimage and replaces it in one
step: the window between the two in a replacing rename, which the comment in
`atomic.rs` `commit_open_with_destination_check` admits cannot be eliminated
portably, is not represented.  Time is the fact "a stable interval has
passed", since an entry's observation, an input's last write, or the start of
the scan.

## 3. Runs

| Run | Module and configuration | States | What it shows |
|---|---|---|---|
| `generation_safety` | `MCGeneration`, 3 members | 339,576 | `ReadyOwnsStages`, `PreimageSurvives`, `Recoverable`, `ReclaimAsPredicted`, `DestroysOnlyItsOwn`, `ImplementsPublication` (refinement), `Converges` |
| `batch` | `MCBatch`, 2 outputs | 301,318 | `CompletedMeansCommitted`, `AnnouncedIsVerified`, `OnlyOverwriteReplaces`, `IntactIsNotRebuilt`, `Completes` |
| `request_control` | `MCRequestControl`, 3 callers | 11,124 | `ReasonsAgree`, `LateCallsFail`, `ImplementsControl` (refinement) |
| `byte_quota` | `MCByteQuota`, 3 slots, capacity 3 | 12,683 | `UsedIsLeased`, `RefusedOnlyWhenFull`, `ImplementsQuota` (refinement) |
| `grpc_safety` | `MCGrpcAnalyze`, 3 requests, 2 permits, 2 identifiers | 1.9 million | `TypeOK` with the budgets, `PermitsFollowWork`, `LeasesFollowWork`, `RegistryNamesActiveWork`, `MetricsMatchResponse` |
| `grpc_ends` | `MCGrpcAnalyzeLive.cfg`, 2 requests, 1 permit | 16,705 | `AbandonedWorkEnds`, `LateWorkEnds` |
| `subprocess` | `MCSubprocess`, limit 1, up to 2 bytes written | 443,618 | `OkIsComplete`, `NothingIsLeft`, `OnlyOwnGroupKilled`, `ReasonsAreReal`, `CallsReturn`, `StopsUnattended` |
| `analysis_cache` | `MCAnalysisCache`, 3 calls in 2 processes | 659,397 | `LimitIsRestored`, `RacesNeedTwoProcesses`, `AnswersAreOfTheSource` |
| `watch` | `MCWatch`, 1 input with 2 contents, 3 writes | 215,868 | `Reopenable`, `CompletedIsRendered`, `StableSinceScan`, `ReplacesOnlyRecorded`, `CompletedStays` |
| `watch_shared` | `MCWatchShared.cfg`, 2 inputs, 1 output, 1 write each, no retries | 211,532 | `Serves` |
| `watch_stable_interval` | `MCWatchStable.cfg`, 2 writes | | `OnlyStableInputs` violated, see section 5 |
| `watch_foreign_output` | `MCWatchForeign.cfg` | | `ForeignOutputsKept` violated, see section 5 |

Further properties are stated in the modules and proved (section 4) without a
run that lists them: `TypeOK` of every module but `GrpcAnalyze`, `OneCancelWins`,
`DeadlineIsReal` and `TerminalIsPermanent` of `RequestControl`,
`NeverFailsClosed` of `ByteQuota`, `ControlsAreKept` and `BudgetsAreKept` of
`GrpcAnalyze`, `AllOrNothing`, `AbandonedMeansConflict` and `OperationsEnd` of
`Generation`, `KeepsToPublication` and `AllOrNothing` of `Batch`,
`FailedIsSuppressed` of `Watch`, `NewestIsKept` of `AnalysisCache`.  TLC found no
violation of them on the same instances before they were proved.

### Bounds, and why they are enough

- *Generation.*  Three members have a member that is done, one in hand and one
  to come at every location of both loops; two destinations may be disturbed
  and a third not.  Generations may follow one another without bound: the state
  space is finite because files are described by evidence.  Initial
  destinations exist or not in every combination.  The proofs remove the bound.
- *Batch.*  Two outputs are what partial publication needs: one moved, one not.
  Generations, crashes, reclaims, competitors and lost documents are unbounded;
  there is no bound beside the number of outputs, which the proofs remove.
- *RequestControl.*  Two callers race; the third begins and ends calls between
  their steps.  The proofs remove the bound.
- *ByteQuota.*  Three slots let an exchange fail because of a grant and because
  of a return in one call; with capacity 3 and a counter width of 4, requests
  below, at and above the capacity, and overflowing sums, all occur.  The
  proofs remove the bound.
- *GrpcAnalyze.*  Two permits and three requests: saturation, and a detached
  worker beside a live one.  Two identifiers: one refused while its worker runs
  and taken again afterwards, and a different one.  The memory
  capacity admits one working set beside one message, so every reservation is
  refused in some state.  A request is an Analyze call and is not repeated; the
  third request is the "next" one.
- *Subprocess.*  A stream of two bytes and a limit of one: empty, at the limit
  and above it, read in one chunk or two.  `MaxWrites` is the bound.  The proofs
  hold for any limit and any number of bytes, with the same two descendants.
- *AnalysisCache.*  Two threads of one process and one call of another, whose
  limit is smaller; entries of one and two bytes, limits of two and one: an
  entry that is too large, a prune that evicts one or several, and a cache above
  its limit at the start.  Two calls share a source, one entry may be damaged.
  A source is written once (`MaxWrites`), each call is made once.
- *Watch.*  Three writes with two contents: stable, changed while processed,
  changed back to the old bytes with a new stamp.  Crashes, restarts, retries,
  removals and competitors are unbounded.  `MaxWrites` is the only bound of a
  run beside the sets.  In `watch_shared` each input has a content of its own,
  so the two renderings differ.
- Symmetry is used in the safety runs over callers, slots, requests and
  identifiers, which no definition tells apart, and in no liveness run.

### Deadlock

`RequestControl`, `ByteQuota` and `Batch` are checked for deadlock (a batch
command can always be started again).  The other systems may really stop: a
journal whose evidence a competitor destroyed is refused by every operation; all
requests or calls of the instance are answered; a watch folder whose state is
refused stays down.

### Fairness

- *Generation* (`Spec`): weak fairness of the publication and rollback steps
  together, and of reopening a Publishing journal.  A process that runs goes
  on, and an interrupted publication is eventually reopened by its next start
  (resume and reclaim are the documented way on).  Failures and crashes may
  always happen until `calm`, so nothing is gained from luck: `Converges` is
  claimed from `calm` on, for journals no competitor disturbed.
- *Batch* (`FairSpec`): weak fairness of the process and of the holder of the
  journal lock.  From `calm` on nothing fails, and the command is repeated with
  `--overwrite`; `Completes` claims that the job is completed then for good,
  unless the documents are `Wedged`, which says what no repetition resolves.
- *Subprocess* (`Spec`): weak fairness of the reader's, the supervisor's and the
  caller's own steps (threads run on), and of the passing of the deadline, which
  every helper has.  None for the helper, which need neither exit nor read nor
  close its streams, none for cancellation, and none for an error of
  `Child::wait`.  `WaitKilled` is enabled only when the leader has ended, so
  fairness does not free a supervisor that waits for a helper it could not
  kill.
- *GrpcAnalyze* (`Spec`): weak fairness of each worker's steps (the blocking
  pool runs every task) and of each future's own steps (tokio polls a future
  whose timer fired or whose worker returned).  None for clients, for the clock
  or for the end of a decode: a decode that never ends must still pass its
  checkpoints, which is `WorkerStops`.
- *Watch* (`FairSpec`): weak fairness of the process and of time.  The process
  is started again when it ended, as by a service manager; `Serves` is claimed
  from `calm` on and says what blocks the folder (`Wedged`): an entry that
  fails verification ends every scan, and every other input waits.

### What the properties say

Each has a comment in its module.  The less obvious ones:

- `Recoverable`: whatever step a publication or an earlier rollback stopped at,
  either every member is published or every member no competitor disturbed can
  be classified from its files alone, with the journal still saying `Prepared`.
- `ReclaimAsPredicted`: `inspect_reclaim` and `reclaim` are written separately;
  the first must tell what the second does.
- `DestroysOnlyItsOwn`: no publication or rollback step reduces the number of
  foreign files, and none reduces the copies of the old bytes before Committed
  is durable.
- `ImplementsPublication`: the ten kinds of step a publication takes, with every
  failure and recovery, are steps of a specification of a dozen lines or
  stutters; `Batch` relies on nothing else.
- `CompletedMeansCommitted` relates two documents that no lock covers together.
- `IntactIsNotRebuilt` excludes invocations during which a read failed: then a
  valid generation looks invalid, and `--overwrite` publishes it again.
- `LimitIsRestored`: processes prune by listings of their own, each unaware of
  what the others add and remove; once every stored entry was followed by a
  prune that saw it, the entries fit the largest limit, also when that prune
  ended with "remains above the limit".
- `OkIsComplete` relates the helper's exit, the reader's result and everything
  that was ever written: neither a truncated stream nor the empty buffer of the
  bounded join ever passes for output.
- `CallsReturn` and `StopsUnattended` have one exception, `Unkilled`: the
  supervisor is inside `Child::wait` over a leader that the failed termination
  left running.  It is the current state and not the past error that excuses
  them: if such a helper ends, the call must return.  `StopsUnattended` also
  excuses an error of `Child::wait` itself, after which nobody reaps the leader.
- `NothingIsLeft` excuses a zombie by an error of `Child::wait` and a running
  process by an error of the termination, and by nothing else.
- `CompletedStays` allows one failure to take completed work back, spelled out
  in the formula: when the save that completes an entry fails after it has
  replaced the state file, `mark_failed` turns the entry into a failed one with
  the same digests.  No other entry, and no other field, may change.
- `RegistryNamesActiveWork` is an equivalence: an identifier is reserved
  exactly as long as its worker may run.
- `LeasesFollowWork` gives the exact set of leases at every combination of
  future and worker, so a leak, a double return and a lease that outlives its
  allocation all violate it.
- `StableSinceScan` says what the stable-file rule guarantees although a scan
  dates its observations with its start: a write restarts the interval, and no
  reset, retry, recovery or restart shortens it further.
- `ReplacesOnlyRecorded` relates three moments: before the attempt the state
  file names the output's digest, during it the same digest is its prior
  output, and at publication that is what is replaced.
- `CompletedIsRendered` excludes attempts during which somebody wrote the
  output or rewrote the input behind an unchanged stamp (`forged`): the code
  hashes the input before and after, and cannot see a change that is undone.

## 4. Proofs

| Module | Theorems, and the property each states | Assumes |
|---|---|---|
| `GenerationProofs` | `TypeCorrect`, `ReadyStagesIntact` (`ReadyOwnsStages`), `PreimageSafe` (`PreimageSurvives`), `TerminalAtomicity` (`AllOrNothing`), `AlwaysRecoverable` (`Recoverable`), `AbandonedOnlyOnConflict` (`AbandonedMeansConflict`), `ForeignFilesSafe` (`DestroysOnlyItsOwn`), `ReclaimIsForeseen` (`ReclaimAsPredicted`), `HolderReturns` (`OperationsEnd`), `StepsAreFew`, `Refinement` (`ImplementsPublication`) | `NAssumption` |
| `BatchProofs` | `TypeCorrect`, `DocumentsAgree` (`CompletedMeansCommitted`), `CompletionIsVerified` (`AnnouncedIsVerified`), `ReplacementIsAuthorized` (`OnlyOverwriteReplaces`), `IntactStays` (`IntactIsNotRebuilt`), `PublicationKept` (`KeepsToPublication`), `PublicationAllOrNothing` and `OutputsAllOrNothing` (`AllOrNothing`) | none |
| `RequestControlProofs` | `ReasonPermanent` (`TerminalIsPermanent`), `CallersAgree` (`ReasonsAgree`), `CancelWinsOnce` (`OneCancelWins`), `DeadlineOnlyWhenLate` (`DeadlineIsReal`), `LateCallsNeverSucceed` (`LateCallsFail`), `Refinement` (`ImplementsControl`) | none |
| `ByteQuotaProofs` | `CounterIsExact` (`UsedIsLeased`), `ReleaseNeverFails` (`NeverFailsClosed`), `RefusalsAreFair` (`RefusedOnlyWhenFull`), `Refinement` (`ImplementsQuota`) | `HoldersAssumption`, `CapacityAssumption` |
| `GrpcAnalyzeProofs` | `TypeCorrect`, `PermitsExact` (`PermitsFollowWork`), `LeasesExact` (`LeasesFollowWork`), `RegistryExact` (`RegistryNamesActiveWork`), `MetricsAgree` (`MetricsMatchResponse`), `BudgetsRefineQuota` (`BudgetsAreKept`), `ControlsRefineControl` (`ControlsAreKept`) | `RequestsAssumption`, `LimitsAssumption` |
| `SubprocessProofs` | `TypeCorrect`, `SuccessIsComplete` (`OkIsComplete`), `TreeIsGone` (`NothingIsLeft`), `NoForeignGroup` (`OnlyOwnGroupKilled`), `ErrorsAreReal` (`ReasonsAreReal`) | `LimitsAssumption`, `NoneAssumption` |
| `AnalysisCacheProofs` | `TypeCorrect`, `AnswersAreCurrent` (`AnswersAreOfTheSource`), `ThreadsDoNotRace` (`RacesNeedTwoProcesses`), `NewestStays` (`NewestIsKept`), `LimitHoldsAgain` (`LimitIsRestored`) | `CallsAssumption`, `ContentsAssumption`, `LimitsAssumption` |
| `WatchProofs` | `TypeCorrect`, `AlwaysReopenable` (`Reopenable`), `CompletionIsTrue` (`CompletedIsRendered`), `OnlyStableSinceScan` (`StableSinceScan`), `OnlyRecordedReplaced` (`ReplacesOnlyRecorded`), `CompletionStays` (`CompletedStays`), `FailureIsSuppressed` (`FailedIsSuppressed`) | `FilesAssumption`, `DataAssumption`, `BoundsAssumption` |

They hold for any number of members, outputs, callers, slots, requests, calls,
processes, inputs and bytes, any capacity and any counter width not below it.
Each module rests on one inductive invariant `IInv`, checked with TLC before it
was proved, with one lemma per action.

*Generation.*  The safety properties speak of the journal and the files, but
the journal says only "Publishing" while 10 kinds of step are taken, so none is
inductive.  `IInv` adds, for every location of the lock holder, what the
private path names of each member hold, and what its destination holds unless a
competitor changed it.  A member nobody disturbed is always in one of four
configurations (`IsStaged`, `IsBackedUp`, `IsPublished`, `IsRestored`);
`PublishInv` and `RollbackInv` split the members at the loop index;
`Classified` says that a classification made once for all members still
describes the members the rollback has not reached.  The last is the heart of
the argument: rollback acts on evidence that is stale by then, and stays right
because only the lock holder touches private names.  There is one lemma per
action; `MovedFiles` and `UnlinkedFiles` say what the file operations change.
`ForeignFilesSafe` counts copies over the three path names of a member
(`MovedKeepsCopies`, `UnlinkedCopies`) and needs `IInv` to know what is
unlinked.  `Refinement` goes through the steps of the lock holder: a move that
shows at a destination is a step of `Publication` for that member, a move
between private names is a stutter, and a save is a journal step, for whose
guard `IInv` tells what all destinations hold.

`ReclaimIsForeseen` needs `Foreseen`, inductive relative to `IInv`: for each
forecast, what the files hold at every location of the recovery that follows, so
that, as long as nothing fails and no competitor comes, the recovery can end only
as foretold.  A forecast is dropped by the step that spoils it, and
`Foreseen` says why no other step does.

`HolderReturns` is the part of `Converges` that needs no fairness: `StepsLeft` is
a natural number computed from location and member, every step of the lock
holder makes it smaller, whatever failed, and no step of the environment makes
it larger.  `StepsAreFew` bounds it by `12 * N + 12`.  What remains to TLC is that
the operation which ends so, and is repeated, ends in a terminal phase.

*Batch.*  `IInv` adds what the lock holder's `way` says of the phase
(`HolderKnows`), what each location of the process says of both documents
(`ProcessKnows`), and that outputs not `stale` are as the process last saw them
(`OutputsKnown`).  The point is that the process decides on a phase it has seen
without the lock while a reclaim may move the journal on: where a new generation
is rendered the job is not completed and no journal is in flight, where
completion is recorded the journal is committed, and no step of the other
process can undo either.  `PublicationKept` maps the steps of both processes and
of the environment back to `Publication`, of which `Batch` must not make more
than it promises; the one addition is `Forget`, a terminal journal that somebody
deletes.  `PublicationAllOrNothing` is proved from the steps of `Publication` alone,
and `OutputsAllOrNothing` follows from the two.

*RequestControl.*  `IInv` adds `BegunHolds` (what was terminal or late when a
call began still is) and `CallKnows` (what a caller has learnt from its load
and its clock reading holds when it exchanges).  `Refinement` places the effect of
a call at its successful exchange, or at the load that finds a terminal state,
or, for a check that passes, at its clock reading; loads, clock readings and
exchanges that lose are stutters.  It needs `CallKnows` where a cancel exchanges
long after its clock reading.

*ByteQuota.*  The bytes on lease are the cardinality of a set with one element
per byte, because a sum over a set is a recursive definition the prover cannot
unfold; `ShareSize` and the `Charged...` lemmas give its type and its change
when one lease is granted or returned.  `SumIsExact` shows why the checked
addition is needed: a sum that passes both tests is the true one, although the
counter wraps.  `IInv` adds `LeasesFit` and
`RoomWasSeen` (a call for which there has been room all along has room now).
`Refinement` maps a slot's lease to its bytes between the exchange that grants
and the one that returns; every other step stutters.

*GrpcAnalyze.*  `IInv` is the types, that the leases fit the budgets
(`BudgetsFit`), that permits are conserved, and `Fine(r)`: which combinations of
future and worker occur, the leases `Owed` by each, and which identifier they
keep.  The lemmas on the registry say that a request frees only its own entry.  `BudgetsRefineQuota` gives each request a
slot per kind of lease in one of the two budgets; a step that grants a lease is
an `Acquire` (`BudgetsFit` of the next state says that it fits), any other a
`Release` of the slots it empties.  `ControlsRefineControl` is the same for the
control of one request, for all requests.

*Subprocess.*  `SupervisorKnows` and `ReaderKnows` say what each location implies
for the helper, the stream and the slot: where the supervisor has ended the
leader is reaped unless an error of `Child::wait` was met, and it runs only
after an error of the termination; `StopIsForFailure` that the reader is
told to stop only on a failure or after the exit; `CallerKnows` that a caller
past its wait sees the supervisor's final state; `FailuresAreReal` that a
recorded failure has its cause.

*AnalysisCache.*  `Mutex` (at most one thread of a process stores or prunes) and
`Knows(c)`, one part per stage of a call: what was read or computed is the
analysis of what was captured, and, as long as no other process acts, the
destination is the one staged for and what the scan has listed exists with the
total it has counted.  The bytes of a listing are the cardinality of a set, as
for the budget.  `Fair` says that a race it has met is due to another process.

`LimitHoldsAgain` needs a second invariant, `LimitInv`, relative to the first:
`Covered` says that while an entry a prune answers for (`covers`) is unpruned,
every entry is still ahead of its scan, listed by it, or stored since it began;
`Nested` that of two prunes one answers for all that the other does, so that the
end of one takes nothing from the other; `OneName` that a scan inspects one name
at a time.  The bytes of the cache are a cardinality again, so that removing an
entry lowers them by its length without induction.

*Watch.*  `EntryKnows` and `FileAgrees` relate an entry to the files it speaks
of, `ScanKnows` and `CandidatesKnow` the scan's sets to the state document,
`BindKnows` and `JobKnows` the candidate in hand to `mem`, `disk` and its
preimage at every location; `DownKnows` says what a dead process has left.
`CompletionStays` rests on one part of `JobKnows`: when an attempt has failed, a
completed entry of the state file is the one in memory, so
that `mark_failed` finds the rendered output and keeps its digest.

*Only model-checked:* the liveness properties (`Converges`, `Completes`,
`AbandonedWorkEnds`, `LateWorkEnds`, `CallsReturn`, `StopsUnattended`, `Serves`),
because the prover does not handle fairness and ENABLED.  Every safety property
and every refinement of a passing run is also a theorem.

## 5. Where code and words differ

Each is a run that TLC finds violated; `PROJECT.json` quotes the lines.

- **A foreign output becomes the verified one** (`watch.rs` `mark_failed`).  A
  file put at the output path during a first normalization is rightly not
  replaced; but the failed attempt records *its* digest as the entry's output.
  After the next change of the input the file passes for the previously
  verified output and is replaced, without any retry being asked for.
  `WATCH-FOLDERS.md` promises that only the exact previously verified output is
  replaced.
- **The stable interval is counted from the start of the scan** (`watch.rs`
  `scan_at`).  One clock reading dates every observation of a scan.  If hashing
  the completed inputs and outputs takes longer than the interval, an input
  written late during the scan counts as observed before it was written, and is
  processed by the next scan; `WATCH-FOLDERS.md` promises the full interval
  after any observed change.  What does hold is `StableSinceScan`.

Differences that have no run:

- `subprocess.rs` 9-11: a failure "always terminates the tree and reaps the
  child before the error is returned".  When the kill of the leader fails
  (2366-2370) the error is only kept, and `Child::wait` (951, 992) blocks without
  a deadline for as long as the helper runs; when `Child::wait` itself fails, the
  call returns over a leader that is not reaped.  The exceptions of
  `CallsReturn`, `StopsUnattended` and `NothingIsLeft` say exactly this; a run
  that violates them would show no more than that a system call may fail.
- `watch.rs` 457-477 with `main.rs` 929: a save that completes an entry and fails
  after the rename (the directory sync) is followed by `mark_failed`, which turns
  the completed entry into a failed one although the output is right.  The
  digest is kept, so that a retry replaces it (`CompletedStays`).
- `generation.rs` `restore_moved_after_evidence_mismatch`: called from the
  restore of a backup its source and target are the other way round, so a
  competitor's live file is moved to the backup name.  Nothing is destroyed
  (`DestroysOnlyItsOwn`), but the destination is left absent.
- `service_grpc.rs`, transport deadline branch: a request whose Cancel won, and
  whose worker stops as cancelled, is answered with the deadline when the
  transport's timer fires first; the comment on the request control promises one
  reason for every observer.
- `generation.rs` 801-804: the comment on `abandon` says that destination
  preimages are revalidated; the code validates private files only and records a
  changed destination as an untouched conflict, which is harmless and looks
  intended.
- `analysis_cache.rs` `recognized_entries` (719) and `prune` (618-627) return an
  error when another process changes the directory under them, although the
  analysis is in hand; `ANALYSIS-CACHE.md` 72-74 speaks of a miss only.
- `Wedged` in `Batch`: a committed journal whose backups were not cleaned and
  whose outputs have changed since can be neither rebuilt (`--overwrite` ends
  with "retains a private path; recover or reclaim it first") nor reclaimed; a
  comment in `main.rs` (about line 4692) says that such a job can be rebuilt.

## 6. Not modelled

`PROJECT.json` lists every component with its reason.  By far most of the source
(decoders, encoders, quality-control readers, object and scene metadata,
reports, bindings, signal processing) transforms data in one thread and has no
protocol: its correctness is numeric or a matter of a format, which neither tool
reaches.  The catalogue relies on SQLite's isolation.  REST and gRPC
connections, the metadata transaction, spools and remote ranges have protocols
and are not modelled yet.  Two generations whose member sets overlap are each
the other's competitor, but no module shows both journals at once.

## 7. Plan

Done: the publication stack (`Publication`, `Generation`, `Batch`), the shared
objects of the services and the request life cycle over them, the supervisor,
the cache, and the watch folder, with their safety properties proved.

Left, in this order:

1. Two `Generation`s on overlapping destinations (`generation.rs` 577): both
   journals in one module, each with its own lock.
2. `MetadataTransaction`: a one-member journal that refines `Publication`.
3. `RestConnection` and `GrpcConnection`: two gates, slow clients, deadlines
   (`service.rs` 1091, `service_grpc.rs` 489).
4. The output a reset Processing entry may have left behind (`watch.rs` 288).
5. `RemoteRange`, `PcmSpool`, and the pure part of `OutputPlan`.
6. Proofs: bounds like `StepsLeft` for the supervisor and for a request, which
   would leave only fairness itself to the liveness runs.
