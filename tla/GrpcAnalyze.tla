---------------------------- MODULE GrpcAnalyze -----------------------------
(***************************************************************************)
(* The life of gRPC Analyze requests (src/src/service_grpc.rs): transport  *)
(* admission, the RPC future, the blocking worker it spawns, Cancel, the   *)
(* absolute deadline, and clients that go away.                            *)
(*                                                                         *)
(* The future and the worker of one request run concurrently.  Dropping    *)
(* the future only detaches the worker, which then owns the worker permit, *)
(* the registry entry and its leases until it returns.  The worker looks   *)
(* at the request control at its checkpoints; between two of them it may   *)
(* decode for any length of time.  The control and the byte budgets are    *)
(* the indivisible objects that RequestControl and ByteQuota implement.    *)
(***************************************************************************)
EXTENDS Naturals, FiniteSets

CONSTANTS
  Requests,           \* Analyze calls
  Ids,                \* request_id values their messages carry
  NoRequest,          \* marks a free request_id
  Workers,            \* ServiceConfig.workers, the permits
  MemoryCapacity,     \* ResourceGovernor.memory
  StorageCapacity,    \* ResourceGovernor.temporary_storage
  Bytes               \* size of each kind of lease

Kinds == {"message", "working", "reply", "storage"}

ASSUME RequestsAssumption == IsFiniteSet(Requests) /\ NoRequest \notin Requests
ASSUME LimitsAssumption ==
  /\ Workers \in Nat \ {0}
  /\ MemoryCapacity \in Nat
  /\ StorageCapacity \in Nat
  /\ Bytes \in [Kinds -> Nat]

VARIABLES
  pc,         \* where the RPC future of each request is
  id,         \* the request_id its message carries
  control,    \* RequestControl state
  late,       \* its deadline has passed
  worker,     \* where its blocking worker is
  lease,      \* kinds of QuotaLease alive for the request
  result,     \* what the worker returned
  permits,    \* free worker permits
  registry,   \* RequestRegistry.active
  outcome,    \* the status its metrics timer recorded
  response    \* the status the client was sent

vars == <<pc, id, control, late, worker, lease, result, permits, registry,
          outcome, response>>

-----------------------------------------------------------------------------

Reasons == {"cancelled", "deadline"}

Statuses == {"none", "ok", "busy", "error"} \cup Reasons

Stages == {"idle", "header", "message", "spawn", "await", "body", "done"}

WorkerStages == {"none", "queued", "spool", "reserve", "decode", "reply",
                 "unregister", "release", "joined"}

Running == {"queued", "spool", "reserve", "decode", "reply"}

Init ==
  /\ pc = [r \in Requests |-> "idle"]
  /\ id \in [Requests -> Ids]
  /\ control = [r \in Requests |-> "running"]
  /\ late = [r \in Requests |-> FALSE]
  /\ worker = [r \in Requests |-> "none"]
  /\ lease = [r \in Requests |-> {}]
  /\ result = [r \in Requests |-> "none"]
  /\ permits = Workers
  /\ registry = [i \in Ids |-> NoRequest]
  /\ outcome = [r \in Requests |-> "none"]
  /\ response = [r \in Requests |-> "none"]

-----------------------------------------------------------------------------
(* Shared objects. *)

\* One element for every byte on lease for the kinds K.
LeasedBytes(K) ==
  {x \in Requests \X K \X (1 .. MemoryCapacity + StorageCapacity) :
     x[2] \in lease[x[1]] /\ x[3] <= Bytes[x[2]]}

\* Mutant: a lease is compared with the capacity alone.
CanReserveAlone(k) ==
  Bytes[k] <= IF k = "storage" THEN StorageCapacity ELSE MemoryCapacity

\* try_acquire of the budget that k is charged to.
CanReserve(k) ==
  IF k = "storage"
    THEN Cardinality(LeasedBytes({"storage"})) + Bytes[k] <= StorageCapacity
    ELSE Cardinality(LeasedBytes(Kinds \ {"storage"})) + Bytes[k]
           <= MemoryCapacity

Leases(r, S) == lease' = [lease EXCEPT ![r] = S]

\* What check finds: the first terminal reason, or the deadline right now.
Checked(r) ==
  IF control[r] = "running" /\ late[r] THEN "deadline" ELSE control[r]

Check(r) == control' = [control EXCEPT ![r] = Checked(r)]

\* expire: the deadline, unless the request has ended already.
Expired(r) == IF control[r] = "running" THEN "deadline" ELSE control[r]

\* cancel, on behalf of a Cancel call or of a dropped future.
CancelControl(r) ==
  control' = [control EXCEPT ![r] =
    IF @ # "running" THEN @ ELSE IF late[r] THEN "deadline" ELSE "cancelled"]

\* Mutant: the last guard to run wins.
RecordOverwrites(r, s) ==
  outcome' = [outcome EXCEPT ![r] = s]

\* The timer's inner value is taken once: the first status is recorded.
Record(r, s) ==
  outcome' = [outcome EXCEPT ![r] = IF @ = "none" THEN s ELSE @]

Respond(r, s) ==
  Record(r, s) /\ response' = [response EXCEPT ![r] = s]

Goto(r, l) == pc' = [pc EXCEPT ![r] = l]

WorkerGoto(r, l) == worker' = [worker EXCEPT ![r] = l]

ReleasePermit == permits' = permits + 1

-----------------------------------------------------------------------------
(* The RPC future. *)

\* HEADERS arrived: the deadline starts and a permit is taken, or refused.
Arrive(r) ==
  /\ pc[r] = "idle"
  /\ IF permits > 0
       THEN /\ permits' = permits - 1
            /\ Goto(r, "header")
            /\ UNCHANGED <<outcome, response>>
       ELSE /\ Goto(r, "done")
            /\ Respond(r, "busy")
            /\ UNCHANGED permits
  /\ UNCHANGED <<id, control, late, worker, lease, result, registry>>

\* The transport returns status s; its permit and its message are dropped.
TransportFails(r, s) ==
  /\ Goto(r, "done")
  /\ Respond(r, s)
  /\ ReleasePermit
  /\ Leases(r, {})

\* A bad or broken frame header is answered whatever the time; a complete one
\* is followed by a check of the control, the admission of the declared length
\* to the memory budget, and the hand over of the body to tonic.
ReadHeader(r) ==
  /\ pc[r] = "header"
  /\ \/ TransportFails(r, "error") /\ UNCHANGED control
     \/ Check(r) /\ Checked(r) # "running" /\ TransportFails(r, Checked(r))
     \/ /\ Check(r) /\ Checked(r) = "running"
        /\ \/ TransportFails(r, "error")
           \/ /\ CanReserve("message")
              /\ Leases(r, {"message"})
              /\ Goto(r, "message")
              /\ UNCHANGED <<permits, outcome, response>>
  /\ UNCHANGED <<id, late, worker, result, registry>>

HeaderTimeout(r) ==
  /\ pc[r] = "header"
  /\ late[r]
  /\ control' = [control EXCEPT ![r] = Expired(r)]
  /\ TransportFails(r, "deadline")
  /\ UNCHANGED <<id, late, worker, result, registry>>

\* tonic cannot decode the message, or the handler refuses its fields.
RejectMessage(r) ==
  /\ pc[r] = "message"
  /\ TransportFails(r, "error")
  /\ UNCHANGED <<id, control, late, worker, result, registry>>

\* Mutant: an active request_id is taken over.
RegisterOverwrites(r) ==
  /\ pc[r] = "message"
  /\ registry' = [registry EXCEPT ![id[r]] = r]
  /\ Goto(r, "spawn")
  /\ UNCHANGED <<id, control, late, worker, lease, result, permits, outcome,
                 response>>

\* register_control, under the registry lock.
Register(r) ==
  /\ pc[r] = "message"
  /\ IF registry[id[r]] # NoRequest
       THEN TransportFails(r, "error") /\ UNCHANGED registry
       ELSE /\ registry' = [registry EXCEPT ![id[r]] = r]
            /\ Goto(r, "spawn")
            /\ UNCHANGED <<lease, permits, outcome, response>>
  /\ UNCHANGED <<id, control, late, worker, result>>

Unregistered(r) ==
  [registry EXCEPT ![id[r]] = IF @ = r THEN NoRequest ELSE @]

\* run_analysis_worker: a request that has ended is not spawned; its lease
\* takes the registry entry and the permit with it.
SpawnWorker(r) ==
  /\ pc[r] = "spawn"
  /\ Check(r)
  /\ IF Checked(r) = "running"
       THEN /\ Goto(r, "await")
            /\ WorkerGoto(r, "queued")
            /\ UNCHANGED <<lease, permits, registry, outcome, response>>
       ELSE /\ TransportFails(r, Checked(r))
            /\ registry' = Unregistered(r)
            /\ UNCHANGED worker
  /\ UNCHANGED <<id, late, result>>

\* The worker has returned: its result becomes the response, whose body
\* keeps the reply lease.
Join(r) ==
  /\ pc[r] = "await"
  /\ worker[r] = "joined"
  /\ Goto(r, IF result[r] = "ok" THEN "body" ELSE "done")
  /\ Respond(r, result[r])
  /\ UNCHANGED <<id, control, late, worker, lease, result, permits, registry>>

\* The timeout inside run_analysis_worker elapses before the worker returns.
InnerTimeout(r) ==
  /\ pc[r] = "await"
  /\ worker[r] # "joined"
  /\ late[r]
  /\ control' = [control EXCEPT ![r] = Expired(r)]
  /\ Respond(r, Expired(r))
  /\ Goto(r, "done")
  /\ UNCHANGED <<id, late, worker, lease, result, permits, registry>>

\* Mutant: a dropped admission keeps its permit.
DropFutureKeepsPermit(r) ==
  /\ Goto(r, "done")
  /\ Leases(r, IF worker[r] \in {"none", "joined"} THEN {} ELSE lease[r])
  /\ UNCHANGED permits

\* What dropping the future releases: before the handler runs it owns the
\* permit and the message, afterwards the worker owns everything.
DropFuture(r) ==
  /\ Goto(r, "done")
  /\ IF pc[r] \in {"header", "message"}
       THEN ReleasePermit /\ Leases(r, {})
       ELSE /\ Leases(r, IF worker[r] = "joined" THEN {} ELSE lease[r])
            /\ UNCHANGED permits

\* Mutant: the message is awaited outside the timeout.
OuterTimeoutAfterMessage(r) ==
  /\ pc[r] = "await"
  /\ worker[r] # "joined"
  /\ late[r]
  /\ control' = [control EXCEPT ![r] = Expired(r)]
  /\ Respond(r, "deadline")
  /\ DropFuture(r)
  /\ UNCHANGED <<id, late, worker, result, registry>>

\* The deadline of the transport layer elapses first.
OuterTimeout(r) ==
  /\ pc[r] \in {"message", "await"}
  /\ worker[r] # "joined"
  /\ late[r]
  /\ control' = [control EXCEPT ![r] = Expired(r)]
  /\ Respond(r, "deadline")
  /\ DropFuture(r)
  /\ UNCHANGED <<id, late, worker, result, registry>>

BodySent(r) ==
  /\ pc[r] = "body"
  /\ Goto(r, "done")
  /\ Leases(r, {})
  /\ UNCHANGED <<id, control, late, worker, result, permits, registry, outcome,
                 response>>

\* Mutant: the detached worker is not told.
DisconnectUnguarded(r) ==
  /\ pc[r] \in {"header", "message", "await", "body"}
  /\ UNCHANGED control
  /\ Record(r, "cancelled")
  /\ DropFuture(r)
  /\ UNCHANGED <<id, late, worker, result, registry, response>>

\* The client goes away and tonic drops the future, or the response body.
\* While a worker may run, CancellationGuard cancels the request.
Disconnect(r) ==
  /\ pc[r] \in {"header", "message", "await", "body"}
  /\ IF pc[r] = "await" THEN CancelControl(r) ELSE UNCHANGED control
  /\ Record(r, "cancelled")
  /\ DropFuture(r)
  /\ UNCHANGED <<id, late, worker, result, registry, response>>

-----------------------------------------------------------------------------
(* The blocking worker (analyze_audio). *)

WorkerReturns(r, s, S) ==
  /\ WorkerGoto(r, "unregister")
  /\ result' = [result EXCEPT ![r] = s]
  /\ Leases(r, S)

\* A checkpoint: the worker goes on to a step, or returns the reason.
Checkpoint(r, step) ==
  /\ Check(r)
  /\ IF Checked(r) = "running" THEN step ELSE WorkerReturns(r, Checked(r), {})
  /\ UNCHANGED <<pc, id, late, permits, registry, outcome, response>>

\* The next stage, with the leases S; or an error (no room, I/O, media, panic).
Advance(r, l, S) ==
  \/ WorkerGoto(r, l) /\ Leases(r, S) /\ UNCHANGED result
  \/ WorkerReturns(r, "error", {})

AdvanceIfRoom(r, k, l) ==
  IF CanReserve(k) THEN Advance(r, l, lease[r] \cup {k})
                   ELSE WorkerReturns(r, "error", {})

\* UploadSpool::create
WorkerStart(r) ==
  /\ worker[r] = "queued"
  /\ Checkpoint(r, AdvanceIfRoom(r, "storage", "spool"))

\* write_chunk, finish_into_stable_input; the message is dropped.
WorkerSpool(r) ==
  /\ worker[r] = "spool"
  /\ Checkpoint(r, Advance(r, "reserve", lease[r] \ {"message"}))

WorkerReserve(r) ==
  /\ worker[r] = "reserve"
  /\ Checkpoint(r, AdvanceIfRoom(r, "working", "decode"))

\* The decode loop finishes; until it does, the worker passes checkpoints
\* that change nothing.
WorkerDecoded(r) ==
  /\ worker[r] = "decode"
  /\ Checked(r) = "running"
  /\ Checkpoint(r, Advance(r, "reply", lease[r]))

\* A checkpoint inside the decode loop finds that the request has ended.
WorkerStops(r) ==
  /\ worker[r] = "decode"
  /\ Checked(r) # "running"
  /\ Checkpoint(r, FALSE)

\* The report is built and its memory reserved; input and working set go.
WorkerReply(r) ==
  /\ worker[r] = "reply"
  /\ Checkpoint(r, IF CanReserve("reply")
                     THEN \/ WorkerReturns(r, "ok", {"reply"})
                          \/ WorkerReturns(r, "error", {})
                     ELSE WorkerReturns(r, "error", {}))

\* AnalysisWorkerLease::drop, then its permit field.
WorkerUnregister(r) ==
  /\ worker[r] = "unregister"
  /\ WorkerGoto(r, "release")
  /\ registry' = Unregistered(r)
  /\ UNCHANGED <<pc, id, control, late, lease, result, permits, outcome,
                 response>>

\* Mutant: the response of an abandoned request keeps its memory.
WorkerReleaseLeaks(r) ==
  /\ worker[r] = "release"
  /\ WorkerGoto(r, "joined")
  /\ ReleasePermit
  /\ UNCHANGED <<pc, id, control, late, lease, result, registry, outcome,
                 response>>

\* The task ends; a result nobody waits for is dropped with its lease.
WorkerRelease(r) ==
  /\ worker[r] = "release"
  /\ WorkerGoto(r, "joined")
  /\ ReleasePermit
  /\ Leases(r, IF pc[r] = "await" THEN lease[r] ELSE {})
  /\ UNCHANGED <<pc, id, control, late, result, registry, outcome, response>>

-----------------------------------------------------------------------------
(* Cancel calls and the clock. *)

\* Cancel cancels whatever request is registered, under the registry lock.
Cancel(i) ==
  /\ registry[i] # NoRequest
  /\ CancelControl(registry[i])
  /\ UNCHANGED <<pc, id, late, worker, lease, result, permits, registry,
                 outcome, response>>

\* The deadline of a control that somebody may still look at.
DeadlinePasses(r) ==
  /\ pc[r] \in {"header", "message", "spawn", "await"} \/ worker[r] \in Running
  /\ ~late[r]
  /\ late' = [late EXCEPT ![r] = TRUE]
  /\ UNCHANGED <<pc, id, control, worker, lease, result, permits, registry,
                 outcome, response>>

WorkerStep(r) ==
  \/ WorkerStart(r) \/ WorkerSpool(r) \/ WorkerReserve(r) \/ WorkerStops(r)
  \/ WorkerReply(r) \/ WorkerUnregister(r) \/ WorkerRelease(r)

FutureStep(r) ==
  HeaderTimeout(r) \/ SpawnWorker(r) \/ Join(r) \/ OuterTimeout(r)

Next ==
  \/ \E r \in Requests :
       \/ Arrive(r) \/ ReadHeader(r) \/ HeaderTimeout(r) \/ RejectMessage(r)
       \/ Register(r) \/ SpawnWorker(r) \/ Join(r) \/ InnerTimeout(r)
       \/ OuterTimeout(r) \/ BodySent(r) \/ Disconnect(r)
       \/ WorkerStep(r) \/ WorkerDecoded(r)
       \/ DeadlinePasses(r)
  \/ \E i \in Ids : Cancel(i)

\* tokio polls a future whose timer fired or whose worker returned, and the
\* blocking pool runs every task.  Nothing is assumed of clients, of the
\* clock, or of how long a decode takes.
Fairness ==
  \A r \in Requests : WF_vars(WorkerStep(r)) /\ WF_vars(FutureStep(r))

Spec == Init /\ [][Next]_vars /\ Fairness

-----------------------------------------------------------------------------
(* Properties. *)

\* The variables have their types, and both budgets hold at every moment,
\* whatever reservations and returns interleave.
TypeOK ==
  /\ pc \in [Requests -> Stages]
  /\ id \in [Requests -> Ids]
  /\ control \in [Requests -> {"running"} \cup Reasons]
  /\ late \in [Requests -> BOOLEAN]
  /\ worker \in [Requests -> WorkerStages]
  /\ lease \in [Requests -> SUBSET Kinds]
  /\ result \in [Requests -> Statuses]
  /\ permits \in 0 .. Workers
  /\ registry \in [Ids -> Requests \cup {NoRequest}]
  /\ outcome \in [Requests -> Statuses]
  /\ response \in [Requests -> Statuses]
  /\ Cardinality(LeasedBytes({"storage"})) <= StorageCapacity
  /\ Cardinality(LeasedBytes(Kinds \ {"storage"})) <= MemoryCapacity

\* Requests between admission and the end of their worker.
Admitted ==
  {r \in Requests :
     \/ pc[r] \in {"header", "message", "spawn"}
     \/ worker[r] \in Running \cup {"unregister", "release"}}

\* A permit is held from admission until the worker returns, whether or not
\* its client still waits: detached workers never exceed the configured
\* number, and no permit is lost or returned twice.
PermitsFollowWork == permits + Cardinality(Admitted) = Workers

\* The bytes each request should have on lease, given where it is.
Owed(r) ==
  CASE pc[r] \in {"message", "spawn"} \/ worker[r] = "queued" -> {"message"}
    [] worker[r] = "spool" -> {"message", "storage"}
    [] worker[r] = "reserve" -> {"storage"}
    [] worker[r] \in {"decode", "reply"} -> {"storage", "working"}
    [] /\ result[r] = "ok"
       /\ \/ worker[r] \in {"unregister", "release"}
          \/ pc[r] \in {"await", "body"} -> {"reply"}
    [] OTHER -> {}

\* Every lease lives exactly as long as the allocation it stands for, in
\* whatever order future, worker, client and deadline end.
LeasesFollowWork == \A r \in Requests : lease[r] = Owed(r)

\* A request_id names the request whose worker is pending or runs, and no
\* other: Cancel reaches it until its worker ends, also when nobody waits for
\* that any more, and nobody else takes its identifier before
\* (service_grpc.rs:5-9).
RegistryNamesActiveWork ==
  \A r \in Requests :
    registry[id[r]] = r <=>
      pc[r] = "spawn" \/ worker[r] \in Running \cup {"unregister"}

\* The metrics record for each request the status its client was sent,
\* although three guards race to record one (service_grpc.rs:752-756).
MetricsMatchResponse ==
  \A r \in Requests :
    response[r] # "none" => outcome[r] = response[r]

\* What stands for the control of a request, and for each byte budget, is used
\* as the objects that RequestControl and ByteQuota implement allow.
Controls(r) == INSTANCE Control WITH state <- control[r], late <- late[r]

Storage == {"storage"}

Memory == Kinds \ {"storage"}

\* The bytes that every owner of a lease of the kinds K has.
Charge(K) ==
  [h \in Requests \X K |-> IF h[2] \in lease[h[1]] THEN Bytes[h[2]] ELSE 0]

Charged(K, f) ==
  Cardinality({x \in Requests \X K \X (1 .. MemoryCapacity + StorageCapacity) :
                 x[3] <= f[<<x[1], x[2]>>]})

ChargedMemory(f) == Charged(Memory, f)

ChargedStorage(f) == Charged(Storage, f)

MemoryBudget ==
  INSTANCE Quota WITH Holders <- Requests \X Memory, Capacity <- MemoryCapacity,
                      Charged <- ChargedMemory, lease <- Charge(Memory)

StorageBudget ==
  INSTANCE Quota WITH Holders <- Requests \X Storage, Capacity <- StorageCapacity,
                      Charged <- ChargedStorage, lease <- Charge(Storage)

\* The control of every request goes once from running to a reason, which is
\* the deadline only after it has passed, whoever cancels, checks or times out.
ControlsAreKept == \A r \in Requests : Controls(r)!Spec

\* Every lease is granted only where it fits beside all that are alive,
\* although one step may return some leases of a request and grant another.
BudgetsAreKept == MemoryBudget!Spec /\ StorageBudget!Spec

\* A worker nobody waits for comes to an end without the clock's help: its
\* client's disconnect, or the timeout, is seen at a checkpoint.
AbandonedWorkEnds ==
  \A r \in Requests : pc[r] = "done" ~> worker[r] \in {"none", "joined"}

\* Once its deadline has passed, every admitted request is answered or dropped
\* and gives its permit back, however slow its client and however long its
\* decode.
LateWorkEnds ==
  \A r \in Requests :
    (r \in Admitted /\ late[r]) ~>
      (r \notin Admitted /\ pc[r] \in {"body", "done"})

=============================================================================
