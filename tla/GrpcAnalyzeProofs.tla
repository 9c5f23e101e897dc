-------------------------- MODULE GrpcAnalyzeProofs --------------------------
(***************************************************************************)
(* Proofs about GrpcAnalyze, for any finite set of requests, any           *)
(* identifiers, permits, capacities and lease sizes: permits, leases and   *)
(* registry follow the work that is going on, the budgets hold, and the    *)
(* metrics record what the client was sent.                                *)
(***************************************************************************)
EXTENDS GrpcAnalyze, FiniteSetTheorems, FunctionTheorems, TLAPS

\* The types, without the bounds on permits and budgets.
Typed ==
  /\ pc \in [Requests -> Stages]
  /\ id \in [Requests -> Ids]
  /\ control \in [Requests -> {"running"} \cup Reasons]
  /\ late \in [Requests -> BOOLEAN]
  /\ worker \in [Requests -> WorkerStages]
  /\ lease \in [Requests -> SUBSET Kinds]
  /\ result \in [Requests -> Statuses]
  /\ permits \in Nat
  /\ registry \in [Ids -> Requests \cup {NoRequest}]
  /\ outcome \in [Requests -> Statuses]
  /\ response \in [Requests -> Statuses]

\* The budgets.
BudgetsFit ==
  /\ Cardinality(LeasedBytes({"storage"})) <= StorageCapacity
  /\ Cardinality(LeasedBytes(Memory)) <= MemoryCapacity

\* The future and the worker of a request are never in contradiction: what
\* each location of the one allows for the other, its result and its record.
InStep(r) ==
  /\ pc[r] \in {"idle", "header", "message", "spawn"} => worker[r] = "none"
  /\ pc[r] = "await" => worker[r] # "none"
  /\ pc[r] = "body" => worker[r] = "joined" /\ result[r] = "ok"
  /\ worker[r] \in {"none"} \cup Running => result[r] = "none"
  /\ pc[r] \notin {"body", "done"} => outcome[r] = "none" /\ response[r] = "none"
  /\ response[r] # "none" => outcome[r] = response[r]

Named(r) ==
  registry[id[r]] = r <=> pc[r] = "spawn" \/ worker[r] \in Running \cup {"unregister"}

Fine(r) == InStep(r) /\ lease[r] = Owed(r) /\ Named(r)

IInv ==
  /\ Typed
  /\ BudgetsFit
  /\ PermitsFollowWork
  /\ \A r \in Requests : Fine(r)

-----------------------------------------------------------------------------
(* Counting permits and bytes. *)

\* Only request r is stepped on: the others keep their place, and of the
\* registry at most the entry of r is set or cleared.
Frame(r) ==
  /\ id' = id
  /\ \A s \in Requests \ {r} :
       /\ pc'[s] = pc[s] /\ worker'[s] = worker[s] /\ lease'[s] = lease[s]
       /\ result'[s] = result[s] /\ outcome'[s] = outcome[s] /\ response'[s] = response[s]
  /\ \/ registry' = registry
     \/ registry[id[r]] = NoRequest /\ registry' = [registry EXCEPT ![id[r]] = r]
     \/ registry' = Unregistered(r)

\* A permit is taken by a request that is admitted, given back by one that is
\* admitted no more.
PermitMoves(r) ==
  \/ permits' = permits /\ (r \in Admitted' <=> r \in Admitted)
  \/ permits' = permits + 1 /\ r \in Admitted /\ r \notin Admitted'
  \/ permits > 0 /\ permits' = permits - 1 /\ r \notin Admitted /\ r \in Admitted'

\* Leases go, or one comes for which there is room.
LeaseMoves(r) ==
  \/ lease'[r] \subseteq lease[r]
  \/ \E k \in Kinds : CanReserve(k) /\ lease'[r] \subseteq lease[r] \cup {k}

\* What every step is to those who share permits and budgets.
Moves(r) == Frame(r) /\ LeaseMoves(r)

\* The admitted requests are finitely many.
LEMMA AdmittedFinite ==
  IsFiniteSet(Admitted) /\ Cardinality(Admitted) \in Nat
<1>1. Admitted \in SUBSET Requests
  BY DEF Admitted
<1> QED
  BY <1>1, RequestsAssumption, FS_Subset, FS_CardinalityType

\* Permits follow a request that enters or leaves.
LEMMA PermitsKeep ==
  ASSUME IInv, NEW r \in Requests, Frame(r), PermitMoves(r)
  PROVE  PermitsFollowWork' /\ permits' \in Nat
<1>1. permits + Cardinality(Admitted) = Workers /\ permits \in Nat
  BY DEF IInv, PermitsFollowWork, Typed
<1>2. \A s \in Requests \ {r} : s \in Admitted' <=> s \in Admitted
  BY DEF Frame, Admitted
<1>3. Admitted \subseteq Requests /\ Admitted' \subseteq Requests
  BY DEF Admitted
<1>4. CASE permits' = permits /\ (r \in Admitted' <=> r \in Admitted)
  <2>1. Admitted' = Admitted
    BY <1>2, <1>3, <1>4
  <2> QED
    BY <1>1, <1>4, <2>1 DEF PermitsFollowWork
<1>5. CASE permits' = permits + 1 /\ r \in Admitted /\ r \notin Admitted'
  <2>1. Admitted' = Admitted \ {r}
    BY <1>2, <1>3, <1>5
  <2>2. Cardinality(Admitted') = Cardinality(Admitted) - 1 /\ Cardinality(Admitted) \in Nat
    BY <1>5, <2>1, AdmittedFinite, FS_RemoveElement
  <2> QED
    BY <1>1, <1>5, <2>2 DEF PermitsFollowWork
<1>6. CASE permits > 0 /\ permits' = permits - 1 /\ r \notin Admitted /\ r \in Admitted'
  <2>1. Admitted' = Admitted \cup {r}
    BY <1>2, <1>3, <1>6
  <2>2. Cardinality(Admitted') = Cardinality(Admitted) + 1 /\ Cardinality(Admitted) \in Nat
    BY <1>6, <2>1, AdmittedFinite, FS_AddElement
  <2> QED
    BY <1>1, <1>6, <2>2 DEF PermitsFollowWork
<1> QED
  BY <1>4, <1>5, <1>6 DEF PermitMoves

\* There are finitely many kinds of leases.
LEMMA KindsFinite == IsFiniteSet(Kinds)
<1>1. IsFiniteSet({"message"})
  BY FS_Singleton
<1>2. IsFiniteSet({"message"} \cup {"working"})
  BY <1>1, FS_AddElement
<1>3. IsFiniteSet(({"message"} \cup {"working"}) \cup {"reply"})
  BY <1>2, FS_AddElement
<1>4. IsFiniteSet((({"message"} \cup {"working"}) \cup {"reply"}) \cup {"storage"})
  BY <1>3, FS_AddElement
<1>5. Kinds = (({"message"} \cup {"working"}) \cup {"reply"}) \cup {"storage"}
  BY DEF Kinds
<1> QED
  BY <1>4, <1>5

\* All bytes that may ever be on lease.
AllBytes == Requests \X Kinds \X (1 .. MemoryCapacity + StorageCapacity)

LEMMA AllBytesFinite == IsFiniteSet(AllBytes)
<1> DEFINE n == MemoryCapacity + StorageCapacity
           T == Requests \X (Kinds \X (1 .. n))
           f == [x \in AllBytes |-> <<x[1], <<x[2], x[3]>>>>]
<1>1. IsFiniteSet(1 .. n)
  BY LimitsAssumption, FS_Interval
<1>2. IsFiniteSet(Kinds \X (1 .. n))
  BY <1>1, KindsFinite, FS_Product
<1>3. IsFiniteSet(T)
  BY <1>2, RequestsAssumption, FS_Product
<1>4. f \in [AllBytes -> T]
  BY DEF AllBytes
<1>5. \A x, y \in AllBytes : f[x] = f[y] => x = y
  BY DEF AllBytes
<1>6. f \in Injection(AllBytes, T)
  BY <1>4, <1>5 DEF Injection, IsInjective
<1> QED
  BY <1>3, <1>6, FS_Injection

\* The bytes on lease are finitely many.
LEMMA BytesFinite ==
  ASSUME NEW K \in SUBSET Kinds
  PROVE  IsFiniteSet(LeasedBytes(K)) /\ Cardinality(LeasedBytes(K)) \in Nat
<1>1. LeasedBytes(K) \in SUBSET AllBytes
  BY DEF LeasedBytes, AllBytes
<1> QED
  BY <1>1, AllBytesFinite, FS_Subset, FS_CardinalityType

\* Giving up leases frees bytes.
LEMMA BytesShrink ==
  ASSUME NEW K \in SUBSET Kinds, NEW r \in Requests, Frame(r),
         (lease'[r] \cap K) \subseteq lease[r]
  PROVE  /\ Cardinality(LeasedBytes(K))' <= Cardinality(LeasedBytes(K))
         /\ Cardinality(LeasedBytes(K))' \in Nat
<1>1. \A s \in Requests : (lease'[s] \cap K) \subseteq lease[s]
  BY DEF Frame
<1>2. LeasedBytes(K)' \in SUBSET LeasedBytes(K)
  BY <1>1 DEF LeasedBytes
<1> QED
  BY <1>2, BytesFinite, FS_Subset, FS_CardinalityType

\* A new lease charges at most its bytes.
LEMMA BytesGrow ==
  ASSUME NEW K \in SUBSET Kinds, NEW r \in Requests, NEW k \in K, Frame(r),
         lease'[r] \subseteq lease[r] \cup {k}
  PROVE  /\ Cardinality(LeasedBytes(K))' <= Cardinality(LeasedBytes(K)) + Bytes[k]
         /\ Cardinality(LeasedBytes(K))' \in Nat
<1> DEFINE b == Bytes[k]
           New == {r} \X {k} \X (1 .. b)
           f == [i \in 1 .. b |-> <<r, k, i>>]
<1>1. b \in Nat
  BY LimitsAssumption
<1>2. IsFiniteSet(1 .. b) /\ Cardinality(1 .. b) = b
  BY SMTT(30), <1>1, FS_Interval
<1>3. ExistsBijection(1 .. b, New)
  <2>1. f \in [1 .. b -> New]
    OBVIOUS
  <2>2. \A i, j \in 1 .. b : f[i] = f[j] => i = j
    OBVIOUS
  <2>3. \A x \in New : \E i \in 1 .. b : f[i] = x
    OBVIOUS
  <2>4. f \in Bijection(1 .. b, New)
    BY <2>1, <2>2, <2>3 DEF Bijection, Injection, Surjection, IsInjective
  <2> QED
    BY <2>4 DEF ExistsBijection
<1>4. IsFiniteSet(New) /\ Cardinality(New) = b
  BY <1>2, <1>3, FS_Bijection
<1>5. \A s \in Requests : lease'[s] \subseteq lease[s] \/ (s = r /\ lease'[s] \subseteq lease[s] \cup {k})
  BY DEF Frame
<1>6. LeasedBytes(K)' \in SUBSET (LeasedBytes(K) \cup New)
  BY <1>1, <1>5 DEF LeasedBytes
<1>7. IsFiniteSet(LeasedBytes(K)) /\ Cardinality(LeasedBytes(K)) \in Nat
  BY BytesFinite
<1> HIDE DEF New
<1>8. IsFiniteSet(LeasedBytes(K) \cup New) /\ IsFiniteSet(LeasedBytes(K) \cap New)
  BY <1>4, <1>7, FS_Union, FS_Intersection
<1>9. Cardinality(LeasedBytes(K) \cup New) =
        Cardinality(LeasedBytes(K)) + b - Cardinality(LeasedBytes(K) \cap New)
  BY <1>4, <1>7, FS_Union
<1>10. Cardinality(LeasedBytes(K) \cap New) \in Nat
  BY <1>8, FS_CardinalityType
<1>11. /\ Cardinality(LeasedBytes(K)') <= Cardinality(LeasedBytes(K) \cup New)
       /\ Cardinality(LeasedBytes(K)') \in Nat
  BY <1>6, <1>8, FS_Subset, FS_CardinalityType
<1> QED
  BY <1>1, <1>7, <1>9, <1>10, <1>11

\* Both budgets hold after every step: what was admitted fitted.
LEMMA BudgetsKeep ==
  ASSUME IInv, NEW r \in Requests, Frame(r), LeaseMoves(r)
  PROVE  BudgetsFit'
<1>1. {"storage"} \in SUBSET Kinds /\ Memory \in SUBSET Kinds
  BY DEF Kinds, Memory
<1>2. /\ Cardinality(LeasedBytes({"storage"})) <= StorageCapacity
      /\ Cardinality(LeasedBytes(Memory)) <= MemoryCapacity
      /\ StorageCapacity \in Nat /\ MemoryCapacity \in Nat
  BY LimitsAssumption DEF IInv, BudgetsFit
<1>3. /\ Cardinality(LeasedBytes({"storage"})) \in Nat
      /\ Cardinality(LeasedBytes(Memory)) \in Nat
  BY <1>1, BytesFinite
<1>4. CASE lease'[r] \subseteq lease[r]
  <2>1. /\ Cardinality(LeasedBytes({"storage"}))' <= Cardinality(LeasedBytes({"storage"}))
        /\ Cardinality(LeasedBytes({"storage"}))' \in Nat
    BY <1>1, <1>4, BytesShrink
  <2>2. /\ Cardinality(LeasedBytes(Memory))' <= Cardinality(LeasedBytes(Memory))
        /\ Cardinality(LeasedBytes(Memory))' \in Nat
    BY <1>1, <1>4, BytesShrink
  <2> QED
    BY <1>2, <1>3, <2>1, <2>2 DEF BudgetsFit
<1>5. ASSUME NEW k \in Kinds, CanReserve(k), lease'[r] \subseteq lease[r] \cup {k}
      PROVE  BudgetsFit'
  <2>1. Bytes[k] \in Nat
    BY LimitsAssumption
  <2>2. CASE k = "storage"
    <3>1. Cardinality(LeasedBytes({"storage"})) + Bytes[k] <= StorageCapacity
      BY <1>5, <2>2 DEF CanReserve
    <3>2. /\ Cardinality(LeasedBytes({"storage"}))' <= Cardinality(LeasedBytes({"storage"})) + Bytes[k]
          /\ Cardinality(LeasedBytes({"storage"}))' \in Nat
      BY <1>1, <1>5, <2>2, BytesGrow
    <3>3. (lease'[r] \cap Memory) \subseteq lease[r]
      BY <1>5, <2>2 DEF Memory
    <3>4. /\ Cardinality(LeasedBytes(Memory))' <= Cardinality(LeasedBytes(Memory))
          /\ Cardinality(LeasedBytes(Memory))' \in Nat
      BY <1>1, <3>3, BytesShrink
    <3> QED
      BY <1>2, <1>3, <2>1, <3>1, <3>2, <3>4 DEF BudgetsFit
  <2>3. CASE k # "storage"
    <3>1. Cardinality(LeasedBytes(Memory)) + Bytes[k] <= MemoryCapacity
      BY <1>5, <2>3 DEF CanReserve, Memory
    <3>2. k \in Memory
      BY <2>3 DEF Memory
    <3>3. /\ Cardinality(LeasedBytes(Memory))' <= Cardinality(LeasedBytes(Memory)) + Bytes[k]
          /\ Cardinality(LeasedBytes(Memory))' \in Nat
      BY <1>1, <1>5, <3>2, BytesGrow
    <3>4. (lease'[r] \cap {"storage"}) \subseteq lease[r]
      BY <1>5, <2>3
    <3>5. /\ Cardinality(LeasedBytes({"storage"}))' <= Cardinality(LeasedBytes({"storage"}))
          /\ Cardinality(LeasedBytes({"storage"}))' \in Nat
      BY <1>1, <3>4, BytesShrink
    <3> QED
      BY <1>2, <1>3, <2>1, <3>1, <3>3, <3>5 DEF BudgetsFit
  <2> QED
    BY <2>2, <2>3
<1> QED
  BY <1>4, <1>5 DEF LeaseMoves

-----------------------------------------------------------------------------
(* One step. *)

\* Where the others are, they stay fine.
LEMMA OthersKeep ==
  ASSUME IInv, NEW r \in Requests, Frame(r), NEW s \in Requests \ {r}
  PROVE  Fine(s)'
<1>1. Fine(s) /\ id[s] \in Ids /\ id[r] \in Ids /\ registry \in [Ids -> Requests \cup {NoRequest}]
  BY DEF IInv, Typed
<1>2. InStep(s)' /\ lease'[s] = Owed(s)'
  BY <1>1 DEF Frame, Fine, InStep, Owed
<1>3. registry'[id[s]] = s <=> registry[id[s]] = s
  BY <1>1, RequestsAssumption DEF Frame, Unregistered
<1>4. Named(s)'
  BY <1>1, <1>3 DEF Frame, Fine, Named
<1> QED
  BY <1>2, <1>4 DEF Fine

\* A step on r keeps the invariant if it leaves r as it should.
LEMMA StepKeeps ==
  ASSUME IInv, NEW r \in Requests, Frame(r), PermitMoves(r), LeaseMoves(r),
         Fine(r)', Typed'
  PROVE  IInv' /\ Moves(r)
<1>1. \A s \in Requests : Fine(s)'
  BY OthersKeep
<1> QED
  BY <1>1, PermitsKeep, BudgetsKeep DEF IInv, Moves

-----------------------------------------------------------------------------
(* The actions. *)

\* A request arrives and takes a permit, or is refused.
LEMMA ArriveKeeps ==
  ASSUME IInv, NEW r \in Requests, Arrive(r)
  PROVE  IInv' /\ Moves(r)
<1>1. Typed /\ Fine(r)
  BY DEF IInv
<1>2. Typed'
  BY <1>1 DEF Typed, Arrive, Respond, Record, Goto, Stages, WorkerStages,
     Statuses, Reasons, Running
<1>3. Frame(r)
  BY <1>1 DEF Typed, Frame, Arrive, Respond, Record, Goto
<1>4. PermitMoves(r)
  BY <1>1 DEF Typed, Fine, InStep, PermitMoves, Admitted, Running, Arrive,
     Respond, Record, Goto
<1>5. LeaseMoves(r)
  BY <1>1 DEF Typed, Fine, InStep, Owed, LeaseMoves, Running, Kinds, Arrive,
     Respond, Record, Goto
<1>6. InStep(r)'
  BY <1>1 DEF Typed, Fine, InStep, Running, Reasons, Arrive, Respond, Record,
     Goto
<1>7. lease'[r] = Owed(r)'
  BY <1>1 DEF Typed, Fine, InStep, Owed, Running, Reasons, Arrive, Respond,
     Record, Goto
<1>8. Named(r)'
  BY <1>1, RequestsAssumption DEF Typed, Fine, InStep, Named, Running, Arrive, Respond, Record,
     Goto
<1> QED
  BY <1>2, <1>3, <1>4, <1>5, <1>6, <1>7, <1>8, StepKeeps DEF Fine

\* Its header admits the message, or the transport fails.
LEMMA ReadHeaderKeeps ==
  ASSUME IInv, NEW r \in Requests, ReadHeader(r)
  PROVE  IInv' /\ Moves(r)
<1>1. Typed /\ Fine(r)
  BY DEF IInv
<1>2. Typed'
  BY <1>1 DEF Typed, ReadHeader, TransportFails, Respond, Record, Goto,
     ReleasePermit, Leases, Check, Checked, Stages, WorkerStages, Statuses,
     Reasons, Running, Kinds
<1>3. Frame(r)
  BY <1>1 DEF Typed, Frame, ReadHeader, TransportFails, Respond, Record,
     Goto, ReleasePermit, Leases, Check, Checked
<1>4. PermitMoves(r)
  BY <1>1 DEF Typed, Fine, InStep, PermitMoves, Admitted, Running,
     ReadHeader, TransportFails, Respond, Record, Goto, ReleasePermit,
     Leases, Check, Checked
<1>5. LeaseMoves(r)
  BY <1>1 DEF Typed, Fine, InStep, Owed, LeaseMoves, Running, Kinds,
     ReadHeader, TransportFails, Respond, Record, Goto, ReleasePermit,
     Leases, Check, Checked
<1>6. InStep(r)'
  BY <1>1 DEF Typed, Fine, InStep, Running, Reasons, ReadHeader,
     TransportFails, Respond, Record, Goto, ReleasePermit, Leases, Check,
     Checked
<1>7. lease'[r] = Owed(r)'
  BY <1>1 DEF Typed, Fine, InStep, Owed, Running, Reasons, ReadHeader,
     TransportFails, Respond, Record, Goto, ReleasePermit, Leases, Check,
     Checked
<1>8. Named(r)'
  BY <1>1, RequestsAssumption DEF Typed, Fine, InStep, Named, Running, ReadHeader,
     TransportFails, Respond, Record, Goto, ReleasePermit, Leases, Check,
     Checked
<1> QED
  BY <1>2, <1>3, <1>4, <1>5, <1>6, <1>7, <1>8, StepKeeps DEF Fine

\* The deadline passes before its header.
LEMMA HeaderTimeoutKeeps ==
  ASSUME IInv, NEW r \in Requests, HeaderTimeout(r)
  PROVE  IInv' /\ Moves(r)
<1>1. Typed /\ Fine(r)
  BY DEF IInv
<1>2. Typed'
  BY <1>1 DEF Typed, HeaderTimeout, TransportFails, Respond, Record, Goto,
     ReleasePermit, Leases, Expired, Stages, WorkerStages, Statuses, Reasons,
     Running, Kinds
<1>3. Frame(r)
  BY <1>1 DEF Typed, Frame, HeaderTimeout, TransportFails, Respond, Record,
     Goto, ReleasePermit, Leases, Expired
<1>4. PermitMoves(r)
  BY <1>1 DEF Typed, Fine, InStep, PermitMoves, Admitted, Running,
     HeaderTimeout, TransportFails, Respond, Record, Goto, ReleasePermit,
     Leases, Expired
<1>5. LeaseMoves(r)
  BY <1>1 DEF Typed, Fine, InStep, Owed, LeaseMoves, Running, Kinds,
     HeaderTimeout, TransportFails, Respond, Record, Goto, ReleasePermit,
     Leases, Expired
<1>6. InStep(r)'
  BY <1>1 DEF Typed, Fine, InStep, Running, Reasons, HeaderTimeout,
     TransportFails, Respond, Record, Goto, ReleasePermit, Leases, Expired
<1>7. lease'[r] = Owed(r)'
  BY <1>1 DEF Typed, Fine, InStep, Owed, Running, Reasons, HeaderTimeout,
     TransportFails, Respond, Record, Goto, ReleasePermit, Leases, Expired
<1>8. Named(r)'
  BY <1>1, RequestsAssumption DEF Typed, Fine, InStep, Named, Running, HeaderTimeout,
     TransportFails, Respond, Record, Goto, ReleasePermit, Leases, Expired
<1> QED
  BY <1>2, <1>3, <1>4, <1>5, <1>6, <1>7, <1>8, StepKeeps DEF Fine

\* Its message is refused.
LEMMA RejectMessageKeeps ==
  ASSUME IInv, NEW r \in Requests, RejectMessage(r)
  PROVE  IInv' /\ Moves(r)
<1>1. Typed /\ Fine(r)
  BY DEF IInv
<1>2. Typed'
  BY <1>1 DEF Typed, RejectMessage, TransportFails, Respond, Record, Goto,
     ReleasePermit, Leases, Stages, WorkerStages, Statuses, Reasons, Running,
     Kinds
<1>3. Frame(r)
  BY <1>1 DEF Typed, Frame, RejectMessage, TransportFails, Respond, Record,
     Goto, ReleasePermit, Leases
<1>4. PermitMoves(r)
  BY <1>1 DEF Typed, Fine, InStep, PermitMoves, Admitted, Running,
     RejectMessage, TransportFails, Respond, Record, Goto, ReleasePermit,
     Leases
<1>5. LeaseMoves(r)
  BY <1>1 DEF Typed, Fine, InStep, Owed, LeaseMoves, Running, Kinds,
     RejectMessage, TransportFails, Respond, Record, Goto, ReleasePermit,
     Leases
<1>6. InStep(r)'
  BY <1>1 DEF Typed, Fine, InStep, Running, Reasons, RejectMessage,
     TransportFails, Respond, Record, Goto, ReleasePermit, Leases
<1>7. lease'[r] = Owed(r)'
  BY <1>1 DEF Typed, Fine, InStep, Owed, Running, Reasons, RejectMessage,
     TransportFails, Respond, Record, Goto, ReleasePermit, Leases
<1>8. Named(r)'
  BY <1>1, RequestsAssumption DEF Typed, Fine, InStep, Named, Running, RejectMessage,
     TransportFails, Respond, Record, Goto, ReleasePermit, Leases
<1> QED
  BY <1>2, <1>3, <1>4, <1>5, <1>6, <1>7, <1>8, StepKeeps DEF Fine

\* It registers, or its identifier is in use.
LEMMA RegisterKeeps ==
  ASSUME IInv, NEW r \in Requests, Register(r)
  PROVE  IInv' /\ Moves(r)
<1>1. Typed /\ Fine(r)
  BY DEF IInv
<1>2. Typed'
  BY <1>1 DEF Typed, Register, TransportFails, Respond, Record, Goto,
     ReleasePermit, Leases, Stages, WorkerStages, Statuses, Reasons, Running,
     Kinds
<1>3. Frame(r)
  BY <1>1 DEF Typed, Frame, Register, TransportFails, Respond, Record, Goto,
     ReleasePermit, Leases
<1>4. PermitMoves(r)
  BY <1>1 DEF Typed, Fine, InStep, PermitMoves, Admitted, Running, Register,
     TransportFails, Respond, Record, Goto, ReleasePermit, Leases
<1>5. LeaseMoves(r)
  BY <1>1 DEF Typed, Fine, InStep, Owed, LeaseMoves, Running, Kinds,
     Register, TransportFails, Respond, Record, Goto, ReleasePermit, Leases
<1>6. InStep(r)'
  BY <1>1 DEF Typed, Fine, InStep, Running, Reasons, Register,
     TransportFails, Respond, Record, Goto, ReleasePermit, Leases
<1>7. lease'[r] = Owed(r)'
  BY <1>1 DEF Typed, Fine, InStep, Owed, Running, Reasons, Register,
     TransportFails, Respond, Record, Goto, ReleasePermit, Leases
<1>8. Named(r)'
  BY <1>1, RequestsAssumption DEF Typed, Fine, InStep, Named, Running, Register, TransportFails,
     Respond, Record, Goto, ReleasePermit, Leases
<1> QED
  BY <1>2, <1>3, <1>4, <1>5, <1>6, <1>7, <1>8, StepKeeps DEF Fine

\* Its worker is spawned, or everything is dropped.
LEMMA SpawnWorkerKeeps ==
  ASSUME IInv, NEW r \in Requests, SpawnWorker(r)
  PROVE  IInv' /\ Moves(r)
<1>1. Typed /\ Fine(r)
  BY DEF IInv
<1>2. Typed'
  BY <1>1 DEF Typed, SpawnWorker, TransportFails, Respond, Record, Goto,
     ReleasePermit, Leases, Check, Checked, WorkerGoto, Unregistered, Stages,
     WorkerStages, Statuses, Reasons, Running, Kinds
<1>3. Frame(r)
  BY <1>1 DEF Typed, Frame, SpawnWorker, TransportFails, Respond, Record,
     Goto, ReleasePermit, Leases, Check, Checked, WorkerGoto
<1>4. PermitMoves(r)
  BY <1>1 DEF Typed, Fine, InStep, PermitMoves, Admitted, Running,
     SpawnWorker, TransportFails, Respond, Record, Goto, ReleasePermit,
     Leases, Check, Checked, WorkerGoto, Unregistered
<1>5. LeaseMoves(r)
  BY <1>1 DEF Typed, Fine, InStep, Owed, LeaseMoves, Running, Kinds,
     SpawnWorker, TransportFails, Respond, Record, Goto, ReleasePermit,
     Leases, Check, Checked, WorkerGoto, Unregistered
<1>6. InStep(r)'
  BY <1>1 DEF Typed, Fine, InStep, Running, Reasons, SpawnWorker,
     TransportFails, Respond, Record, Goto, ReleasePermit, Leases, Check,
     Checked, WorkerGoto, Unregistered
<1>7. lease'[r] = Owed(r)'
  BY <1>1 DEF Typed, Fine, InStep, Owed, Running, Reasons, SpawnWorker,
     TransportFails, Respond, Record, Goto, ReleasePermit, Leases, Check,
     Checked, WorkerGoto, Unregistered
<1>8. Named(r)'
  BY <1>1, RequestsAssumption DEF Typed, Fine, InStep, Named, Running, SpawnWorker,
     TransportFails, Respond, Record, Goto, ReleasePermit, Leases, Check,
     Checked, WorkerGoto, Unregistered
<1> QED
  BY <1>2, <1>3, <1>4, <1>5, <1>6, <1>7, <1>8, StepKeeps DEF Fine

\* Its worker's result becomes the response.
LEMMA JoinKeeps ==
  ASSUME IInv, NEW r \in Requests, Join(r)
  PROVE  IInv' /\ Moves(r)
<1>1. Typed /\ Fine(r)
  BY DEF IInv
<1>2. Typed'
  BY <1>1 DEF Typed, Join, Respond, Record, Goto, Stages, WorkerStages,
     Statuses, Reasons, Running
<1>3. Frame(r)
  BY <1>1 DEF Typed, Frame, Join, Respond, Record, Goto
<1>4. PermitMoves(r)
  BY <1>1 DEF Typed, Fine, InStep, PermitMoves, Admitted, Running, Join,
     Respond, Record, Goto
<1>5. LeaseMoves(r)
  BY <1>1 DEF Typed, Fine, InStep, Owed, LeaseMoves, Running, Kinds, Join,
     Respond, Record, Goto
<1>6. InStep(r)'
  BY <1>1 DEF Typed, Fine, InStep, Running, Reasons, Join, Respond, Record,
     Goto
<1>7. lease'[r] = Owed(r)'
  BY <1>1 DEF Typed, Fine, InStep, Owed, Running, Reasons, Join, Respond,
     Record, Goto
<1>8. Named(r)'
  BY <1>1, RequestsAssumption DEF Typed, Fine, InStep, Named, Running, Join, Respond, Record,
     Goto
<1> QED
  BY <1>2, <1>3, <1>4, <1>5, <1>6, <1>7, <1>8, StepKeeps DEF Fine

\* The timeout around its worker elapses.
LEMMA InnerTimeoutKeeps ==
  ASSUME IInv, NEW r \in Requests, InnerTimeout(r)
  PROVE  IInv' /\ Moves(r)
<1>1. Typed /\ Fine(r)
  BY DEF IInv
<1>2. Typed'
  BY <1>1 DEF Typed, InnerTimeout, Respond, Record, Goto, Expired, Stages,
     WorkerStages, Statuses, Reasons, Running
<1>3. Frame(r)
  BY <1>1 DEF Typed, Frame, InnerTimeout, Respond, Record, Goto, Expired
<1>4. PermitMoves(r)
  BY <1>1 DEF Typed, Fine, InStep, PermitMoves, Admitted, Running,
     InnerTimeout, Respond, Record, Goto, Expired
<1>5. LeaseMoves(r)
  BY <1>1 DEF Typed, Fine, InStep, Owed, LeaseMoves, Running, Kinds,
     InnerTimeout, Respond, Record, Goto, Expired
<1>6. InStep(r)'
  BY <1>1 DEF Typed, Fine, InStep, Running, Reasons, InnerTimeout, Respond,
     Record, Goto, Expired
<1>7. lease'[r] = Owed(r)'
  BY <1>1 DEF Typed, Fine, InStep, Owed, Running, Reasons, WorkerStages,
     InnerTimeout, Respond, Record, Goto, Expired
<1>8. Named(r)'
  BY <1>1, RequestsAssumption DEF Typed, Fine, InStep, Named, Running, InnerTimeout, Respond,
     Record, Goto, Expired
<1> QED
  BY <1>2, <1>3, <1>4, <1>5, <1>6, <1>7, <1>8, StepKeeps DEF Fine

\* The timeout of the transport elapses.
LEMMA OuterTimeoutKeeps ==
  ASSUME IInv, NEW r \in Requests, OuterTimeout(r)
  PROVE  IInv' /\ Moves(r)
<1>1. Typed /\ Fine(r)
  BY DEF IInv
<1>2. Typed'
  BY <1>1 DEF Typed, OuterTimeout, Respond, Record, Goto, Expired,
     DropFuture, ReleasePermit, Leases, Stages, WorkerStages, Statuses,
     Reasons, Running, Kinds
<1>3. Frame(r)
  BY <1>1 DEF Typed, Frame, OuterTimeout, Respond, Record, Goto, Expired,
     DropFuture, ReleasePermit, Leases
<1>4. PermitMoves(r)
  BY <1>1 DEF Typed, Fine, InStep, PermitMoves, Admitted, Running,
     OuterTimeout, Respond, Record, Goto, Expired, DropFuture, ReleasePermit,
     Leases
<1>5. LeaseMoves(r)
  BY <1>1 DEF Typed, Fine, InStep, Owed, LeaseMoves, Running, Kinds,
     OuterTimeout, Respond, Record, Goto, Expired, DropFuture, ReleasePermit,
     Leases
<1>6. InStep(r)'
  BY <1>1 DEF Typed, Fine, InStep, Running, Reasons, OuterTimeout, Respond,
     Record, Goto, Expired, DropFuture, ReleasePermit, Leases
<1>7. lease'[r] = Owed(r)'
  BY <1>1 DEF Typed, Fine, InStep, Owed, Running, Reasons, WorkerStages,
     OuterTimeout, Respond, Record, Goto, Expired, DropFuture, ReleasePermit,
     Leases
<1>8. Named(r)'
  BY <1>1, RequestsAssumption DEF Typed, Fine, InStep, Named, Running, OuterTimeout, Respond,
     Record, Goto, Expired, DropFuture, ReleasePermit, Leases
<1> QED
  BY <1>2, <1>3, <1>4, <1>5, <1>6, <1>7, <1>8, StepKeeps DEF Fine

\* The body of its response is sent.
LEMMA BodySentKeeps ==
  ASSUME IInv, NEW r \in Requests, BodySent(r)
  PROVE  IInv' /\ Moves(r)
<1>1. Typed /\ Fine(r)
  BY DEF IInv
<1>2. Typed'
  BY <1>1 DEF Typed, BodySent, Goto, Leases, Stages, WorkerStages, Statuses,
     Reasons, Running, Kinds
<1>3. Frame(r)
  BY <1>1 DEF Typed, Frame, BodySent, Goto, Leases
<1>4. PermitMoves(r)
  BY <1>1 DEF Typed, Fine, InStep, PermitMoves, Admitted, Running, BodySent,
     Goto, Leases
<1>5. LeaseMoves(r)
  BY <1>1 DEF Typed, Fine, InStep, Owed, LeaseMoves, Running, Kinds,
     BodySent, Goto, Leases
<1>6. InStep(r)'
  BY <1>1 DEF Typed, Fine, InStep, Running, Reasons, BodySent, Goto, Leases
<1>7. lease'[r] = Owed(r)'
  BY <1>1 DEF Typed, Fine, InStep, Owed, Running, Reasons, BodySent, Goto,
     Leases
<1>8. Named(r)'
  BY <1>1, RequestsAssumption DEF Typed, Fine, InStep, Named, Running, BodySent, Goto, Leases
<1> QED
  BY <1>2, <1>3, <1>4, <1>5, <1>6, <1>7, <1>8, StepKeeps DEF Fine

\* Its client goes away.
LEMMA DisconnectKeeps ==
  ASSUME IInv, NEW r \in Requests, Disconnect(r)
  PROVE  IInv' /\ Moves(r)
<1>1. Typed /\ Fine(r)
  BY DEF IInv
<1>2. Typed'
  BY <1>1 DEF Typed, Disconnect, Record, Goto, CancelControl, DropFuture,
     ReleasePermit, Leases, Stages, WorkerStages, Statuses, Reasons, Running,
     Kinds
<1>3. Frame(r)
  BY <1>1 DEF Typed, Frame, Disconnect, Record, Goto, CancelControl,
     DropFuture, ReleasePermit, Leases
<1>4. PermitMoves(r)
  BY <1>1 DEF Typed, Fine, InStep, PermitMoves, Admitted, Running,
     Disconnect, Record, Goto, CancelControl, DropFuture, ReleasePermit,
     Leases
<1>5. LeaseMoves(r)
  BY <1>1 DEF Typed, Fine, InStep, Owed, LeaseMoves, Running, Kinds,
     Disconnect, Record, Goto, CancelControl, DropFuture, ReleasePermit,
     Leases
<1>6. InStep(r)'
  BY <1>1 DEF Typed, Fine, InStep, Running, Reasons, Disconnect, Record,
     Goto, CancelControl, DropFuture, ReleasePermit, Leases
<1>7. lease'[r] = Owed(r)'
  BY <1>1 DEF Typed, Fine, InStep, Owed, Running, Reasons, WorkerStages,
     Disconnect, Record, Goto, CancelControl, DropFuture, ReleasePermit,
     Leases
<1>8. Named(r)'
  BY <1>1, RequestsAssumption DEF Typed, Fine, InStep, Named, Running, Disconnect, Record, Goto,
     CancelControl, DropFuture, ReleasePermit, Leases
<1> QED
  BY <1>2, <1>3, <1>4, <1>5, <1>6, <1>7, <1>8, StepKeeps DEF Fine

\* The worker creates its spool.
LEMMA WorkerStartKeeps ==
  ASSUME IInv, NEW r \in Requests, WorkerStart(r)
  PROVE  IInv' /\ Moves(r)
<1>1. Typed /\ Fine(r)
  BY DEF IInv
<1>2. Typed'
  BY <1>1 DEF Typed, WorkerStart, Checkpoint, Check, Checked, AdvanceIfRoom,
     Advance, WorkerReturns, WorkerGoto, Leases, Stages, WorkerStages,
     Statuses, Reasons, Running, Kinds
<1>3. Frame(r)
  BY <1>1 DEF Typed, Frame, WorkerStart, Checkpoint, Check, Checked,
     AdvanceIfRoom, Advance, WorkerReturns, WorkerGoto, Leases
<1>4. PermitMoves(r)
  BY <1>1 DEF Typed, Fine, InStep, PermitMoves, Admitted, Running,
     WorkerStart, Checkpoint, Check, Checked, AdvanceIfRoom, Advance,
     WorkerReturns, WorkerGoto, Leases
<1>5. LeaseMoves(r)
  BY <1>1 DEF Typed, Fine, InStep, Owed, LeaseMoves, Running, Kinds,
     WorkerStart, Checkpoint, Check, Checked, AdvanceIfRoom, Advance,
     WorkerReturns, WorkerGoto, Leases
<1>6. InStep(r)'
  BY <1>1 DEF Typed, Fine, InStep, Running, Reasons, WorkerStart, Checkpoint,
     Check, Checked, AdvanceIfRoom, Advance, WorkerReturns, WorkerGoto,
     Leases
<1>7. lease'[r] = Owed(r)'
  BY ZenonT(40), <1>1 DEF Typed, Fine, InStep, Owed, Running, Reasons, WorkerStart,
     Checkpoint, Check, Checked, AdvanceIfRoom, Advance, WorkerReturns,
     WorkerGoto, Leases
<1>8. Named(r)'
  BY <1>1, RequestsAssumption DEF Typed, Fine, InStep, Named, Running, WorkerStart, Checkpoint,
     Check, Checked, AdvanceIfRoom, Advance, WorkerReturns, WorkerGoto,
     Leases
<1> QED
  BY <1>2, <1>3, <1>4, <1>5, <1>6, <1>7, <1>8, StepKeeps DEF Fine

\* The worker writes the spool.
LEMMA WorkerSpoolKeeps ==
  ASSUME IInv, NEW r \in Requests, WorkerSpool(r)
  PROVE  IInv' /\ Moves(r)
<1>1. Typed /\ Fine(r)
  BY DEF IInv
<1>2. Typed'
  BY <1>1 DEF Typed, WorkerSpool, Checkpoint, Check, Checked, Advance,
     WorkerReturns, WorkerGoto, Leases, Stages, WorkerStages, Statuses,
     Reasons, Running, Kinds
<1>3. Frame(r)
  BY <1>1 DEF Typed, Frame, WorkerSpool, Checkpoint, Check, Checked, Advance,
     WorkerReturns, WorkerGoto, Leases
<1>4. PermitMoves(r)
  BY <1>1 DEF Typed, Fine, InStep, PermitMoves, Admitted, Running,
     WorkerSpool, Checkpoint, Check, Checked, Advance, WorkerReturns,
     WorkerGoto, Leases
<1>5. LeaseMoves(r)
  BY <1>1 DEF Typed, Fine, InStep, Owed, LeaseMoves, Running, Kinds,
     WorkerSpool, Checkpoint, Check, Checked, Advance, WorkerReturns,
     WorkerGoto, Leases
<1>6. InStep(r)'
  BY <1>1 DEF Typed, Fine, InStep, Running, Reasons, WorkerSpool, Checkpoint,
     Check, Checked, Advance, WorkerReturns, WorkerGoto, Leases
<1>7. lease'[r] = Owed(r)'
  BY ZenonT(40), <1>1 DEF Typed, Fine, InStep, Owed, Running, Reasons, WorkerSpool,
     Checkpoint, Check, Checked, Advance, WorkerReturns, WorkerGoto, Leases
<1>8. Named(r)'
  BY <1>1, RequestsAssumption DEF Typed, Fine, InStep, Named, Running, WorkerSpool, Checkpoint,
     Check, Checked, Advance, WorkerReturns, WorkerGoto, Leases
<1> QED
  BY <1>2, <1>3, <1>4, <1>5, <1>6, <1>7, <1>8, StepKeeps DEF Fine

\* The worker reserves its working set.
LEMMA WorkerReserveKeeps ==
  ASSUME IInv, NEW r \in Requests, WorkerReserve(r)
  PROVE  IInv' /\ Moves(r)
<1>1. Typed /\ Fine(r)
  BY DEF IInv
<1>2. Typed'
  BY <1>1 DEF Typed, WorkerReserve, Checkpoint, Check, Checked,
     AdvanceIfRoom, Advance, WorkerReturns, WorkerGoto, Leases, Stages,
     WorkerStages, Statuses, Reasons, Running, Kinds
<1>3. Frame(r)
  BY <1>1 DEF Typed, Frame, WorkerReserve, Checkpoint, Check, Checked,
     AdvanceIfRoom, Advance, WorkerReturns, WorkerGoto, Leases
<1>4. PermitMoves(r)
  BY <1>1 DEF Typed, Fine, InStep, PermitMoves, Admitted, Running,
     WorkerReserve, Checkpoint, Check, Checked, AdvanceIfRoom, Advance,
     WorkerReturns, WorkerGoto, Leases
<1>5. LeaseMoves(r)
  BY <1>1 DEF Typed, Fine, InStep, Owed, LeaseMoves, Running, Kinds,
     WorkerReserve, Checkpoint, Check, Checked, AdvanceIfRoom, Advance,
     WorkerReturns, WorkerGoto, Leases
<1>6. InStep(r)'
  BY <1>1 DEF Typed, Fine, InStep, Running, Reasons, WorkerReserve,
     Checkpoint, Check, Checked, AdvanceIfRoom, Advance, WorkerReturns,
     WorkerGoto, Leases
<1>7. lease'[r] = Owed(r)'
  BY <1>1 DEF Typed, Fine, InStep, Owed, Running, Reasons, WorkerReserve,
     Checkpoint, Check, Checked, AdvanceIfRoom, Advance, WorkerReturns,
     WorkerGoto, Leases
<1>8. Named(r)'
  BY <1>1, RequestsAssumption DEF Typed, Fine, InStep, Named, Running, WorkerReserve, Checkpoint,
     Check, Checked, AdvanceIfRoom, Advance, WorkerReturns, WorkerGoto,
     Leases
<1> QED
  BY <1>2, <1>3, <1>4, <1>5, <1>6, <1>7, <1>8, StepKeeps DEF Fine

\* The worker has decoded the input.
LEMMA WorkerDecodedKeeps ==
  ASSUME IInv, NEW r \in Requests, WorkerDecoded(r)
  PROVE  IInv' /\ Moves(r)
<1>1. Typed /\ Fine(r)
  BY DEF IInv
<1>2. Typed'
  BY <1>1 DEF Typed, WorkerDecoded, Checkpoint, Check, Checked, Advance,
     WorkerReturns, WorkerGoto, Leases, Stages, WorkerStages, Statuses,
     Reasons, Running, Kinds
<1>3. Frame(r)
  BY <1>1 DEF Typed, Frame, WorkerDecoded, Checkpoint, Check, Checked,
     Advance, WorkerReturns, WorkerGoto, Leases
<1>4. PermitMoves(r)
  BY <1>1 DEF Typed, Fine, InStep, PermitMoves, Admitted, Running,
     WorkerDecoded, Checkpoint, Check, Checked, Advance, WorkerReturns,
     WorkerGoto, Leases
<1>5. LeaseMoves(r)
  BY <1>1 DEF Typed, Fine, InStep, Owed, LeaseMoves, Running, Kinds,
     WorkerDecoded, Checkpoint, Check, Checked, Advance, WorkerReturns,
     WorkerGoto, Leases
<1>6. InStep(r)'
  BY <1>1 DEF Typed, Fine, InStep, Running, Reasons, WorkerDecoded,
     Checkpoint, Check, Checked, Advance, WorkerReturns, WorkerGoto, Leases
<1>7. lease'[r] = Owed(r)'
  BY ZenonT(40), <1>1 DEF Typed, Fine, InStep, Owed, Running, Reasons, WorkerDecoded,
     Checkpoint, Check, Checked, Advance, WorkerReturns, WorkerGoto, Leases
<1>8. Named(r)'
  BY <1>1, RequestsAssumption DEF Typed, Fine, InStep, Named, Running, WorkerDecoded, Checkpoint,
     Check, Checked, Advance, WorkerReturns, WorkerGoto, Leases
<1> QED
  BY <1>2, <1>3, <1>4, <1>5, <1>6, <1>7, <1>8, StepKeeps DEF Fine

\* The worker is stopped while it decodes.
LEMMA WorkerStopsKeeps ==
  ASSUME IInv, NEW r \in Requests, WorkerStops(r)
  PROVE  IInv' /\ Moves(r)
<1>1. Typed /\ Fine(r)
  BY DEF IInv
<1>2. Typed'
  BY <1>1 DEF Typed, WorkerStops, Checkpoint, Check, Checked, WorkerReturns,
     WorkerGoto, Leases, Stages, WorkerStages, Statuses, Reasons, Running,
     Kinds
<1>3. Frame(r)
  BY <1>1 DEF Typed, Frame, WorkerStops, Checkpoint, Check, Checked,
     WorkerReturns, WorkerGoto, Leases
<1>4. PermitMoves(r)
  BY <1>1 DEF Typed, Fine, InStep, PermitMoves, Admitted, Running,
     WorkerStops, Checkpoint, Check, Checked, WorkerReturns, WorkerGoto,
     Leases
<1>5. LeaseMoves(r)
  BY <1>1 DEF Typed, Fine, InStep, Owed, LeaseMoves, Running, Kinds,
     WorkerStops, Checkpoint, Check, Checked, WorkerReturns, WorkerGoto,
     Leases
<1>6. InStep(r)'
  BY <1>1 DEF Typed, Fine, InStep, Running, Reasons, WorkerStops, Checkpoint,
     Check, Checked, WorkerReturns, WorkerGoto, Leases
<1>7. lease'[r] = Owed(r)'
  BY <1>1 DEF Typed, Fine, InStep, Owed, Running, Reasons, WorkerStops,
     Checkpoint, Check, Checked, WorkerReturns, WorkerGoto, Leases
<1>8. Named(r)'
  BY <1>1, RequestsAssumption DEF Typed, Fine, InStep, Named, Running, WorkerStops, Checkpoint,
     Check, Checked, WorkerReturns, WorkerGoto, Leases
<1> QED
  BY <1>2, <1>3, <1>4, <1>5, <1>6, <1>7, <1>8, StepKeeps DEF Fine

\* The worker builds the reply.
LEMMA WorkerReplyKeeps ==
  ASSUME IInv, NEW r \in Requests, WorkerReply(r)
  PROVE  IInv' /\ Moves(r)
<1>1. Typed /\ Fine(r)
  BY DEF IInv
<1>2. Typed'
  BY <1>1 DEF Typed, WorkerReply, Checkpoint, Check, Checked, WorkerReturns,
     WorkerGoto, Leases, Stages, WorkerStages, Statuses, Reasons, Running,
     Kinds
<1>3. Frame(r)
  BY <1>1 DEF Typed, Frame, WorkerReply, Checkpoint, Check, Checked,
     WorkerReturns, WorkerGoto, Leases
<1>4. PermitMoves(r)
  BY <1>1 DEF Typed, Fine, InStep, PermitMoves, Admitted, Running,
     WorkerReply, Checkpoint, Check, Checked, WorkerReturns, WorkerGoto,
     Leases
<1>5. LeaseMoves(r)
  BY <1>1 DEF Typed, Fine, InStep, Owed, LeaseMoves, Running, Kinds,
     WorkerReply, Checkpoint, Check, Checked, WorkerReturns, WorkerGoto,
     Leases
<1>6. InStep(r)'
  BY <1>1 DEF Typed, Fine, InStep, Running, Reasons, WorkerReply, Checkpoint,
     Check, Checked, WorkerReturns, WorkerGoto, Leases
<1>7. lease'[r] = Owed(r)'
  BY ZenonT(40), <1>1 DEF Typed, Fine, InStep, Owed, Running, Reasons, WorkerReply,
     Checkpoint, Check, Checked, WorkerReturns, WorkerGoto, Leases
<1>8. Named(r)'
  BY <1>1, RequestsAssumption DEF Typed, Fine, InStep, Named, Running, WorkerReply, Checkpoint,
     Check, Checked, WorkerReturns, WorkerGoto, Leases
<1> QED
  BY <1>2, <1>3, <1>4, <1>5, <1>6, <1>7, <1>8, StepKeeps DEF Fine

\* The worker gives up the identifier.
LEMMA WorkerUnregisterKeeps ==
  ASSUME IInv, NEW r \in Requests, WorkerUnregister(r)
  PROVE  IInv' /\ Moves(r)
<1>1. Typed /\ Fine(r)
  BY DEF IInv
<1>2. Typed'
  BY <1>1 DEF Typed, WorkerUnregister, WorkerGoto, Unregistered, Stages,
     WorkerStages, Statuses, Reasons, Running
<1>3. Frame(r)
  BY <1>1 DEF Typed, Frame, WorkerUnregister, WorkerGoto
<1>4. PermitMoves(r)
  BY <1>1 DEF Typed, Fine, InStep, PermitMoves, Admitted, Running,
     WorkerUnregister, WorkerGoto, Unregistered
<1>5. LeaseMoves(r)
  BY <1>1 DEF Typed, Fine, InStep, Owed, LeaseMoves, Running, Kinds,
     WorkerUnregister, WorkerGoto, Unregistered
<1>6. InStep(r)'
  BY <1>1 DEF Typed, Fine, InStep, Running, Reasons, WorkerUnregister,
     WorkerGoto, Unregistered
<1>7. lease'[r] = Owed(r)'
  BY <1>1 DEF Typed, Fine, InStep, Owed, Running, Reasons, WorkerUnregister,
     WorkerGoto, Unregistered
<1>8. Named(r)'
  BY <1>1, RequestsAssumption DEF Typed, Fine, InStep, Named, Running, WorkerUnregister,
     WorkerGoto, Unregistered
<1> QED
  BY <1>2, <1>3, <1>4, <1>5, <1>6, <1>7, <1>8, StepKeeps DEF Fine

\* The worker gives back the permit and ends.
LEMMA WorkerReleaseKeeps ==
  ASSUME IInv, NEW r \in Requests, WorkerRelease(r)
  PROVE  IInv' /\ Moves(r)
<1>1. Typed /\ Fine(r)
  BY DEF IInv
<1>2. Typed'
  BY <1>1 DEF Typed, WorkerRelease, WorkerGoto, ReleasePermit, Leases,
     Stages, WorkerStages, Statuses, Reasons, Running, Kinds
<1>3. Frame(r)
  BY <1>1 DEF Typed, Frame, WorkerRelease, WorkerGoto, ReleasePermit, Leases
<1>4. PermitMoves(r)
  BY <1>1 DEF Typed, Fine, InStep, PermitMoves, Admitted, Running,
     WorkerRelease, WorkerGoto, ReleasePermit, Leases
<1>5. LeaseMoves(r)
  BY <1>1 DEF Typed, Fine, InStep, Owed, LeaseMoves, Running, Kinds,
     WorkerRelease, WorkerGoto, ReleasePermit, Leases
<1>6. InStep(r)'
  BY <1>1 DEF Typed, Fine, InStep, Running, Reasons, WorkerRelease,
     WorkerGoto, ReleasePermit, Leases
<1>7. lease'[r] = Owed(r)'
  BY <1>1 DEF Typed, Fine, InStep, Owed, Running, Reasons, WorkerRelease,
     WorkerGoto, ReleasePermit, Leases
<1>8. Named(r)'
  BY <1>1, RequestsAssumption DEF Typed, Fine, InStep, Named, Running, WorkerRelease, WorkerGoto,
     ReleasePermit, Leases
<1> QED
  BY <1>2, <1>3, <1>4, <1>5, <1>6, <1>7, <1>8, StepKeeps DEF Fine

\* The deadline of a request passes.
LEMMA DeadlinePassesKeeps ==
  ASSUME IInv, NEW r \in Requests, DeadlinePasses(r)
  PROVE  IInv' /\ Moves(r)
<1>1. Typed /\ Fine(r)
  BY DEF IInv
<1>2. Typed'
  BY <1>1 DEF Typed, DeadlinePasses, Stages, WorkerStages, Statuses, Reasons,
     Running
<1>3. Frame(r)
  BY <1>1 DEF Typed, Frame, DeadlinePasses
<1>4. PermitMoves(r)
  BY <1>1 DEF Typed, Fine, InStep, PermitMoves, Admitted, Running,
     DeadlinePasses
<1>5. LeaseMoves(r)
  BY <1>1 DEF Typed, Fine, InStep, Owed, LeaseMoves, Running, Kinds,
     DeadlinePasses
<1>6. InStep(r)'
  BY <1>1 DEF Typed, Fine, InStep, Running, Reasons, DeadlinePasses
<1>7. lease'[r] = Owed(r)'
  BY <1>1 DEF Typed, Fine, InStep, Owed, Running, Reasons, DeadlinePasses
<1>8. Named(r)'
  BY <1>1, RequestsAssumption DEF Typed, Fine, InStep, Named, Running, DeadlinePasses
<1> QED
  BY <1>2, <1>3, <1>4, <1>5, <1>6, <1>7, <1>8, StepKeeps DEF Fine

\* A Cancel call ends only the control of the request it finds.
LEMMA CancelKeeps ==
  ASSUME IInv, NEW i \in Ids, Cancel(i)
  PROVE  IInv' /\ \E r \in Requests : Moves(r)
<1>1. Typed
  BY DEF IInv
<1>2. PICK r \in Requests : registry[i] = r /\ CancelControl(r)
  BY <1>1 DEF Cancel, Typed
<1>3. UNCHANGED <<pc, id, late, worker, lease, result, permits, registry, outcome,
                  response>>
  BY DEF Cancel
<1>4. control' \in [Requests -> {"running"} \cup Reasons]
  BY <1>1, <1>2 DEF Typed, CancelControl, Reasons
<1>5. Typed'
  BY <1>1, <1>3, <1>4 DEF Typed
<1>6. Frame(r) /\ PermitMoves(r) /\ LeaseMoves(r)
  BY <1>3 DEF Frame, PermitMoves, LeaseMoves, Admitted
<1>7. Fine(r)'
  BY <1>3 DEF IInv, Fine, InStep, Named, Owed
<1> QED
  BY <1>5, <1>6, <1>7, StepKeeps

-----------------------------------------------------------------------------
(* The invariant. *)

\* At the start every permit is free and nothing is on lease.
LEMMA InitIInv == Init => IInv
<1> SUFFICES ASSUME Init PROVE IInv
  OBVIOUS
<1>1. Typed
  BY LimitsAssumption DEF Init, Typed, Stages, WorkerStages, Statuses, Reasons
<1>2. BudgetsFit
  <2>1. LeasedBytes({"storage"}) = {} /\ LeasedBytes(Memory) = {}
    BY DEF Init, LeasedBytes
  <2> QED
    BY <2>1, FS_EmptySet, LimitsAssumption DEF BudgetsFit
<1>3. PermitsFollowWork
  <2>1. Admitted = {}
    BY DEF Init, Admitted, Running
  <2> QED
    BY <2>1, FS_EmptySet, LimitsAssumption DEF PermitsFollowWork, Init
<1>4. \A r \in Requests : Fine(r)
  BY RequestsAssumption DEF Init, Fine, InStep, Owed, Named, Running
<1> QED
  BY <1>1, <1>2, <1>3, <1>4 DEF IInv

\* Nothing changes.
LEMMA StutterKeeps ==
  ASSUME IInv, UNCHANGED vars
  PROVE  IInv'
<1>1. UNCHANGED <<pc, id, control, late, worker, lease, result, permits, registry,
                  outcome, response>>
  BY DEF vars
<1>2. Typed' /\ BudgetsFit' /\ PermitsFollowWork'
  BY <1>1 DEF IInv, Typed, BudgetsFit, LeasedBytes, PermitsFollowWork, Admitted
<1>3. \A r \in Requests : Fine(r)'
  BY <1>1 DEF IInv, Fine, InStep, Named, Owed
<1> QED
  BY <1>2, <1>3 DEF IInv

\* Every step keeps the invariant.
LEMMA NextIInv ==
  ASSUME IInv, [Next]_vars
  PROVE  IInv' /\ (UNCHANGED vars \/ \E r \in Requests : Moves(r))
<1>1. ASSUME NEW r \in Requests,
             \/ Arrive(r) \/ ReadHeader(r) \/ HeaderTimeout(r) \/ RejectMessage(r)
             \/ Register(r) \/ SpawnWorker(r) \/ Join(r) \/ InnerTimeout(r)
             \/ OuterTimeout(r) \/ BodySent(r) \/ Disconnect(r)
      PROVE  IInv' /\ \E s \in Requests : Moves(s)
  BY <1>1, ArriveKeeps, ReadHeaderKeeps, HeaderTimeoutKeeps, RejectMessageKeeps,
     RegisterKeeps, SpawnWorkerKeeps, JoinKeeps, InnerTimeoutKeeps, OuterTimeoutKeeps,
     BodySentKeeps, DisconnectKeeps
<1>2. ASSUME NEW r \in Requests, WorkerStep(r) \/ WorkerDecoded(r)
      PROVE  IInv' /\ \E s \in Requests : Moves(s)
  BY <1>2, WorkerStartKeeps, WorkerSpoolKeeps, WorkerReserveKeeps, WorkerStopsKeeps,
     WorkerReplyKeeps, WorkerUnregisterKeeps, WorkerReleaseKeeps, WorkerDecodedKeeps
     DEF WorkerStep
<1>3. ASSUME NEW r \in Requests, DeadlinePasses(r)
      PROVE  IInv' /\ \E s \in Requests : Moves(s)
  BY <1>3, DeadlinePassesKeeps
<1>4. ASSUME NEW i \in Ids, Cancel(i)
      PROVE  IInv' /\ \E s \in Requests : Moves(s)
  BY <1>4, CancelKeeps
<1>5. CASE UNCHANGED vars
  BY <1>5, StutterKeeps
<1> QED
  BY <1>1, <1>2, <1>3, <1>4, <1>5 DEF Next

-----------------------------------------------------------------------------
(* Theorems. *)

\* The inductive invariant holds in every reachable state (the transport, the
\* handler and analyze_audio).
THEOREM Invariance == Spec => []IInv
<1>1. Init /\ [][Next]_vars => []IInv
  BY InitIInv, NextIInv, PTL
<1> QED
  BY <1>1, PTL DEF Spec

\* The variables have their types, and both budgets hold.
THEOREM TypeCorrect == Spec => []TypeOK
<1>1. IInv => TypeOK
  <2> SUFFICES ASSUME IInv PROVE TypeOK
    OBVIOUS
  <2>1. permits \in 0 .. Workers
    <3>1. permits \in Nat /\ Workers \in Nat /\ permits + Cardinality(Admitted) = Workers
      BY LimitsAssumption DEF IInv, Typed, PermitsFollowWork
    <3> QED
      BY <3>1, AdmittedFinite
  <2> QED
    BY <2>1 DEF IInv, Typed, BudgetsFit, Memory, TypeOK
<1> QED
  BY <1>1, Invariance, PTL

\* The free permits and the admitted requests add up to the workers.
THEOREM PermitsExact == Spec => []PermitsFollowWork
<1>1. IInv => PermitsFollowWork
  BY DEF IInv
<1> QED
  BY <1>1, Invariance, PTL

\* Every lease lives as long as the allocation it stands for.
THEOREM LeasesExact == Spec => []LeasesFollowWork
<1>1. IInv => LeasesFollowWork
  BY DEF IInv, Fine, LeasesFollowWork
<1> QED
  BY <1>1, Invariance, PTL

\* A request_id names the request whose worker is pending or runs.
THEOREM RegistryExact == Spec => []RegistryNamesActiveWork
<1>1. IInv => RegistryNamesActiveWork
  BY DEF IInv, Fine, Named, RegistryNamesActiveWork
<1> QED
  BY <1>1, Invariance, PTL

\* The metrics record the status the client was sent.
THEOREM MetricsAgree == Spec => []MetricsMatchResponse
<1>1. IInv => MetricsMatchResponse
  BY DEF IInv, Fine, InStep, MetricsMatchResponse
<1> QED
  BY <1>1, Invariance, PTL

-----------------------------------------------------------------------------
(* The budgets and the controls as the objects they are taken for. *)

\* The bytes charged to a budget are those on lease.
LEMMA ChargedIsLeased ==
  ASSUME NEW K \in SUBSET Kinds
  PROVE  Charged(K, Charge(K)) = Cardinality(LeasedBytes(K))
<1>1. {x \in Requests \X K \X (1 .. MemoryCapacity + StorageCapacity) :
         x[3] <= Charge(K)[<<x[1], x[2]>>]} = LeasedBytes(K)
  BY LimitsAssumption DEF LeasedBytes, Charge
<1> QED
  BY <1>1 DEF Charged

\* What is left of the leases of the kinds K when the owners S return theirs.
Rest(K, S) == [h \in Requests \X K |-> IF h \in S THEN 0 ELSE Charge(K)[h]]

\* A step that grants nothing of the kinds K only returns leases.
LEMMA OnlyReturns ==
  ASSUME NEW K \in SUBSET Kinds, NEW r \in Requests, Frame(r),
         (lease'[r] \cap K) \subseteq lease[r]
  PROVE  \E S \in SUBSET (Requests \X K) : Charge(K)' = Rest(K, S)
<1> DEFINE S == {h \in Requests \X K : h[2] \notin lease'[h[1]]}
<1>1. \A s \in Requests : (lease'[s] \cap K) \subseteq lease[s]
  BY DEF Frame
<1>2. Charge(K)' = Rest(K, S)
  BY <1>1 DEF Charge, Rest
<1> QED
  BY <1>2

\* A step that grants a lease returns others, and grants no second one.
LEMMA OneIsGranted ==
  ASSUME NEW K \in SUBSET Kinds, NEW r \in Requests, NEW k \in K, Frame(r),
         k \in lease'[r], lease'[r] \subseteq lease[r] \cup {k}
  PROVE  \E S \in SUBSET (Requests \X K) :
           Charge(K)' = [Rest(K, S) EXCEPT ![<<r, k>>] = Bytes[k]]
<1> DEFINE S == {h \in Requests \X K : h[2] \notin lease'[h[1]]}
<1>1. \A s \in Requests \ {r} : lease'[s] = lease[s]
  BY DEF Frame
<1>2. ASSUME NEW h \in Requests \X K
      PROVE  Charge(K)'[h] = [Rest(K, S) EXCEPT ![<<r, k>>] = Bytes[k]][h]
  <2>1. CASE h = <<r, k>>
    BY <2>1 DEF Charge, Rest
  <2>2. CASE h # <<r, k>>
    <3>1. h = <<h[1], h[2]>> /\ h[1] \in Requests /\ h[2] \in K
      OBVIOUS
    <3>2. h[2] \in lease'[h[1]] => h[2] \in lease[h[1]]
      BY <1>1, <2>2, <3>1
    <3> QED
      BY <2>2, <3>2 DEF Charge, Rest
  <2> QED
    BY <2>1, <2>2
<1>3. Charge(K)' = [Rest(K, S) EXCEPT ![<<r, k>>] = Bytes[k]]
  BY <1>2 DEF Charge, Rest
<1> QED
  BY <1>3

\* Whatever a step does to the leases of the kinds K, whose budget is cap, one
\* step of that budget does.
LEMMA BudgetStep ==
  ASSUME NEW K \in SUBSET Kinds, NEW r \in Requests, Moves(r), NEW cap \in Nat,
         \A k \in K : CanReserve(k) => Cardinality(LeasedBytes(K)) + Bytes[k] <= cap
  PROVE  \E S \in SUBSET (Requests \X K) :
           \/ Charge(K)' = Rest(K, S)
           \/ \E h \in Requests \X K, b \in 0 .. cap :
                /\ Charge(K)[h] = 0
                /\ Charged(K, Charge(K)) + b <= cap
                /\ Charge(K)' = [Rest(K, S) EXCEPT ![h] = b]
<1>1. CASE (lease'[r] \cap K) \subseteq lease[r]
  BY <1>1, OnlyReturns DEF Moves
<1>2. ASSUME NEW k \in K, k \in lease'[r], k \notin lease[r], CanReserve(k),
             lease'[r] \subseteq lease[r] \cup {k}
      PROVE  \E S \in SUBSET (Requests \X K) :
               \E h \in Requests \X K, b \in 0 .. cap :
                 /\ Charge(K)[h] = 0
                 /\ Charged(K, Charge(K)) + b <= cap
                 /\ Charge(K)' = [Rest(K, S) EXCEPT ![h] = b]
  <2>1. PICK S \in SUBSET (Requests \X K) :
          Charge(K)' = [Rest(K, S) EXCEPT ![<<r, k>>] = Bytes[k]]
    BY <1>2, OneIsGranted DEF Moves
  <2>2. Charged(K, Charge(K)) + Bytes[k] <= cap
    BY <1>2, ChargedIsLeased
  <2>3. Charge(K)[<<r, k>>] = 0
    BY <1>2 DEF Charge
  <2>4. Bytes[k] \in 0 .. cap
    BY <1>2, BytesFinite, LimitsAssumption
  <2> QED
    BY <2>1, <2>2, <2>3, <2>4
<1> QED
  BY <1>1, <1>2 DEF Moves, LeaseMoves

\* A step of a request is a step of the memory budget, or of none.
LEMMA MemoryStep ==
  ASSUME NEW r \in Requests, Moves(r)
  PROVE  MemoryBudget!Next
<1>1. Memory \in SUBSET Kinds /\ MemoryCapacity \in Nat
  BY LimitsAssumption DEF Memory
<1>2. \A k \in Memory :
        CanReserve(k) => Cardinality(LeasedBytes(Memory)) + Bytes[k] <= MemoryCapacity
  BY DEF Memory, CanReserve
<1>3. PICK S \in SUBSET (Requests \X Memory) :
        \/ Charge(Memory)' = Rest(Memory, S)
        \/ \E h \in Requests \X Memory, b \in 0 .. MemoryCapacity :
             /\ Charge(Memory)[h] = 0
             /\ Charged(Memory, Charge(Memory)) + b <= MemoryCapacity
             /\ Charge(Memory)' = [Rest(Memory, S) EXCEPT ![h] = b]
  BY <1>1, <1>2, BudgetStep
<1>4. MemoryBudget!Returned(S) = Rest(Memory, S)
  BY DEF MemoryBudget!Returned, Rest
<1>5. CASE Charge(Memory)' = Rest(Memory, S)
  BY <1>4, <1>5 DEF MemoryBudget!Next, MemoryBudget!Release
<1>6. ASSUME NEW h \in Requests \X Memory, NEW b \in 0 .. MemoryCapacity,
             Charge(Memory)[h] = 0, Charged(Memory, Charge(Memory)) + b <= MemoryCapacity,
             Charge(Memory)' = [Rest(Memory, S) EXCEPT ![h] = b]
      PROVE  MemoryBudget!Next
  <2>1. MemoryBudget!Acquire(h, b, S)
    BY <1>4, <1>6 DEF MemoryBudget!Acquire, ChargedMemory
  <2> QED
    BY <2>1 DEF MemoryBudget!Next
<1> QED
  BY <1>3, <1>5, <1>6

\* And of the budget of temporary storage.
LEMMA StorageStep ==
  ASSUME NEW r \in Requests, Moves(r)
  PROVE  StorageBudget!Next
<1>1. Storage \in SUBSET Kinds /\ StorageCapacity \in Nat
  BY LimitsAssumption DEF Kinds, Storage
<1>2. \A k \in Storage :
        CanReserve(k) =>
          Cardinality(LeasedBytes(Storage)) + Bytes[k] <= StorageCapacity
  BY DEF CanReserve, Storage
<1>3. PICK S \in SUBSET (Requests \X Storage) :
        \/ Charge(Storage)' = Rest(Storage, S)
        \/ \E h \in Requests \X Storage, b \in 0 .. StorageCapacity :
             /\ Charge(Storage)[h] = 0
             /\ Charged(Storage, Charge(Storage)) + b <= StorageCapacity
             /\ Charge(Storage)' = [Rest(Storage, S) EXCEPT ![h] = b]
  BY <1>1, <1>2, BudgetStep
<1>4. StorageBudget!Returned(S) = Rest(Storage, S)
  BY DEF StorageBudget!Returned, Rest
<1>5. CASE Charge(Storage)' = Rest(Storage, S)
  BY <1>4, <1>5 DEF StorageBudget!Next, StorageBudget!Release
<1>6. ASSUME NEW h \in Requests \X Storage, NEW b \in 0 .. StorageCapacity,
             Charge(Storage)[h] = 0, Charged(Storage, Charge(Storage)) + b <= StorageCapacity,
             Charge(Storage)' = [Rest(Storage, S) EXCEPT ![h] = b]
      PROVE  StorageBudget!Next
  <2>1. StorageBudget!Acquire(h, b, S)
    BY <1>4, <1>6 DEF StorageBudget!Acquire, ChargedStorage
  <2> QED
    BY <2>1 DEF StorageBudget!Next
<1> QED
  BY <1>3, <1>5, <1>6

\* A step of a request touches at most its own control, and that as the object
\* allows.
LEMMA ControlStep ==
  ASSUME Typed, Next, NEW s \in Requests
  PROVE  [Controls(s)!Next]_<<control[s], late[s]>>
<1> USE DEF Typed, Controls!Next, Controls!End, Controls!TimePasses, Controls!Reasons,
            Check, Checked, Expired, CancelControl, Checkpoint, Reasons
<1>1. ASSUME NEW r \in Requests,
             \/ Arrive(r) \/ ReadHeader(r) \/ HeaderTimeout(r) \/ RejectMessage(r)
             \/ Register(r) \/ SpawnWorker(r) \/ Join(r)
      PROVE  [Controls(s)!Next]_<<control[s], late[s]>>
  BY <1>1 DEF Arrive, ReadHeader, HeaderTimeout, RejectMessage, Register, SpawnWorker, Join
<1>2. ASSUME NEW r \in Requests,
             InnerTimeout(r) \/ OuterTimeout(r) \/ BodySent(r) \/ Disconnect(r)
      PROVE  [Controls(s)!Next]_<<control[s], late[s]>>
  BY <1>2 DEF InnerTimeout, OuterTimeout, BodySent, Disconnect
<1>3. ASSUME NEW r \in Requests, WorkerStep(r) \/ WorkerDecoded(r)
      PROVE  [Controls(s)!Next]_<<control[s], late[s]>>
  BY <1>3 DEF WorkerStep, WorkerStart, WorkerSpool, WorkerReserve, WorkerStops, WorkerReply,
     WorkerUnregister, WorkerRelease, WorkerDecoded
<1>4. ASSUME NEW r \in Requests, DeadlinePasses(r)
      PROVE  [Controls(s)!Next]_<<control[s], late[s]>>
  BY <1>4 DEF DeadlinePasses
<1>5. ASSUME NEW i \in Ids, Cancel(i)
      PROVE  [Controls(s)!Next]_<<control[s], late[s]>>
  BY <1>5 DEF Cancel
<1> QED
  BY <1>1, <1>2, <1>3, <1>4, <1>5 DEF Next

\* Both budgets are used as Quota, which ByteQuota implements, allows.
THEOREM BudgetsRefineQuota == Spec => BudgetsAreKept
<1>1. Init => MemoryBudget!Init /\ StorageBudget!Init
  BY DEF Init, Charge, MemoryBudget!Init, StorageBudget!Init
<1>2. IInv /\ [Next]_vars =>
        [MemoryBudget!Next]_(Charge(Memory)) /\ [StorageBudget!Next]_(Charge(Storage))
  <2>1. UNCHANGED vars => UNCHANGED <<Charge(Memory), Charge(Storage)>>
    BY DEF vars, Charge
  <2> QED
    BY <2>1, NextIInv, MemoryStep, StorageStep
<1> QED
  BY <1>1, <1>2, Invariance, PTL
     DEF Spec, BudgetsAreKept, MemoryBudget!Spec, StorageBudget!Spec

\* The control of every request is used as Control, which RequestControl
\* implements, allows.
THEOREM ControlsRefineControl == Spec => ControlsAreKept
<1> SUFFICES ASSUME NEW s \in Requests PROVE Spec => Controls(s)!Spec
  BY DEF ControlsAreKept
<1>1. Init => Controls(s)!Init
  BY DEF Init, Controls!Init
<1>2. IInv /\ [Next]_vars => [Controls(s)!Next]_<<control[s], late[s]>>
  BY ControlStep DEF IInv, vars
<1> QED
  BY <1>1, <1>2, Invariance, PTL DEF Spec, Controls!Spec, Controls!object

=============================================================================
