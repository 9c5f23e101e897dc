----------------------------- MODULE ByteQuota ------------------------------
(***************************************************************************)
(* The shared byte budget of the service (src/src/service_runtime.rs,      *)
(* ByteQuota and QuotaLease): one atomic counter, changed by               *)
(* compare_exchange_weak loops in any number of threads.                   *)
(***************************************************************************)
EXTENDS Naturals, FiniteSets

CONSTANTS
  Holders,    \* lease slots: a call of try_acquire and the lease it returns
  Capacity,   \* ByteQuota.capacity
  MaxU64      \* the largest u64

ASSUME HoldersAssumption == IsFiniteSet(Holders)
ASSUME CapacityAssumption ==
  Capacity \in Nat /\ MaxU64 \in Nat /\ Capacity <= MaxU64

VARIABLES
  used,       \* ByteQuota.used
  pc,         \* "none", in try_acquire, "held", or in release
  seen,       \* the value of used each loop last observed
  bytes,      \* bytes requested, then QuotaLease.bytes
  fits        \* history: there was room all through the call so far

vars == <<used, pc, seen, bytes, fits>>

-----------------------------------------------------------------------------

Labels == {"none", "acquire", "held", "release"}

Init ==
  /\ used = 0
  /\ pc = [h \in Holders |-> "none"]
  /\ seen = [h \in Holders |-> 0]
  /\ bytes = [h \in Holders |-> 0]
  /\ fits = [h \in Holders |-> FALSE]

Goto(h, l) == pc' = [pc EXCEPT ![h] = l]

\* Observing the counter: the loop starts, or starts again.
Observe(h) == seen' = [seen EXCEPT ![h] = used]

\* Every change of used is seen by the calls in progress.
Track == fits' = [h \in Holders |-> fits[h] /\ used' + bytes[h] <= Capacity]

\* Mutant: the loop starts from the value its last run observed.
TryAcquireStale(h, b) ==
  /\ pc[h] = "none"
  /\ bytes' = [bytes EXCEPT ![h] = b]
  /\ Goto(h, IF b = 0 THEN "held" ELSE "acquire")
  /\ fits' = [fits EXCEPT ![h] = used + b <= Capacity]
  /\ UNCHANGED <<used, seen>>

\* try_acquire with b bytes; an empty lease is granted without the counter.
TryAcquire(h, b) ==
  /\ pc[h] = "none"
  /\ bytes' = [bytes EXCEPT ![h] = b]
  /\ IF b = 0
       THEN Goto(h, "held") /\ UNCHANGED <<seen, fits>>
       ELSE /\ Goto(h, "acquire")
            /\ Observe(h)
            /\ fits' = [fits EXCEPT ![h] = used + b <= Capacity]
  /\ UNCHANGED used

Overflows(h) == seen[h] + bytes[h] > MaxU64

\* The sum as a u64, which wraps around.
NextUsed(h) ==
  IF Overflows(h) THEN seen[h] + bytes[h] - (MaxU64 + 1) ELSE seen[h] + bytes[h]

\* checked_add finds the overflow, or the sum exceeds the capacity.
Refuse(h) ==
  /\ pc[h] = "acquire"
  /\ Overflows(h) \/ NextUsed(h) > Capacity
  /\ Goto(h, "none")
  /\ bytes' = [bytes EXCEPT ![h] = 0]
  /\ UNCHANGED <<used, seen, fits>>

Retry(h) == Observe(h) /\ UNCHANGED <<used, pc, bytes, fits>>

Granted(h, next) ==
  /\ used' = next
  /\ Goto(h, "held")
  /\ Track
  /\ UNCHANGED <<seen, bytes>>

\* Mutant: a store of the sum computed from the last observed value.
AcquireSwapStores(h) ==
  /\ pc[h] = "acquire"
  /\ ~Overflows(h) /\ NextUsed(h) <= Capacity
  /\ Granted(h, NextUsed(h))

\* Mutant: an addition that is not checked.
AcquireSwapWraps(h) ==
  /\ pc[h] = "acquire"
  /\ NextUsed(h) <= Capacity
  /\ IF used = seen[h] THEN Granted(h, NextUsed(h)) ELSE Retry(h)

\* The exchange of try_acquire; on failure the observed value is kept.
AcquireSwap(h) ==
  /\ pc[h] = "acquire"
  /\ ~Overflows(h) /\ NextUsed(h) <= Capacity
  /\ IF used = seen[h] THEN Granted(h, NextUsed(h)) ELSE Retry(h)

\* Drop of a QuotaLease; an empty lease has nothing to return.
DropLease(h) ==
  /\ pc[h] = "held"
  /\ IF bytes[h] = 0
       THEN Goto(h, "none") /\ UNCHANGED seen
       ELSE Goto(h, "release") /\ Observe(h)
  /\ UNCHANGED <<used, bytes, fits>>

\* Mutant: the lease is forgotten when the exchange fails.
ReleaseSwapGivesUp(h) ==
  /\ pc[h] = "release"
  /\ used' = IF used = seen[h] THEN used - bytes[h] ELSE used
  /\ Goto(h, "none")
  /\ bytes' = [bytes EXCEPT ![h] = 0]
  /\ Track
  /\ UNCHANGED seen

\* The exchange of release.  Were the difference to underflow, release would
\* fail closed: it returns and leaves used as it is.
ReleaseSwap(h) ==
  /\ pc[h] = "release"
  /\ IF bytes[h] > seen[h] \/ used = seen[h]
       THEN /\ used' = IF bytes[h] > seen[h] THEN used ELSE used - bytes[h]
            /\ Goto(h, "none")
            /\ bytes' = [bytes EXCEPT ![h] = 0]
            /\ Track
            /\ UNCHANGED seen
       ELSE Retry(h)

\* compare_exchange_weak may also fail without cause.
SpuriousFailure(h) ==
  /\ \/ pc[h] = "acquire" /\ ~Overflows(h) /\ NextUsed(h) <= Capacity
     \/ pc[h] = "release" /\ bytes[h] <= seen[h]
  /\ Retry(h)

Next ==
  \E h \in Holders :
    \/ \E b \in 0 .. MaxU64 : TryAcquire(h, b)
    \/ Refuse(h) \/ AcquireSwap(h)
    \/ DropLease(h) \/ ReleaseSwap(h) \/ SpuriousFailure(h)

Spec == Init /\ [][Next]_vars

-----------------------------------------------------------------------------
(* Properties. *)

\* The variables have their types; the counter stays within the capacity.
TypeOK ==
  /\ used \in 0 .. Capacity
  /\ pc \in [Holders -> Labels]
  /\ seen \in [Holders -> 0 .. Capacity]
  /\ bytes \in [Holders -> 0 .. MaxU64]
  /\ fits \in [Holders -> BOOLEAN]

\* Bytes on lease: from the exchange that grants to the one that returns.
Leased ==
  [h \in Holders |-> IF pc[h] \in {"held", "release"} THEN bytes[h] ELSE 0]

\* The sum of the bytes on lease: one element for every byte.
BytesOf(f) == {x \in Holders \X (1 .. Capacity) : x[2] <= f[x[1]]}

Charged(f) == Cardinality(BytesOf(f))

Abstract == INSTANCE Quota WITH lease <- Leased

\* The counter is exactly the bytes on lease, whatever exchanges raced: no
\* reservation is lost, none is returned twice, none outlives its lease, and no
\* sum has wrapped around.
UsedIsLeased == used = Charged(Leased)

\* The counter loops implement the indivisible budget, so what is on lease
\* never exceeds the capacity.
ImplementsQuota == Abstract!Spec

\* A call is refused only if, at some moment of that call, the bytes it asked
\* for did not fit (service_runtime.rs:102-117): a value observed by an
\* earlier call, or before a release was retried, never refuses it.
RefusedOnlyWhenFull ==
  [][\A h \in Holders : pc[h] = "acquire" /\ pc'[h] = "none" => ~fits[h]]_vars

\* Dropping a lease always returns it: the fail-closed branch of release,
\* which would lose the bytes for ever, is never taken, however old the
\* observed value is.
NeverFailsClosed ==
  \A h \in Holders : pc[h] = "release" => bytes[h] <= seen[h]

-----------------------------------------------------------------------------
(* The inductive invariant. *)

LeasesFit ==
  \A h \in Holders : pc[h] \in {"held", "release"} => bytes[h] <= Capacity

\* A call that had room all along has room now, and saw room when it looked.
RoomWasSeen ==
  \A h \in Holders :
    pc[h] = "acquire" /\ fits[h] =>
      used + bytes[h] <= Capacity /\ seen[h] + bytes[h] <= Capacity

IInv ==
  TypeOK /\ UsedIsLeased /\ LeasesFit /\ NeverFailsClosed /\ RoomWasSeen

=============================================================================
