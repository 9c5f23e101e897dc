-------------------------- MODULE ByteQuotaProofs ---------------------------
(***************************************************************************)
(* Proofs about ByteQuota, for any finite set of lease holders and any     *)
(* capacity: the counter is the bytes on lease, and the exchange loops     *)
(* implement Quota.  The bytes on lease are counted as the cardinality of  *)
(* a set, so granting a lease adds a disjoint set and returning it removes *)
(* one.                                                                    *)
(***************************************************************************)
EXTENDS ByteQuota, FiniteSetTheorems, FunctionTheorems, TLAPS

Amounts == [Holders -> 0 .. Capacity]

\* One holder's share of the bytes counted by Charged.
Share(h, b) == {h} \X (1 .. b)

-----------------------------------------------------------------------------
(* Counting bytes. *)

\* The share of b bytes has b elements.
LEMMA ShareSize ==
  ASSUME NEW h, NEW b \in Nat
  PROVE  IsFiniteSet(Share(h, b)) /\ Cardinality(Share(h, b)) = b
<1> DEFINE f == [k \in 1 .. b |-> <<h, k>>]
<1>1. IsFiniteSet(1 .. b) /\ Cardinality(1 .. b) = b
  BY FS_Interval
<1>2. f \in Bijection(1 .. b, Share(h, b))
  <2>1. f \in [1 .. b -> Share(h, b)]
    BY DEF Share
  <2>2. \A j, k \in 1 .. b : f[j] = f[k] => j = k
    OBVIOUS
  <2>3. \A s \in Share(h, b) : \E k \in 1 .. b : f[k] = s
    BY DEF Share
  <2> QED
    BY <2>1, <2>2, <2>3
       DEF Bijection, Injection, Surjection, IsInjective
<1>3. ExistsBijection(1 .. b, Share(h, b))
  BY <1>2 DEF ExistsBijection
<1> QED
  BY <1>1, <1>3, FS_Bijection

\* The bytes on lease are finitely many.
LEMMA ChargedType ==
  ASSUME NEW f \in Amounts
  PROVE  IsFiniteSet(BytesOf(f)) /\ Charged(f) \in Nat
<1>1. IsFiniteSet(Holders \X (1 .. Capacity))
  <2>1. IsFiniteSet(1 .. Capacity)
    BY CapacityAssumption, FS_Interval
  <2> QED
    BY <2>1, HoldersAssumption, FS_Product
<1>2. BytesOf(f) \in SUBSET (Holders \X (1 .. Capacity))
  BY DEF BytesOf
<1> QED
  BY <1>1, <1>2, FS_Subset, FS_CardinalityType DEF Charged

\* A new lease of b bytes adds b to what is charged.
LEMMA ChargedGrant ==
  ASSUME NEW f \in Amounts, NEW h \in Holders, f[h] = 0,
         NEW b \in 0 .. Capacity
  PROVE  Charged([f EXCEPT ![h] = b]) = Charged(f) + b
<1> DEFINE g == [f EXCEPT ![h] = b]
<1>1. BytesOf(g) = BytesOf(f) \cup Share(h, b)
  BY CapacityAssumption DEF BytesOf, Share, Amounts
<1>2. BytesOf(f) \cap Share(h, b) = {}
  BY CapacityAssumption DEF BytesOf, Share, Amounts
<1>3. IsFiniteSet(BytesOf(f)) /\ Cardinality(BytesOf(f)) \in Nat
  BY ChargedType DEF Charged
<1>4. b \in Nat
  BY CapacityAssumption
<1>5. IsFiniteSet(Share(h, b)) /\ Cardinality(Share(h, b)) = b
  BY <1>4, ShareSize
<1>6. Cardinality(BytesOf(f) \cup Share(h, b)) =
        Cardinality(BytesOf(f)) + b - Cardinality({})
  BY <1>2, <1>3, <1>5, FS_Union
<1>7. Cardinality({}) = 0
  BY FS_EmptySet
<1>8. Cardinality(BytesOf(f) \cup Share(h, b)) = Cardinality(BytesOf(f)) + b
  BY <1>3, <1>4, <1>6, <1>7
<1> HIDE DEF g
<1>9. Charged(g) = Charged(f) + b
  BY <1>1, <1>8 DEF Charged
<1> QED
  BY <1>9 DEF g

\* Returning a lease takes its bytes off what is charged.
LEMMA ChargedReturn ==
  ASSUME NEW f \in Amounts, NEW h \in Holders
  PROVE  /\ Charged([f EXCEPT ![h] = 0]) =
              Charged(f) - f[h]
         /\ f[h] <= Charged(f)
<1> DEFINE g == [f EXCEPT ![h] = 0]
<1>1. g \in Amounts /\ g[h] = 0 /\ f[h] \in 0 .. Capacity /\ f[h] \in Nat
  BY CapacityAssumption DEF Amounts
<1>2. f = [g EXCEPT ![h] = f[h]]
  BY DEF Amounts
<1> HIDE DEF g
<1>3. Charged(f) = Charged(g) + f[h]
  BY <1>1, <1>2, ChargedGrant
<1>4. Charged(g) \in Nat /\ Charged(f) \in Nat
  BY <1>1, ChargedType
<1> QED
  BY <1>1, <1>3, <1>4 DEF g

\* With nothing on lease nothing is charged.
LEMMA ChargedNothing ==
  Charged([h \in Holders |-> 0]) = 0
<1>1. BytesOf([h \in Holders |-> 0]) = {}
  BY DEF BytesOf
<1> QED
  BY <1>1, FS_EmptySet DEF Charged

-----------------------------------------------------------------------------
(* The inductive invariant. *)

\* What is on lease is within the domain of the counting lemmas.
LEMMA LeasedType ==
  ASSUME TypeOK, LeasesFit
  PROVE  Leased \in Amounts
BY CapacityAssumption DEF TypeOK, LeasesFit, Leased, Amounts, Labels

\* Nothing is on lease at the start.
LEMMA InitIInv == Init => IInv
<1> SUFFICES ASSUME Init PROVE IInv
  OBVIOUS
<1>1. Leased = [h \in Holders |-> 0]
  BY DEF Init, Leased
<1>2. UsedIsLeased
  BY <1>1, ChargedNothing DEF Init, UsedIsLeased
<1> QED
  BY <1>2, CapacityAssumption
     DEF Init, IInv, TypeOK, LeasesFit, NeverFailsClosed, RoomWasSeen, Labels

\* A step that leaves the counter and the leases alone preserves the sum.
LEMMA SameLeases ==
  ASSUME UsedIsLeased, used' = used, Leased' = Leased
  PROVE  UsedIsLeased'
BY DEF UsedIsLeased

\* A successful exchange of try_acquire adds the new lease to both sides.
LEMMA GrantedSum ==
  ASSUME IInv, NEW h \in Holders, pc[h] = "acquire", used = seen[h],
         seen[h] + bytes[h] <= Capacity, Granted(h, seen[h] + bytes[h])
  PROVE  UsedIsLeased'
<1>1. Leased \in Amounts
  BY LeasedType DEF IInv
<1>2. Leased[h] = 0 /\ bytes[h] \in 0 .. Capacity
  BY CapacityAssumption DEF IInv, TypeOK, Leased
<1>3. Leased' = [Leased EXCEPT ![h] = bytes[h]]
  BY DEF IInv, TypeOK, Leased, Granted, Goto
<1>4. Charged(Leased') = Charged(Leased) + bytes[h]
  BY <1>1, <1>2, <1>3, ChargedGrant
<1> QED
  BY <1>4 DEF IInv, UsedIsLeased, Granted

\* A successful exchange of release takes the lease off both sides.
LEMMA ReturnedSum ==
  ASSUME IInv, NEW h \in Holders, ReleaseSwap(h), used = seen[h]
  PROVE  UsedIsLeased' /\ used' = used - bytes[h] /\ used' \in 0 .. Capacity
<1>1. Leased \in Amounts
  BY LeasedType DEF IInv
<1>2. Leased[h] = bytes[h]
  BY DEF IInv, TypeOK, Leased, ReleaseSwap
<1>3. bytes[h] <= seen[h]
  BY DEF IInv, NeverFailsClosed, ReleaseSwap
<1>4. /\ used' = used - bytes[h]
      /\ pc' = [pc EXCEPT ![h] = "none"]
      /\ bytes' = [bytes EXCEPT ![h] = 0]
  BY <1>3, CapacityAssumption DEF IInv, TypeOK, ReleaseSwap, Goto
<1>5. Leased' = [Leased EXCEPT ![h] = 0]
  BY <1>4 DEF IInv, TypeOK, Leased
<1>6. Charged(Leased') = Charged(Leased) - bytes[h]
  BY <1>1, <1>2, <1>5, ChargedReturn
<1>7. UsedIsLeased'
  BY <1>4, <1>6 DEF IInv, UsedIsLeased
<1> QED
  BY <1>3, <1>4, <1>7, CapacityAssumption DEF IInv, TypeOK

-----------------------------------------------------------------------------
(* Steps that leave the counter and the leases alone. *)

\* Starting a call.
LEMMA TryAcquireIInv ==
  ASSUME IInv, NEW h \in Holders, NEW b \in 0 .. MaxU64, TryAcquire(h, b)
  PROVE  IInv' /\ Leased' = Leased
<1>1. TypeOK'
  <2>1. CASE b = 0
    BY <2>1, CapacityAssumption
       DEF IInv, TypeOK, TryAcquire, Goto, Observe, Labels
  <2>2. CASE b # 0
    <3>1. /\ used' = used
          /\ pc' = [pc EXCEPT ![h] = "acquire"]
          /\ seen' = [seen EXCEPT ![h] = used]
          /\ bytes' = [bytes EXCEPT ![h] = b]
          /\ fits' = [fits EXCEPT ![h] = used + b <= Capacity]
      BY <2>2 DEF TryAcquire, Goto, Observe
    <3>2. fits' \in [Holders -> BOOLEAN]
      BY <3>1 DEF IInv, TypeOK
    <3> QED
      BY <3>1, <3>2, CapacityAssumption DEF IInv, TypeOK, Labels
  <2> QED
    BY <2>1, <2>2
<1>2. Leased' = Leased
  BY DEF IInv, TypeOK, TryAcquire, Goto, Leased
<1>3. UsedIsLeased'
  BY <1>2, SameLeases DEF IInv, TryAcquire
<1>4. LeasesFit'
  BY CapacityAssumption DEF IInv, TypeOK, LeasesFit, TryAcquire, Goto
<1>5. NeverFailsClosed'
  BY CapacityAssumption
     DEF IInv, TypeOK, NeverFailsClosed, TryAcquire, Goto, Observe
<1>6. RoomWasSeen'
  BY CapacityAssumption
     DEF IInv, TypeOK, RoomWasSeen, TryAcquire, Goto, Observe
<1> QED
  BY <1>1, <1>2, <1>3, <1>4, <1>5, <1>6 DEF IInv

\* A checked sum that fits the capacity is the sum of the integers, and a call
\* is refused only if that does not fit.
LEMMA SumIsExact ==
  ASSUME TypeOK, NEW h \in Holders
  PROVE  /\ ~Overflows(h) => NextUsed(h) = seen[h] + bytes[h]
         /\ Overflows(h) \/ NextUsed(h) > Capacity => seen[h] + bytes[h] > Capacity
BY CapacityAssumption DEF TypeOK, Overflows, NextUsed

\* A refusal.
LEMMA RefuseIInv ==
  ASSUME IInv, NEW h \in Holders, Refuse(h)
  PROVE  IInv' /\ Leased' = Leased /\ ~fits[h]
<1>1. Leased' = Leased
  BY DEF IInv, TypeOK, Refuse, Goto, Leased
<1>2. UsedIsLeased'
  BY <1>1, SameLeases DEF IInv, Refuse
<1>3. TypeOK'
  BY CapacityAssumption DEF IInv, TypeOK, Refuse, Goto, Labels
<1>4. LeasesFit' /\ NeverFailsClosed' /\ RoomWasSeen'
  BY DEF IInv, TypeOK, LeasesFit, NeverFailsClosed, RoomWasSeen, Refuse, Goto
<1>5. ~fits[h]
  BY SumIsExact, CapacityAssumption DEF IInv, TypeOK, RoomWasSeen, Refuse
<1> QED
  BY <1>1, <1>2, <1>3, <1>4, <1>5 DEF IInv

\* Another turn of a loop.
LEMMA RetryIInv ==
  ASSUME IInv, NEW h \in Holders, pc[h] \in {"acquire", "release"}, Retry(h)
  PROVE  IInv' /\ Leased' = Leased
<1>1. Leased' = Leased
  BY DEF Retry, Leased
<1>2. UsedIsLeased'
  BY <1>1, SameLeases DEF IInv, Retry
<1>3. TypeOK'
  BY DEF IInv, TypeOK, Retry, Observe
<1>4. LeasesFit' /\ RoomWasSeen'
  BY DEF IInv, TypeOK, LeasesFit, RoomWasSeen, Retry, Observe
<1>5. pc[h] = "release" => bytes[h] <= used
  <2> SUFFICES ASSUME pc[h] = "release" PROVE bytes[h] <= used
    OBVIOUS
  <2>1. Leased \in Amounts /\ Leased[h] = bytes[h]
    BY LeasedType DEF IInv, Leased
  <2> QED
    BY <2>1, ChargedReturn DEF IInv, UsedIsLeased
<1>6. NeverFailsClosed'
  BY <1>5 DEF IInv, TypeOK, NeverFailsClosed, Retry, Observe
<1> QED
  BY <1>1, <1>2, <1>3, <1>4, <1>6 DEF IInv

\* Dropping a lease starts the loop of release, unless it is empty.
LEMMA DropLeaseIInv ==
  ASSUME IInv, NEW h \in Holders, DropLease(h)
  PROVE  IInv' /\ Leased' = Leased
<1>1. Leased' = Leased
  BY DEF IInv, TypeOK, DropLease, Goto, Leased
<1>2. UsedIsLeased'
  BY <1>1, SameLeases DEF IInv, DropLease
<1>3. TypeOK'
  <2>1. CASE bytes[h] = 0
    BY <2>1 DEF IInv, TypeOK, DropLease, Goto, Observe, Labels
  <2>2. CASE bytes[h] # 0
    BY <2>2 DEF IInv, TypeOK, DropLease, Goto, Observe, Labels
  <2> QED
    BY <2>1, <2>2
<1>4. LeasesFit' /\ RoomWasSeen'
  BY DEF IInv, TypeOK, LeasesFit, RoomWasSeen, DropLease, Goto, Observe
<1>5. bytes[h] <= used
  <2>1. Leased \in Amounts /\ Leased[h] = bytes[h]
    BY LeasedType DEF IInv, Leased, DropLease
  <2> QED
    BY <2>1, ChargedReturn DEF IInv, UsedIsLeased
<1>6. NeverFailsClosed'
  BY <1>5 DEF IInv, TypeOK, NeverFailsClosed, DropLease, Goto, Observe
<1> QED
  BY <1>1, <1>2, <1>3, <1>4, <1>6 DEF IInv

-----------------------------------------------------------------------------
(* Successful exchanges. *)

\* Granting.
LEMMA GrantedIInv ==
  ASSUME IInv, NEW h \in Holders, pc[h] = "acquire", used = seen[h],
         seen[h] + bytes[h] <= Capacity, Granted(h, seen[h] + bytes[h])
  PROVE  /\ IInv'
         /\ Leased[h] = 0
         /\ bytes[h] \in 0 .. Capacity
         /\ Charged(Leased) + bytes[h] <= Capacity
         /\ Leased' = [Leased EXCEPT ![h] = bytes[h]]
<1>1. UsedIsLeased'
  BY GrantedSum
<1>2. bytes[h] \in 0 .. Capacity /\ used' \in 0 .. Capacity /\ used' >= used
  BY CapacityAssumption DEF IInv, TypeOK, Granted
<1>3. TypeOK'
  BY <1>2 DEF IInv, TypeOK, Granted, Goto, Track, Labels
<1>4. LeasesFit'
  BY <1>2, CapacityAssumption DEF IInv, TypeOK, LeasesFit, Granted, Goto
<1>5. NeverFailsClosed'
  BY DEF IInv, TypeOK, NeverFailsClosed, Granted, Goto
<1>6. RoomWasSeen'
  BY DEF IInv, TypeOK, RoomWasSeen, Granted, Goto, Track
<1>7. Leased[h] = 0 /\ Leased' = [Leased EXCEPT ![h] = bytes[h]]
  BY DEF IInv, TypeOK, Leased, Granted, Goto
<1>8. Charged(Leased) + bytes[h] <= Capacity
  BY DEF IInv, UsedIsLeased
<1> QED
  BY <1>1, <1>2, <1>3, <1>4, <1>5, <1>6, <1>7, <1>8 DEF IInv

\* Returning.
LEMMA ReturnedIInv ==
  ASSUME IInv, NEW h \in Holders, ReleaseSwap(h), used = seen[h]
  PROVE  IInv' /\ Leased' = [Leased EXCEPT ![h] = 0]
<1>1. UsedIsLeased' /\ used' = used - bytes[h] /\ used' \in 0 .. Capacity
  BY ReturnedSum
<1>2. /\ pc[h] = "release"
      /\ pc' = [pc EXCEPT ![h] = "none"]
      /\ bytes' = [bytes EXCEPT ![h] = 0]
      /\ seen' = seen
      /\ Track
  BY DEF ReleaseSwap, Goto
<1>3. TypeOK'
  BY <1>1, <1>2, CapacityAssumption DEF IInv, TypeOK, Track, Labels
<1>4. LeasesFit' /\ NeverFailsClosed'
  BY <1>2 DEF IInv, TypeOK, LeasesFit, NeverFailsClosed
<1>5. RoomWasSeen'
  BY <1>1, <1>2 DEF IInv, TypeOK, RoomWasSeen, Track
<1>6. Leased' = [Leased EXCEPT ![h] = 0]
  BY <1>2 DEF IInv, TypeOK, Leased
<1> QED
  BY <1>1, <1>3, <1>4, <1>5, <1>6 DEF IInv

-----------------------------------------------------------------------------
(* The theorems. *)

\* Every step preserves the invariant, changes the leases as a step of Quota
\* does, and refuses only when there was a moment without room.
LEMMA NextIInv ==
  ASSUME IInv, Next
  PROVE  /\ IInv'
         /\ Abstract!Next \/ Leased' = Leased
         /\ \A h \in Holders : pc[h] = "acquire" /\ pc'[h] = "none" => ~fits[h]
<1> PICK h \in Holders :
      \/ \E b \in 0 .. MaxU64 : TryAcquire(h, b)
      \/ Refuse(h) \/ AcquireSwap(h)
      \/ DropLease(h) \/ ReleaseSwap(h) \/ SpuriousFailure(h)
  BY DEF Next
<1> DEFINE Fair ==
      \A k \in Holders : pc[k] = "acquire" /\ pc'[k] = "none" => ~fits[k]
<1>1. ASSUME NEW b \in 0 .. MaxU64, TryAcquire(h, b)
      PROVE  IInv' /\ Leased' = Leased /\ Fair
  BY <1>1, TryAcquireIInv DEF TryAcquire, Goto, IInv, TypeOK
<1>2. CASE Refuse(h)
  BY <1>2, RefuseIInv DEF Refuse, Goto, IInv, TypeOK
<1>3. CASE AcquireSwap(h)
  <2>1. CASE used = seen[h]
    <3>1. /\ pc[h] = "acquire"
          /\ seen[h] + bytes[h] <= Capacity
          /\ Granted(h, seen[h] + bytes[h])
      BY <1>3, <2>1, SumIsExact DEF AcquireSwap, IInv
    <3>2. /\ IInv'
          /\ Leased[h] = 0
          /\ bytes[h] \in 0 .. Capacity
          /\ Charged(Leased) + bytes[h] <= Capacity
          /\ Leased' = [Leased EXCEPT ![h] = bytes[h]]
      BY <2>1, <3>1, GrantedIInv
    <3>3. Abstract!Next
      <4>1. Abstract!Returned({}) = Leased
        BY DEF Abstract!Returned, Leased
      <4>2. Abstract!Acquire(h, bytes[h], {})
        BY <3>2, <4>1 DEF Abstract!Acquire
      <4> QED
        BY <3>2, <4>2 DEF Abstract!Next
    <3>4. Fair
      BY <3>1 DEF Granted, Goto, IInv, TypeOK
    <3> QED
      BY <3>2, <3>3, <3>4
  <2>2. CASE used # seen[h]
    <3>1. pc[h] = "acquire" /\ Retry(h)
      BY <1>3, <2>2 DEF AcquireSwap
    <3> QED
      BY <3>1, RetryIInv DEF Retry
  <2> QED
    BY <2>1, <2>2
<1>4. CASE DropLease(h)
  BY <1>4, DropLeaseIInv DEF DropLease, Goto, IInv, TypeOK
<1>5. CASE ReleaseSwap(h)
  <2>1. CASE used = seen[h]
    <3>1. IInv' /\ Leased' = [Leased EXCEPT ![h] = 0]
      BY <1>5, <2>1, ReturnedIInv
    <3>2. Abstract!Next
      <4>1. Leased' = Abstract!Returned({h})
        BY <3>1 DEF Abstract!Returned, Leased
      <4>2. {h} \in SUBSET Holders
        OBVIOUS
      <4> QED
        BY <4>1, <4>2 DEF Abstract!Next, Abstract!Release
    <3>3. Fair
      BY <1>5, <2>1 DEF ReleaseSwap, Goto, IInv, TypeOK
    <3> QED
      BY <3>1, <3>2, <3>3
  <2>2. CASE used # seen[h]
    <3>1. pc[h] = "release" /\ Retry(h)
      BY <1>5, <2>2, CapacityAssumption
         DEF ReleaseSwap, IInv, TypeOK, NeverFailsClosed
    <3> QED
      BY <3>1, RetryIInv DEF Retry
  <2> QED
    BY <2>1, <2>2
<1>6. CASE SpuriousFailure(h)
  <2>1. pc[h] \in {"acquire", "release"} /\ Retry(h)
    BY <1>6 DEF SpuriousFailure
  <2> QED
    BY <2>1, RetryIInv DEF Retry
<1> QED
  BY <1>1, <1>2, <1>3, <1>4, <1>5, <1>6

\* The inductive invariant holds in every reachable state.
THEOREM Invariance == Spec => []IInv
<1>1. IInv /\ UNCHANGED vars => IInv'
  BY DEF vars, IInv, TypeOK, UsedIsLeased, LeasesFit, NeverFailsClosed,
         RoomWasSeen, Leased
<1>2. IInv /\ [Next]_vars => IInv'
  BY <1>1, NextIInv
<1> QED
  BY <1>2, InitIInv, PTL DEF Spec

\* The counter is the sum of the leases, so no reservation is lost, returned
\* twice or left behind, for any number of racing holders.
THEOREM CounterIsExact == Spec => []UsedIsLeased
BY Invariance, PTL DEF IInv

\* The fail-closed branch of release is dead code.
THEOREM ReleaseNeverFails == Spec => []NeverFailsClosed
BY Invariance, PTL DEF IInv

\* A call is refused only if its bytes did not fit at some moment of it.
THEOREM RefusalsAreFair == Spec => RefusedOnlyWhenFull
<1>1. IInv /\ [Next]_vars =>
        [\A h \in Holders : pc[h] = "acquire" /\ pc'[h] = "none" => ~fits[h]]_vars
  BY NextIInv
<1> QED
  BY <1>1, Invariance, PTL DEF Spec, RefusedOnlyWhenFull

\* The racing counter loops implement the indivisible budget of Quota.
THEOREM Refinement == Spec => ImplementsQuota
<1>1. Init => Abstract!Init
  BY DEF Init, Abstract!Init, Leased
<1>2. IInv /\ [Next]_vars => [Abstract!Next]_Leased
  <2>1. UNCHANGED vars => Leased' = Leased
    BY DEF vars, Leased
  <2> QED
    BY <2>1, NextIInv
<1> QED
  BY <1>1, <1>2, Invariance, PTL DEF Spec, ImplementsQuota, Abstract!Spec

=============================================================================
