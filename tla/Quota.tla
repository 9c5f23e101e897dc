------------------------------- MODULE Quota --------------------------------
(***************************************************************************)
(* What a byte budget promises (src/src/service_runtime.rs, the comment on *)
(* ByteQuota and QuotaLease): leases are granted and returned in one       *)
(* indivisible step, and the bytes on lease never exceed the capacity.     *)
(***************************************************************************)
EXTENDS Naturals

CONSTANTS
  Holders,    \* everything that may own a lease
  Capacity,   \* bytes in the budget
  Charged(_)  \* the sum of a function from holders to bytes

VARIABLE lease    \* bytes each holder has on lease

-----------------------------------------------------------------------------

Init == lease = [h \in Holders |-> 0]

\* Leases that are returned, any number of them in one step of their owner.
Returned(S) == [h \in Holders |-> IF h \in S THEN 0 ELSE lease[h]]

\* A lease is granted if it fits beside all there are; in the same step its
\* owner may return others.
Acquire(h, b, S) ==
  /\ lease[h] = 0
  /\ Charged(lease) + b <= Capacity
  /\ lease' = [Returned(S) EXCEPT ![h] = b]

Release(S) == lease' = Returned(S)

Next ==
  \E S \in SUBSET Holders :
    Release(S) \/ \E h \in Holders, b \in 0 .. Capacity : Acquire(h, b, S)

Spec == Init /\ [][Next]_lease

=============================================================================
