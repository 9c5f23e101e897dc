--------------------------- MODULE MCGrpcAnalyze ----------------------------
(* TLC instances of GrpcAnalyze.  Two permits and three requests with two   *)
(* identifiers give saturation, a detached worker beside a live one, and    *)
(* identifier reuse; the budgets admit one decode beside one message.       *)
EXTENDS GrpcAnalyze, TLC

SmallBytes == [k \in Kinds |-> IF k = "working" THEN 2 ELSE 1]

SafetySpec == Init /\ [][Next]_vars

Symmetry == Permutations(Requests) \cup Permutations(Ids)

=============================================================================
