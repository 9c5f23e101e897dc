-------------------------- MODULE MCAnalysisCache --------------------------
(***************************************************************************)
(* Instances of AnalysisCache: two threads of one process and one of       *)
(* another, on two sources that may hold three contents.                   *)
(***************************************************************************)
EXTENDS AnalysisCache, TLC

CONSTANTS c1, c2, c3, p1, p2, s1, s2

MCProcOf == c1 :> p1 @@ c2 :> p1 @@ c3 :> p2
MCSourceOf == c1 :> s1 @@ c2 :> s2 @@ c3 :> s2
MCDataOf == s1 :> {1} @@ s2 :> {2, 3}
MCSizeOf == 1 :> 1 @@ 2 :> 1 @@ 3 :> 2
MCMaxBytes == p1 :> 2 @@ p2 :> 1
MCPolicies == p1 :> {FALSE} @@ p2 :> BOOLEAN

=============================================================================
