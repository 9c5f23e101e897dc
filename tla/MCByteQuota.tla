---------------------------- MODULE MCByteQuota -----------------------------
(* TLC instance of ByteQuota.  With three holders one exchange can fail     *)
(* because of a grant and of a return; MaxU64 is larger than the capacity   *)
(* and small enough for every sum of two requests to overflow.              *)
EXTENDS ByteQuota, TLC

HolderSymmetry == Permutations(Holders)

=============================================================================
