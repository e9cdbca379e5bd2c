--------------------------- MODULE MCTokenBucket ---------------------------
(* Instances of TokenBucket with one and with two CPUs. *)
EXTENDS TokenBucket, TLC

CONSTANTS c1, c2

Symmetric == Permutations({c1, c2})
=============================================================================
