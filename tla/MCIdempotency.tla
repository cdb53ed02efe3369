---------------------------- MODULE MCIdempotency ----------------------------
(* Instances of Idempotency for TLC. *)
EXTENDS Idempotency, TLC

CONSTANTS r1, r2, r3, k1, k2

Interchangeable == Permutations(Requests) \cup Permutations(Keys)
=============================================================================
