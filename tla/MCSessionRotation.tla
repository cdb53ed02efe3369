-------------------------- MODULE MCSessionRotation --------------------------
(* Instances of SessionRotation for TLC. *)
EXTENDS SessionRotation, TLC

CONSTANTS r1, r2, r3, r4, u1, u2

(* Requests and users play no part of their own: TLC may rename them. *)
Interchangeable == Permutations(Requests) \cup Permutations(Users)
=============================================================================
