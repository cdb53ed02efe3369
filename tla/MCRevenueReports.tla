-------------------------- MODULE MCRevenueReports --------------------------
(* Instances of RevenueReports for TLC. *)
EXTENDS RevenueReports, TLC

CONSTANTS s1, s2, s3, c1, d1, d2, o1, o2

Interchangeable == Permutations(Submissions) \cup Permutations(Runs)

(* A sound request for an offering of the issuer's own. *)
Report(offering, amount, from, to) ==
    [offering |-> offering, exists |-> TRUE, owner |-> TRUE, amount |-> amount,
     from |-> from, to |-> to]

(* Two periods that touch, one that overlaps both, another offering, and   *)
(* what is rejected.                                                       *)
MCRequests ==
    {Report(o1, 24, 0, 2), Report(o1, 35, 2, 4), Report(o1, 35, 1, 3), Report(o2, 24, 0, 2),
     Report(o1, 24, 2, 2), [Report(o1, 24, 0, 2) EXCEPT !.owner = FALSE],
     [Report(o1, 24, 0, 2) EXCEPT !.exists = FALSE]}

Query(kind, from, to, tolerance) ==
    [kind |-> kind, offering |-> o1, from |-> from, to |-> to, tolerance |-> tolerance]

(* A quick check takes its dates in any order; a reconciliation takes any  *)
(* tolerance.                                                              *)
MCQueries ==
    {Query("quick", 0, 2, DefaultTolerance), Query("quick", 2, 0, DefaultTolerance),
     Query("reconcile", 0, 2, DefaultTolerance), Query("reconcile", 0, 2, NaN),
     Query("reconcile", 0, 2, -1)}

(* The totals are whole cents, as toFixed(2) writes them. *)
MCRunInputs ==
    {[offering |-> o1, total_amount |-> 2, distribution_date |-> 2],
     [offering |-> o1, total_amount |-> 3, distribution_date |-> 4]}
=============================================================================
