--------------------------- MODULE MCPasswordReset ---------------------------
(* Instances of PasswordReset for TLC. *)
EXTENDS PasswordReset, TLC

CONSTANTS f1, f2, f3, p1, p2, p3, u1, u2

Interchangeable == Permutations(Forgots) \cup Permutations(Resets) \cup Permutations(Users)

(* f1 is sent for a user, f2 for any address.  Left out are the mirror     *)
(* images, and two requests for a stranger, after which no reset succeeds. *)
MCInit == Init /\ email[f1] \in Users

MCFairSpec == MCInit /\ [][Next]_vars /\ \A r \in Resets : WF_vars(Proceed(r))
=============================================================================
