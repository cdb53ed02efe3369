----------------------------- MODULE MCAccounts ------------------------------
(* Accounts for TLC: an address in two spellings and one that is no        *)
(* address; a strong password, a second strong one, a plain one that only  *)
(* the startups' and the reset's rule lets through, and one too short.     *)
EXTENDS Accounts, TLC

CONSTANTS mixed, plain, malformed, strong1, strong2, simple, short

MCLower == [a \in Addresses |-> IF a = mixed THEN plain ELSE a]

MCProfile ==
    [p \in Passwords |->
        CASE p \in {strong1, strong2} ->
               [length |-> 12, traits |-> {"upper", "lower", "digit", "special"}]
          [] p = simple -> [length |-> 12, traits |-> {"lower", "sequential"}]
          [] p = short  -> [length |-> 7, traits |-> {"lower", "upper", "digit"}]]

MCSymmetry == Permutations(Requests)
==============================================================================
