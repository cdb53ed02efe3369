----------------------------- MODULE MCOfferings -----------------------------
(* Snapshots, with Offerings beneath, for TLC: one offering with a contract*)
(* that is open, raises money, closes and completes, and one investment    *)
(* made before; whoever invests now is another investor.  Rows and contract*)
(* begin in step: the contract moves on by itself, and a sync follows.     *)
EXTENDS Snapshots, TLC

CONSTANTS o1, i1, h1, h2

MCChainState ==
    <<[status |-> "active", raised |-> 0], [status |-> "active", raised |-> 5],
      [status |-> "closed", raised |-> 5], [status |-> "completed", raised |-> 5]>>
MCChain       == [v \in Versions |-> MCChainState[v + 1]]
MCInvestor    == [i \in Earlier \cup Requests |-> IF i = i1 THEN h1 ELSE h2]
MCAmount      == [i \in Earlier \cup Requests |-> 1]
MCOfferingOf  == [i \in Earlier |-> o1]
MCChainBalances ==
    {[holder |-> h1, balance |-> 2], [holder |-> h2, balance |-> 0],
     [holder |-> NoHolder, balance |-> 1]}

MCInit ==
    /\ SnapInit
    /\ \A o \in OfferingIds : version[o] = 0
    /\ \A i \in Earlier : investments[i] = "completed"

MCSpec == MCInit /\ [][Next]_vars

MCSymmetry == Permutations(Requests)
==============================================================================
