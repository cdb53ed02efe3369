------------------------ MODULE MCDistributionEngine ------------------------
(* Two concurrent calls of the distribution endpoint, small balance lists. *)
EXTENDS DistributionEngine

CONSTANTS c1, c2

Startup == [authenticated |-> TRUE, revenue |-> 2, hasPeriod |-> TRUE,
            role |-> "startup", exists |-> TRUE, owner |-> TRUE]
Admin   == [Startup EXCEPT !.role = "admin", !.revenue = 4, !.exists = FALSE, !.owner = FALSE]
Foreign == [Startup EXCEPT !.owner = FALSE]

MCRequests == {Startup, Admin, Foreign}

(* No investors, and two: of one cent each has half, which rounds up for   *)
(* both and leaves a cent to correct; two cents need no correction.        *)
MCBalanceLists == {<<>>, <<1, 1>>}

(* The calls are alike: of two ways to give them two requests, one.        *)
MCInit ==
    /\ Init
    /\ <<request[c1], request[c2]>> \in
           {<<Startup, Startup>>, <<Startup, Admin>>, <<Admin, Admin>>, <<Foreign, Admin>>}

MCSpec == MCInit /\ [][Next]_vars /\ \A c \in Calls : WF_vars(Step(c))
=============================================================================
