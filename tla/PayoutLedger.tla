----------------------------- MODULE PayoutLedger -----------------------------
(***************************************************************************)
(* What the distribution engine promises, without requests, attempts,      *)
(* refusals or rows of runs: a ledger in which each call, once it is       *)
(* opened with shares that add up to its total, enters its shares one      *)
(* after the other.  A line is entered a second time only by a call one of *)
(* whose answers was lost, and only before the next line is entered; a     *)
(* call is sealed with its last line, never before; a call may be          *)
(* abandoned anywhere.  DistributionEngine implements it.                  *)
(***************************************************************************)
EXTENDS Apportionment

CONSTANTS Calls,
          Copies    \* what tells two entries of one line apart

VARIABLES
    state,     \* each call: idle, open, sealed (answered 200) or closed
    total,     \* the cents each call was asked to distribute
    due,       \* the shares of an opened call
    ledger,    \* the entries
    excused    \* the calls that lost an answer

vars == <<state, total, due, ledger, excused>>

Init ==
    /\ state = [c \in Calls |-> "idle"]
    /\ total \in [Calls -> Int]
    /\ due = [c \in Calls |-> <<>>]
    /\ ledger = {}
    /\ excused = {}

Entered(c) == {e.line : e \in {x \in ledger : x.call = c}}

Open(c) ==
    /\ state[c] = "idle"
    /\ state' = [state EXCEPT ![c] = "open"]
    /\ due' = [due EXCEPT ![c] = due'[c]]
    /\ due'[c] \in Seq(Int) \ {<<>>}
    /\ SumOf(due'[c]) = total[c]
    /\ UNCHANGED <<total, ledger, excused>>

Enter(c, l, k) ==
    /\ 1..(l - 1) \subseteq Entered(c)
    /\ Entered(c) \subseteq 1..l
    /\ l \in Entered(c) => c \in excused
    /\ ledger' = ledger \cup {[call |-> c, line |-> l, amount |-> due[c][l], copy |-> k]}
    /\ excused' \in {excused, excused \cup {c}}
    /\ \/ state' = state
       \/ l = Len(due[c]) /\ state' = [state EXCEPT ![c] = "sealed"]
    /\ UNCHANGED <<total, due>>

(* The answer about something else than a line is lost. *)
LoseAnswer(c) ==
    /\ state[c] = "idle"
    /\ excused' = excused \cup {c}
    /\ UNCHANGED <<state, total, due, ledger>>

(* Calls are refused, given up, or die with the process. *)
Abandon(C) ==
    /\ \A c \in C : state[c] \in {"idle", "open"}
    /\ state' = [c \in Calls |-> IF c \in C THEN "closed" ELSE state[c]]
    /\ UNCHANGED <<total, due, ledger, excused>>

Next ==
    \/ \E c \in Calls :
        \/ Open(c)
        \/ state[c] = "open" /\ \E l \in 1..Len(due[c]), k \in Copies : Enter(c, l, k)
        \/ LoseAnswer(c)
    \/ \E C \in SUBSET Calls : Abandon(C)

Spec == Init /\ [][Next]_vars
===============================================================================
