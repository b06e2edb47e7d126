----------------------------- MODULE MCModHolds -----------------------------
(* Small instances of ModHolds for TLC.                                    *)
EXTENDS ModHolds, FiniteSets, TLC

CONSTANTS e1, e2, p1, p2, c1, c2, c3

\* A terminal and the one that resumes the session in another process.
TwoProcesses == (e1 :> p1) @@ (e2 :> p2)
\* A terminal whose mod is reloaded: two evaluations in one process.
OneProcess   == (e1 :> p1) @@ (e2 :> p1)
Ages         == (e1 :> 0) @@ (e2 :> 1)

AgeOfOne     == (e1 :> 0)
OnlyProcess  == (e1 :> p1)

Permissions  == [ev \in Evals |-> [i \in Ids |-> FALSE]]
Questions    == [ev \in Evals |-> [i \in Ids |-> TRUE]]
\* The first call is a question, the second a permission.
Mixed        == [ev \in Evals |-> [i \in Ids |-> i = 1]]

Gate(m, v)   == [mode |-> m, viewers |-> v, killSwitch |-> FALSE, terminalOnly |-> FALSE]
Watched      == {Gate("holdable", 1)}
WatchedOrNot == {Gate("holdable", 1), Gate("auto", 1), Gate("dontAsk", 0)}

\* Bound for two evaluations and two calls at once: once the second evaluation
\* has shown itself or registered, neither a second call nor a second connection
\* is in use.
SecondEvaluation == row = e2 \/ e2 \in {opener[s] : s \in Serials} \cup {legs[c].ev : c \in Conns}
SecondCall ==
    \/ 2 \in openIds \cup {legs[c].id : c \in Conns}
    \/ \E k \in Keys : k[2] = 2 /\ (hold[k] # 0 \/ tomb[k] # NoOut \/ k \in handedOver)
SecondConnection == Cardinality({c \in Conns : legs[c] # Free}) > 1
OneAtATime == SecondCall \/ SecondConnection => gen <= 1 /\ ~SecondEvaluation

Interchangeable == Permutations(Conns)
=============================================================================
