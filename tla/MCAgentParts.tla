---------------------------- MODULE MCAgentParts ----------------------------
(***************************************************************************)
(* Small instances of the parts around the cycle and the walk: the process *)
(* and, of the collector, the building of a page, the lists read by page   *)
(* number and the tail of a trace.  They share no state, so that only one  *)
(* of them runs in a behaviour.                                            *)
(***************************************************************************)
EXTENDS Process, PageBuild, OffsetPages, TraceTail

VARIABLE part   \* the part that runs

Init ==
    /\ part \in {"process", "build", "list", "tail"}
    /\ ProcInit /\ BuildInit /\ ListInit /\ TailInit

Next ==
    \/ part = "process" /\ ProcNext /\ UNCHANGED <<part, buildVars, listVars, tailVars>>
    \/ part = "build" /\ BuildNext /\ UNCHANGED <<part, procVars, listVars, tailVars>>
    \/ part = "list" /\ ListNext /\ UNCHANGED <<part, procVars, buildVars, tailVars>>
    \/ part = "tail" /\ TailNext /\ UNCHANGED <<part, procVars, buildVars, listVars>>

\* Fairness of a part has no effect where another part runs: what it asks for
\* is not possible before that part has started.
Spec ==
    /\ Init /\ [][Next]_<<part, procVars, buildVars, listVars, tailVars>>
    /\ ProcFairness /\ BuildFairness

\* None, 901 seconds, and 2^35 seconds, whose nanoseconds wrap to a negative
\* number.
Headers == {<<>>, <<1, 1, 1, 0, 0, 0, 0, 1, 0, 1>>,
            [i \in 1..36 |-> IF i = 1 THEN 1 ELSE 0]}
=============================================================================
