--------------------------- MODULE MCContainment ---------------------------
(* Four policies: the default (observe and alert only), enforcement up to    *)
(* panic_switch, and two with thresholds out of order, one of them with the  *)
(* ceiling not set.                                                          *)
EXTENDS Containment

CONSTANTS c1, c2, src, none

MCCallers == {c1, c2}
MCSources == {src, none}
MCScores == {0, 60, 100}

Thresholds == [s \in 2..9 |->
    CASE s = 2 -> 1 [] s = 3 -> 60 [] s = 4 -> 70 [] s = 5 -> 80 [] s = 6 -> 80
      [] s = 7 -> 90 [] s = 8 -> 95 [] s = 9 -> 100]
Default == [min |-> Thresholds, max |-> StepAlert]
Enforce == [min |-> Thresholds, max |-> 9]
Disordered == [min |-> [Thresholds EXCEPT ![2] = 80, ![4] = 0], max |-> 9]
Unset == [min |-> [Thresholds EXCEPT ![4] = 0, ![9] = 50], max |-> 0]

MCPolicies == {Default, Enforce, Disordered, Unset}
EnforceOnly == {Enforce}
=============================================================================
