----------------------------- MODULE MCResponse -----------------------------
(* One suspicious process, a rule that quarantines and one that bans and     *)
(* kills; the second is on the enforce list.                                 *)
EXTENDS Response

CONSTANTS d1, d2, planner, p1, p0, pid1, stopRule, killRule

Two == {d1, d2}
MCPids == {p1}
MCRules == {stopRule, killRule}
MCPolicy == [r \in MCRules |-> IF r = stopRule THEN {"snapshot", "quarantine"} ELSE {"kill"}]
MCEnforceRules == {killRule}
MCScores == {75, 100}
MCAlertPids == {p1, pid1}
MCConfigs == {[monitor |-> FALSE, active |-> TRUE, bastion |-> FALSE],
              [monitor |-> TRUE, active |-> TRUE, bastion |-> TRUE]}
=============================================================================
