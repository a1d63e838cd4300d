------------------------------ MODULE MCEgress ------------------------------
(* Egress control for TLC: a program under a policy that may change and one  *)
(* that has only its zone, both connecting to the same public address.       *)
EXTENDS Egress

CONSTANTS web, cron, public, local

AllSubjects == {web, cron}
AllDests == {public, local}
AllFlows == {<<web, public>>, <<cron, public>>, <<web, local>>}
Rule(dests, class) == [dests |-> dests, class |-> class]
Strict == [mode |-> "deny_default", only |-> {}, cgroups |-> {},
           allow |-> {Rule({local}, "")}, deny |-> {}]
AllPolicies == {Strict}
\* A lineage of each program is a code point, and another is none: these two
\* share their keys.
AllLineages == [s \in AllSubjects |->
    IF s = web THEN {<<0, 7>>, <<0, 2097152>>} ELSE {<<0, 9>>, <<1, 3145728>>}]
ZoneFiles == {[dflt |-> "trusted", assign |-> <<[subject |-> cron, label |-> "untrusted"]>>]}
NoProfiles == [s \in AllSubjects |-> {}]
=============================================================================
