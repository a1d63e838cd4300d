---------------------------- MODULE Containment ----------------------------
(***************************************************************************)
(* pkg/containment: the staged-response ladder.  Handle picks a step for a *)
(* verdict, applies the repeat cooldown and records the step under l.mu,   *)
(* and runs the executor after the unlock, so a policy change or another   *)
(* verdict may come between the decision and the act.                      *)
(***************************************************************************)
EXTENDS Naturals, Sequences, FiniteSets

CONSTANTS
    Callers,         \* goroutines calling Handle
    Sources,         \* SourceIDs, NoSource among them
    NoSource,        \* the empty SourceID
    Scores,          \* endpoint scores
    Policies,        \* policies an operator may set
    RepeatCooldown,
    MaxTime,         \* bound: clock
    MaxFires         \* bound: steps taken per source

Steps == 1..9
StepObserve == 1
StepAlert == 2

\* A policy: the Min* threshold of every step above observe, and MaxStep.
PolicyType == [min : [Steps \ {StepObserve} -> Nat], max : Steps \cup {0}]

ASSUME ContainmentAssumption ==
    /\ NoSource \in Sources
    /\ Scores \subseteq Nat
    /\ Policies \subseteq PolicyType
    /\ RepeatCooldown \in Nat \ {0}
    /\ MaxTime \in Nat /\ MaxFires \in Nat

VARIABLES
    now,
    policy,   \* Ladder.policy
    last,     \* Ladder.last: step 0 if the source is unknown
    acting,   \* per caller: the step whose executor it is about to run, 0 if none
    fires     \* per source: the steps taken and when, in the order of the decisions

vars == <<now, policy, last, acting, fires>>

Reached(p, score) == {s \in Steps \ {StepObserve} : p.min[s] > 0 /\ score >= p.min[s]}

\* Mutant of Ceiling: 0 means no ceiling.
CeilingZeroOpen(p) == IF p.max <= 0 THEN 9 ELSE p.max

Ceiling(p) == IF p.max <= 0 THEN StepAlert ELSE p.max

\* Mutant: the cases are tried from the weakest step up.
WeakestFirst(p, score) ==
    IF Reached(p, score) = {} THEN StepObserve
    ELSE LET c == CHOOSE s \in Reached(p, score) : \A t \in Reached(p, score) : s <= t
         IN  IF c > Ceiling(p) THEN Ceiling(p) ELSE c

\* The strongest step whose threshold is met, then the ceiling.
SelectStep(p, score) ==
    LET met == {StepObserve} \cup Reached(p, score)
        chosen == CHOOSE s \in met : \A t \in met : t <= s
    IN  IF chosen > Ceiling(p) THEN Ceiling(p) ELSE chosen

Init ==
    /\ now = 0
    /\ policy \in Policies
    /\ last = [s \in Sources |-> [step |-> 0, at |-> 0]]
    /\ acting = [c \in Callers |-> 0]
    /\ fires = [s \in Sources |-> <<>>]

\* Mutant: the cooldown also covers weaker steps but not the same one.
SuppressWeaker(source, step, at) ==
    /\ source # NoSource
    /\ step < last[source].step
    /\ at < last[source].at + RepeatCooldown

\* The same step within the cooldown; now.Sub(prev.at) may be negative.
suppress(source, step, at) ==
    /\ source # NoSource
    /\ step = last[source].step
    /\ at < last[source].at + RepeatCooldown

\* Handle up to the unlock.  v.At is the verdict's own time, not later than
\* now.  A caller that was suppressed or only observes is done.
Handle(c, source, score, at) ==
    LET step == SelectStep(policy, score) IN
    /\ acting[c] = 0
    /\ at <= now
    /\ ~suppress(source, step, at)
    /\ Len(fires[source]) < MaxFires
    /\ last' = [last EXCEPT ![source] = [step |-> step, at |-> at]]
    /\ fires' = [fires EXCEPT ![source] = Append(@, [step |-> step, at |-> at])]
    /\ acting' = IF step = StepObserve THEN acting
                 ELSE [acting EXCEPT ![c] = step]
    /\ UNCHANGED <<now, policy>>

\* The executor ran, failed or is missing: Handle returns either way.
Acted(c) ==
    /\ acting[c] # 0
    /\ acting' = [acting EXCEPT ![c] = 0]
    /\ UNCHANGED <<now, policy, last, fires>>

SetPolicy(p) ==
    /\ policy' = p
    /\ UNCHANGED <<now, last, acting, fires>>

Clock == now < MaxTime /\ now' = now + 1 /\ UNCHANGED <<policy, last, acting, fires>>

Next ==
    \/ \E c \in Callers, source \in Sources, score \in Scores, at \in 0..now :
          Handle(c, source, score, at)
    \/ \E c \in Callers : Acted(c)
    \/ \E p \in Policies : SetPolicy(p)
    \/ Clock

Spec == Init /\ [][Next]_vars

-----------------------------------------------------------------------------
\* The state stays in its domain.
TypeOK ==
    /\ now \in Nat
    /\ policy \in Policies
    /\ last \in [Sources -> [step : Steps \cup {0}, at : Nat]]
    /\ acting \in [Callers -> (Steps \ {StepObserve}) \cup {0}]
    /\ fires \in [Sources -> Seq([step : Steps, at : Nat])]

\* The ladder escalates with the score: under one policy, whatever its
\* thresholds and ceiling, a higher score never gets a weaker step.
ScoreMonotone ==
    \A s, t \in Scores : s <= t => SelectStep(policy, s) <= SelectStep(policy, t)

\* A fresh install only observes and alerts: with the ceiling at alert or
\* unset, no executor beyond alert is picked for any score.
ObserveModeIsSafe ==
    \A s \in Scores : policy.max <= StepAlert => SelectStep(policy, s) <= StepAlert

\* Two concurrent verdicts, or a late one, cannot take the same step twice
\* in a row for a source within the cooldown.
RepeatSpaced ==
    \A s \in Sources \ {NoSource} : \A k \in 2..Len(fires[s]) :
        fires[s][k].step = fires[s][k - 1].step
            => fires[s][k].at >= fires[s][k - 1].at + RepeatCooldown

-----------------------------------------------------------------------------
\* containment.go:271-273: within RepeatCooldown the ladder will not
\* re-invoke the same step for the same source.
SameStepSpaced ==
    \A s \in Sources \ {NoSource} : \A j, k \in 1..Len(fires[s]) :
        (j < k /\ fires[s][k].step = fires[s][j].step /\ fires[s][j].step # StepObserve
           /\ fires[s][k].at >= fires[s][j].at)
            => fires[s][k].at >= fires[s][j].at + RepeatCooldown
=============================================================================
