------------------------- MODULE ContainmentProofs -------------------------
(***************************************************************************)
(* Proofs about the containment ladder for every set of policies, scores,  *)
(* sources and callers, and every cooldown.                                *)
(***************************************************************************)
EXTENDS Containment, TLAPS

-----------------------------------------------------------------------------
\* A set of steps that has one has a strongest one.
LEMMA StrongestExists ==
  ASSUME NEW met \in SUBSET Steps, met # {}
  PROVE  \E s \in met : \A t \in met : t <= s
<1> SUFFICES ASSUME \A s \in met : \E t \in met : t > s PROVE FALSE
  BY DEF Steps
<1>1. 9 \notin met
  BY DEF Steps
<1>2. 8 \notin met
  BY <1>1 DEF Steps
<1>3. 7 \notin met
  BY <1>1, <1>2 DEF Steps
<1>4. 6 \notin met
  BY <1>1, <1>2, <1>3 DEF Steps
<1>5. 5 \notin met
  BY <1>1, <1>2, <1>3, <1>4 DEF Steps
<1>6. 4 \notin met
  BY <1>1, <1>2, <1>3, <1>4, <1>5 DEF Steps
<1>7. 3 \notin met
  BY <1>1, <1>2, <1>3, <1>4, <1>5, <1>6 DEF Steps
<1>8. 2 \notin met
  BY <1>1, <1>2, <1>3, <1>4, <1>5, <1>6, <1>7 DEF Steps
<1>9. 1 \notin met
  BY <1>1, <1>2, <1>3, <1>4, <1>5, <1>6, <1>7, <1>8 DEF Steps
<1>10. PICK x \in met : x \in 1..9
  BY DEF Steps
<1> QED
  BY <1>1, <1>2, <1>3, <1>4, <1>5, <1>6, <1>7, <1>8, <1>9, <1>10

\* The steps SelectStep chooses from: observe, and those whose threshold is
\* set and met.
Met(p, score) == {StepObserve} \cup Reached(p, score)

\* What the CHOOSE of SelectStep gives before the ceiling is applied.
Chosen(p, score) == CHOOSE s \in Met(p, score) : \A t \in Met(p, score) : t <= s

\* SelectStep picks the strongest step that is met and cuts it at the ceiling.
LEMMA SelectStepIs ==
  ASSUME NEW p \in PolicyType, NEW score \in Nat
  PROVE  /\ Chosen(p, score) \in Met(p, score)
         /\ \A t \in Met(p, score) : t <= Chosen(p, score)
         /\ SelectStep(p, score) = IF Chosen(p, score) > Ceiling(p) THEN Ceiling(p)
                                   ELSE Chosen(p, score)
         /\ SelectStep(p, score) \in Steps
<1>1. Met(p, score) \in SUBSET Steps /\ Met(p, score) # {}
  BY DEF Met, Reached, Steps, StepObserve
<1>2. /\ Chosen(p, score) \in Met(p, score)
      /\ \A t \in Met(p, score) : t <= Chosen(p, score)
  BY <1>1, StrongestExists DEF Chosen
<1>3. SelectStep(p, score) = IF Chosen(p, score) > Ceiling(p) THEN Ceiling(p)
                             ELSE Chosen(p, score)
  BY DEF SelectStep, Chosen, Met
<1>4. Ceiling(p) \in Steps
  BY DEF Ceiling, PolicyType, Steps, StepAlert
<1> QED
  BY <1>1, <1>2, <1>3, <1>4 DEF Steps

\* A higher score meets every threshold a lower one meets, so the strongest
\* step it meets is no weaker; the ceiling keeps the order.
LEMMA SelectStepMonotone ==
  ASSUME NEW p \in PolicyType, NEW s \in Nat, NEW t \in Nat, s <= t
  PROVE  SelectStep(p, s) <= SelectStep(p, t)
<1>1. Met(p, s) \subseteq Met(p, t)
  BY DEF Met, Reached, PolicyType, Steps
<1>2. Chosen(p, s) <= Chosen(p, t)
  BY <1>1, SelectStepIs
<1>3. Chosen(p, s) \in Nat /\ Chosen(p, t) \in Nat /\ Ceiling(p) \in Nat
  BY SelectStepIs DEF Met, Reached, Ceiling, PolicyType, Steps, StepAlert, StepObserve
<1> QED
  BY <1>2, <1>3, SelectStepIs

-----------------------------------------------------------------------------
\* What is remembered of a source is the last step taken for it: this is what
\* the cooldown is compared with.
LastIsNewest ==
    \A s \in Sources :
        /\ fires[s] = <<>> => last[s] = [step |-> 0, at |-> 0]
        /\ fires[s] # <<>> => last[s] = fires[s][Len(fires[s])]

LadderInv == TypeOK /\ LastIsNewest /\ RepeatSpaced

\* A fresh ladder satisfies the invariant.
LEMMA InitLadder == Init => LadderInv
<1> SUFFICES ASSUME Init PROVE LadderInv
  OBVIOUS
<1>1. TypeOK
  BY DEF Init, TypeOK, Steps
<1>2. LastIsNewest /\ RepeatSpaced
  BY DEF Init, LastIsNewest, RepeatSpaced
<1> QED
  BY <1>1, <1>2 DEF LadderInv

\* A verdict is handled: the new step is compared with the newest one.
LEMMA HandleLadder ==
  ASSUME LadderInv, NEW c \in Callers, NEW source \in Sources,
         NEW score \in Scores, NEW at \in 0..now, Handle(c, source, score, at)
  PROVE  LadderInv'
<1> DEFINE step == SelectStep(policy, score)
           new == [step |-> step, at |-> at]
<1> USE DEF LadderInv
<1>1. step \in Steps /\ at \in Nat /\ new \in [step : Steps, at : Nat]
  BY ContainmentAssumption, SelectStepIs DEF TypeOK
<1>2. /\ last' = [last EXCEPT ![source] = new]
      /\ fires' = [fires EXCEPT ![source] = Append(@, new)]
      /\ UNCHANGED <<now, policy>>
  BY DEF Handle
<1>3. fires[source] \in Seq([step : Steps, at : Nat])
  BY DEF TypeOK
<1> HIDE DEF step, new
<1>4. TypeOK'
  <2>1. acting' \in [Callers -> (Steps \ {StepObserve}) \cup {0}]
    BY <1>1 DEF Handle, TypeOK, step
  <2>2. last' \in [Sources -> [step : Steps \cup {0}, at : Nat]]
    BY <1>1, <1>2 DEF TypeOK, new
  <2>3. fires' \in [Sources -> Seq([step : Steps, at : Nat])]
    <3>1. Append(fires[source], new) \in Seq([step : Steps, at : Nat])
      BY <1>1, <1>3
    <3> QED
      BY <1>2, <3>1 DEF TypeOK
  <2> QED
    BY <1>2, <2>1, <2>2, <2>3 DEF TypeOK
<1>5. LastIsNewest'
  BY <1>1, <1>2, <1>3 DEF LastIsNewest, TypeOK
<1>6. RepeatSpaced'
  <2> SUFFICES ASSUME NEW s \in Sources \ {NoSource}, NEW k \in 2..Len(fires'[s]),
                      fires'[s][k].step = fires'[s][k - 1].step
               PROVE  fires'[s][k].at >= fires'[s][k - 1].at + RepeatCooldown
    BY DEF RepeatSpaced
  <2>1. CASE s # source \/ k <= Len(fires[s])
    BY <1>1, <1>2, <1>3, <2>1 DEF RepeatSpaced, TypeOK
  <2>2. CASE s = source /\ k > Len(fires[s])
    <3>1. k = Len(fires[s]) + 1 /\ fires[s] # <<>>
      BY <1>1, <1>2, <1>3, <2>2 DEF TypeOK
    <3>2. fires'[s][k] = new /\ fires'[s][k - 1] = last[s]
      BY <1>1, <1>2, <1>3, <2>2, <3>1 DEF TypeOK, LastIsNewest
    <3>3. ~suppress(source, step, at)
      BY DEF Handle, step
    <3>4. last[s].at \in Nat /\ new.at = at /\ new.step = step
      BY <2>2 DEF TypeOK, new
    <3> QED
      BY <1>1, <2>2, <3>2, <3>3, <3>4, ContainmentAssumption DEF suppress
  <2> QED
    BY <2>1, <2>2, <1>3 DEF TypeOK
<1> QED
  BY <1>4, <1>5, <1>6

\* Every step keeps the invariant; only Handle touches what the cooldown is
\* about.
LEMMA NextLadder == LadderInv /\ [Next]_vars => LadderInv'
<1> SUFFICES ASSUME LadderInv, [Next]_vars PROVE LadderInv'
  OBVIOUS
<1>1. ASSUME NEW c \in Callers, NEW source \in Sources, NEW score \in Scores,
             NEW at \in 0..now, Handle(c, source, score, at)
      PROVE  LadderInv'
  BY <1>1, HandleLadder
<1>2. ASSUME NEW c \in Callers, Acted(c) PROVE LadderInv'
  <2>1. TypeOK'
    BY <1>2 DEF Acted, LadderInv, TypeOK
  <2>2. LastIsNewest' /\ RepeatSpaced'
    BY <1>2 DEF Acted, LadderInv, LastIsNewest, RepeatSpaced
  <2> QED
    BY <2>1, <2>2 DEF LadderInv
<1>3. ASSUME NEW p \in Policies, SetPolicy(p) PROVE LadderInv'
  <2>1. TypeOK'
    BY <1>3 DEF SetPolicy, LadderInv, TypeOK
  <2>2. LastIsNewest' /\ RepeatSpaced'
    BY <1>3 DEF SetPolicy, LadderInv, LastIsNewest, RepeatSpaced
  <2> QED
    BY <2>1, <2>2 DEF LadderInv
<1>4. CASE Clock
  <2>1. TypeOK'
    <3>1. now' \in Nat /\ UNCHANGED <<policy, last, acting, fires>>
      BY <1>4 DEF Clock, LadderInv, TypeOK
    <3> QED
      BY <3>1, Zenon DEF LadderInv, TypeOK
  <2>2. LastIsNewest' /\ RepeatSpaced'
    BY <1>4 DEF Clock, LadderInv, LastIsNewest, RepeatSpaced
  <2> QED
    BY <2>1, <2>2 DEF LadderInv
<1>5. CASE UNCHANGED vars
  <2>1. TypeOK'
    BY <1>5 DEF vars, LadderInv, TypeOK
  <2>2. LastIsNewest' /\ RepeatSpaced'
    BY <1>5 DEF vars, LadderInv, LastIsNewest, RepeatSpaced
  <2> QED
    BY <2>1, <2>2 DEF LadderInv
<1> QED
  BY <1>1, <1>2, <1>3, <1>4, <1>5 DEF Next

-----------------------------------------------------------------------------
\* Type correctness: whatever policies are set while callers are between the
\* decision and the executor, every pending act is a step above observe.
THEOREM LadderTypes == Spec => []TypeOK
<1> QED
  BY InitLadder, NextLadder, PTL DEF Spec, LadderInv

\* Under every policy an operator may set, also one with thresholds out of
\* order, missing thresholds or any ceiling, a higher score never gets a
\* weaker step.
THEOREM HigherScoreNeverWeaker == Spec => []ScoreMonotone
<1>1. TypeOK => ScoreMonotone
  BY SelectStepMonotone, ContainmentAssumption DEF TypeOK, ScoreMonotone
<1> QED
  BY <1>1, LadderTypes, PTL

\* With the ceiling at alert, or not set, nothing beyond alert is picked for
\* any score under any thresholds.
THEOREM FreshInstallOnlyAlerts == Spec => []ObserveModeIsSafe
<1>1. TypeOK => ObserveModeIsSafe
  <2> SUFFICES ASSUME TypeOK, NEW s \in Scores, policy.max <= StepAlert
               PROVE  SelectStep(policy, s) <= StepAlert
    BY DEF ObserveModeIsSafe
  <2>1. policy \in PolicyType /\ s \in Nat
    BY ContainmentAssumption DEF TypeOK
  <2>2. Ceiling(policy) <= StepAlert /\ Ceiling(policy) \in Nat
    BY <2>1 DEF Ceiling, PolicyType, Steps, StepAlert
  <2>3. Chosen(policy, s) \in Nat
    BY <2>1, SelectStepIs DEF Met, Reached, Steps, StepObserve
  <2> QED
    BY <2>1, <2>2, <2>3, SelectStepIs DEF StepAlert
<1> QED
  BY <1>1, LadderTypes, PTL

\* However many goroutines handle verdicts, late ones among them, the same
\* step is never taken twice in a row for a source within the cooldown.
THEOREM RepeatsAreSpaced == Spec => []RepeatSpaced
<1> QED
  BY InitLadder, NextLadder, PTL DEF Spec, LadderInv
=============================================================================
