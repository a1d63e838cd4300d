--------------------------- MODULE ResponseProofs ---------------------------
(***************************************************************************)
(* Proofs about the response plane for every set of alert goroutines,      *)
(* rules, policies, configurations, processes and scores.                  *)
(***************************************************************************)
EXTENDS Response, SequenceTheorems, TLAPS

TodoSteps == Actions \cup {"stopFirst", "killStopped", "signal"}

JobType == [todo : Seq(TodoSteps), pid : Processes \cup {NoPid}, rule : Rules \cup {"none"},
            tag : {"none", "observing", "known"}, tier : Tiers]

TypeInv ==
    /\ config \in Configs
    /\ armed \in BOOLEAN /\ pin \in BOOLEAN
    /\ procs \in [Processes -> ProcStates]
    /\ records \in [Processes -> {"none", "stopped", "resumed", "killed"}]
    /\ job \in [Goroutines -> JobType]
    /\ score \in Scores \cup {0}
    /\ state \in Tiers

\* What a held-back alert may still run, and one inside the learned envelope.
Reports == {"webhook", "signal"}
Collects == Evidence \cup Reports

\* The gates were asked at the entry; this is about the whole of what is left
\* to run: the fallback of doKill is behind a "kill" that no gated call holds.
GateInv ==
    \A g \in Dispatchers :
        /\ config.monitor /\ job[g].rule \notin EnforceRules => job[g].todo \in Seq(Reports)
        /\ job[g].tag = "observing" => job[g].todo \in Seq(Reports)
        /\ job[g].tag = "known" => job[g].todo \in Seq(Collects)

\* The planner names no process, never kills, isolates only with a bastion, runs the plan that
\* is on record, and no state it has recorded asks for more than it may do.
PlanInv ==
    /\ job[Planner].pid = NoPid
    /\ job[Planner].todo \in Seq(Actions \ {"kill"})
    /\ ~config.bastion => job[Planner].todo \in Seq(Actions \ {"kill", "hostquarantine"})
    /\ job[Planner].todo # <<>> => job[Planner].tier = state
    /\ state = 4 => config.bastion

PlaneInv == TypeInv /\ RecordsMatch /\ GateInv /\ PlanInv

-----------------------------------------------------------------------------
\* The two orders hold only what the mask allows.
LEMMA OrdersKeepMask ==
  ASSUME NEW mask
  PROVE  AlertOrder(mask) \in Seq(mask) /\ PlanOrder(mask) \in Seq(mask)
<1>1. \A a : If(mask, a) \in Seq(mask)
  BY DEF If
<1>2. \A s, t \in Seq(mask) : s \o t \in Seq(mask)
  OBVIOUS
<1> HIDE DEF If
<1>3. AlertOrder(mask) \in Seq(mask)
  BY <1>1, <1>2 DEF AlertOrder
<1>4. PlanOrder(mask) \in Seq(mask)
  BY <1>1, <1>2 DEF PlanOrder
<1>5. QED
  BY <1>3, <1>4

\* A sequence over a set is one over every larger set.
LEMMA SeqWiden ==
  ASSUME NEW A, NEW B, A \subseteq B, NEW s \in Seq(A)
  PROVE  s \in Seq(B)
OBVIOUS

\* The parts of ResponseAssumption the proofs use.
LEMMA NoPidApart == NoPid \notin Processes /\ Planner \in Goroutines /\ Planner \notin Dispatchers
BY ResponseAssumption DEF Processes, Goroutines

\* The job of an idle goroutine, and that of an alert that is only passed on.
LEMMA EmptyJobs == NoJob \in JobType /\ SignalOnly \in JobType
<1>1. <<>> \in Seq(TodoSteps) /\ <<"signal">> \in Seq(TodoSteps)
  BY DEF TodoSteps
<1>2. NoJob \in JobType
  BY <1>1 DEF NoJob, JobType, Tiers
<1>3. [NoJob EXCEPT !.todo = <<"signal">>] \in JobType
  BY <1>1, <1>2 DEF JobType
<1>4. QED
  BY <1>2, <1>3 DEF SignalOnly

\* Continue moves one goroutine on, and keeps what its call is for until the
\* call is over.
LEMMA ContinueIs ==
  ASSUME job \in [Goroutines -> JobType], NEW g \in Goroutines, ~Idle(g),
         NEW rest \in Seq(TodoSteps), Continue(g, rest)
  PROVE  /\ job' \in [Goroutines -> JobType]
         /\ \A h \in Goroutines \ {g} : job'[h] = job[h]
         /\ job'[g].todo = rest \o Tail(job[g].todo)
         /\ \/ job'[g] \in {NoJob, SignalOnly}
            \/ job'[g].rule = job[g].rule /\ job'[g].tag = job[g].tag /\ job'[g].tier = job[g].tier
         /\ job'[g].pid \in {NoPid, job[g].pid}
         /\ job'[g] = SignalOnly => job'[g].todo = <<"signal">>
<1> DEFINE todo == rest \o Tail(job[g].todo)
           next == CASE todo = <<>> -> NoJob
                     [] todo = <<"signal">> -> SignalOnly
                     [] OTHER -> [job[g] EXCEPT !.todo = todo]
<1>1. job[g] \in JobType /\ job[g].todo \in Seq(TodoSteps) /\ job[g].todo # <<>>
  BY DEF JobType, Idle
<1>2. Tail(job[g].todo) \in Seq(TodoSteps)
  BY <1>1
<1>3. todo \in Seq(TodoSteps)
  BY <1>2
<1>4. job' = [job EXCEPT ![g] = next]
  BY DEF Continue
<1> HIDE DEF todo
<1>5. [job[g] EXCEPT !.todo = todo] \in JobType
  BY <1>1, <1>3 DEF JobType
<1>6. next \in JobType /\ next.todo = todo
  BY <1>1, <1>5, EmptyJobs DEF NoJob, SignalOnly, JobType
<1>7. \/ next \in {NoJob, SignalOnly}
      \/ next.rule = job[g].rule /\ next.tag = job[g].tag /\ next.tier = job[g].tier
  BY <1>1 DEF JobType
<1>8. next = SignalOnly => next.todo = <<"signal">>
  BY DEF SignalOnly, NoJob
<1>11. next.pid \in {NoPid, job[g].pid}
  BY <1>1 DEF SignalOnly, NoJob, JobType
<1> HIDE DEF next
<1>9. job' \in [Goroutines -> JobType] /\ job'[g] = next /\ \A h \in Goroutines \ {g} : job'[h] = job[h]
  BY <1>4, <1>6
<1>10. QED
  BY <1>6, <1>7, <1>8, <1>9, <1>11 DEF todo

\* What is left of a sequence over S is one over S.
LEMMA RestKept ==
  ASSUME NEW S, NEW s \in Seq(S), s # <<>>
  PROVE  Head(s) \in S /\ <<>> \o Tail(s) \in Seq(S) /\ Tail(s) \in Seq(S) /\ <<>> \o Tail(s) = Tail(s)
OBVIOUS

-----------------------------------------------------------------------------
\* A daemon that has just started satisfies the invariant.
LEMMA InitPlane == Init => PlaneInv
<1> SUFFICES ASSUME Init PROVE PlaneInv
  OBVIOUS
<1>1. TypeInv
  <2>1. job \in [Goroutines -> JobType]
    BY EmptyJobs DEF Init
  <2>2. state \in Tiers
    BY DEF Init, Tiers
  <2>3. QED
    BY <2>1, <2>2 DEF Init, TypeInv, ProcStates
<1>2. RecordsMatch
  BY DEF Init, RecordsMatch
<1>3. \A g \in Goroutines : job[g].todo = <<>>
  BY DEF Init, NoJob
<1>4. GateInv
  <2>1. Dispatchers \subseteq Goroutines
    BY DEF Goroutines
  <2>2. <<>> \in Seq(Reports) /\ <<>> \in Seq(Collects)
    OBVIOUS
  <2>3. QED
    BY <1>3, <2>1, <2>2 DEF GateInv
<1>5. PlanInv
  <2>1. <<>> \in Seq(Actions \ {"kill"}) /\ <<>> \in Seq(Actions \ {"kill", "hostquarantine"})
    OBVIOUS
  <2>2. job[Planner].todo = <<>> /\ job[Planner].pid = NoPid /\ state # 4
    BY <1>3, NoPidApart DEF Init, NoJob
  <2>3. QED
    BY <2>1, <2>2 DEF PlanInv
<1>6. QED
  BY <1>1, <1>2, <1>4, <1>5 DEF PlaneInv

\* What the gates leave of a rule's policy.
LEMMA MaskIsGated ==
  ASSUME NEW rule \in Rules, NEW tag \in {"none", "observing", "known"}
  PROVE  /\ Mask(rule, tag) \subseteq Actions
         /\ config.monitor /\ rule \notin EnforceRules => Mask(rule, tag) \subseteq {"webhook"}
         /\ tag = "observing" => Mask(rule, tag) \subseteq {"webhook"}
         /\ tag = "known" => Mask(rule, tag) \subseteq Evidence \cup {"webhook"}
<1>1. Policy[rule] \subseteq Actions
  BY ResponseAssumption
<1>2. /\ Stripped(Policy[rule], rule) \subseteq Actions
      /\ config.monitor /\ rule \notin EnforceRules => Stripped(Policy[rule], rule) \subseteq {"webhook"}
  BY <1>1 DEF Stripped
<1>3. QED
  BY <1>2 DEF Mask

\* OnAlert lists calls that its gates allow.
LEMMA OnAlertPlane ==
  ASSUME PlaneInv, NEW g \in Dispatchers, NEW rule \in Rules, NEW pid \in AlertPids,
         NEW tag \in {"none", "observing", "known"}, OnAlert(g, rule, pid, tag)
  PROVE  PlaneInv'
<1> DEFINE actions == AlertActions(rule, tag)
           full == [todo |-> Append(actions, "signal"), pid |-> pid,
                    rule |-> rule, tag |-> tag, tier |-> 0]
           new == IF actions = <<>> THEN SignalOnly ELSE full
<1>0. g \in Goroutines /\ g # Planner
  BY NoPidApart DEF Goroutines
<1>1. /\ job' = [job EXCEPT ![g] = new]
      /\ UNCHANGED <<config, armed, pin, procs, records, score, state>>
  BY DEF OnAlert
<1>2. \A S : Mask(rule, tag) \subseteq S => actions \in Seq(S)
  <2>1. actions \in Seq(Mask(rule, tag))
    BY OrdersKeepMask DEF AlertActions
  <2>2. QED
    BY <2>1, SeqWiden
<1>3. \A S : "signal" \in S /\ Mask(rule, tag) \subseteq S => Append(actions, "signal") \in Seq(S)
  BY <1>2
<1> HIDE DEF actions
<1>4. full.todo = Append(actions, "signal") /\ full.rule = rule /\ full.tag = tag
  OBVIOUS
<1>5. full \in JobType
  <2>1. Append(actions, "signal") \in Seq(TodoSteps)
    BY <1>3, MaskIsGated DEF TodoSteps
  <2>2. pid \in Processes \cup {NoPid}
    BY ResponseAssumption DEF Processes
  <2>3. QED
    BY <2>1, <2>2 DEF JobType, Tiers
<1>6. SignalOnly.todo = <<"signal">> /\ <<"signal">> \in Seq(Reports) /\ <<"signal">> \in Seq(Collects)
  BY DEF SignalOnly, NoJob, Reports, Collects
<1>7. /\ config.monitor /\ new.rule \notin EnforceRules => new.todo \in Seq(Reports)
      /\ new.tag = "observing" => new.todo \in Seq(Reports)
      /\ new.tag = "known" => new.todo \in Seq(Collects)
  <2>1. CASE actions = <<>>
    BY <2>1, <1>6
  <2>2. CASE actions # <<>>
    <3> HIDE DEF full
    <3>1. new = full
      BY <2>2
    <3>2. config.monitor /\ rule \notin EnforceRules => Append(actions, "signal") \in Seq(Reports)
      BY <1>3, MaskIsGated DEF Reports
    <3>3. tag = "observing" => Append(actions, "signal") \in Seq(Reports)
      BY <1>3, MaskIsGated DEF Reports
    <3>4. tag = "known" => Append(actions, "signal") \in Seq(Collects)
      BY <1>3, MaskIsGated DEF Reports, Collects
    <3>5. QED
      BY <3>1, <3>2, <3>3, <3>4, <1>4
  <2>3. QED
    BY <2>1, <2>2
<1>8. new \in JobType
  BY <1>5, EmptyJobs
<1> HIDE DEF new
<1>9. job \in [Goroutines -> JobType]
  BY DEF PlaneInv, TypeInv
<1>10. job' \in [Goroutines -> JobType] /\ job'[g] = new /\ \A h \in Goroutines \ {g} : job'[h] = job[h]
  BY <1>0, <1>1, <1>8, <1>9
<1>11. TypeInv'
  BY <1>1, <1>10 DEF PlaneInv, TypeInv
<1>12. RecordsMatch'
  BY <1>1 DEF PlaneInv, RecordsMatch
<1>13. GateInv'
  <2> SUFFICES ASSUME NEW h \in Dispatchers
               PROVE  (/\ config.monitor /\ job[h].rule \notin EnforceRules => job[h].todo \in Seq(Reports)
                       /\ job[h].tag = "observing" => job[h].todo \in Seq(Reports)
                       /\ job[h].tag = "known" => job[h].todo \in Seq(Collects))'
    BY DEF GateInv
  <2>1. h \in Goroutines
    BY DEF Goroutines
  <2>2. CASE h = g
    BY <2>2, <1>1, <1>7, <1>10
  <2>3. CASE h # g
    <3>1. job'[h] = job[h] /\ config' = config
      BY <2>1, <2>3, <1>1, <1>10
    <3>2. QED
      BY <3>1 DEF PlaneInv, GateInv
  <2>4. QED
    BY <2>2, <2>3
<1>14. PlanInv'
  <2>1. job'[Planner] = job[Planner]
    BY <1>0, <1>10, NoPidApart
  <2>2. QED
    BY <2>1, <1>1 DEF PlaneInv, PlanInv
<1>15. QED
  BY <1>11, <1>12, <1>13, <1>14 DEF PlaneInv

\* The planned tier: what the plan holds, and why the log always takes it.
LEMMA PlannedTierIs ==
  ASSUME TypeInv, state = 4 => config.bastion
  PROVE  /\ PlannedTier \in Tiers /\ PlannedTier >= state
         /\ PlannedTier = 4 => config.bastion
         /\ CanTransition(state, PlannedTier)
<1>1. state \in 0..4 /\ score \in 0..100
  BY ResponseAssumption DEF TypeInv, Tiers
<1>2. tierFromScore(score) \in 0..4
  BY <1>1 DEF tierFromScore
<1>3. PlannedTier \in 0..4 /\ PlannedTier >= state /\ (PlannedTier = 4 => config.bastion)
  BY <1>1, <1>2 DEF PlannedTier
<1>4. ASSUME NEW t \in 0..4, t >= state
      PROVE  CanTransition(state, t)
  <2>1. CASE state = 0
    BY <1>4, <2>1 DEF CanTransition
  <2>2. CASE state = 1
    BY <1>4, <2>2 DEF CanTransition
  <2>3. CASE state = 2
    BY <1>4, <2>3 DEF CanTransition
  <2>4. CASE state = 3
    BY <1>4, <2>4 DEF CanTransition
  <2>5. CASE state = 4
    BY <1>4, <2>5 DEF CanTransition
  <2>6. QED
    BY <1>1, <2>1, <2>2, <2>3, <2>4, <2>5
<1>5. QED
  BY <1>3, <1>4 DEF Tiers

\* A tick of the planner records the state before it lists the calls of its plan.
LEMMA TickOncePlane ==
  ASSUME PlaneInv, NEW attributed \in BOOLEAN, TickOnce(attributed)
  PROVE  PlaneInv'
<1> DEFINE actions == IF armed THEN <<>> ELSE PlanOrder(PlanActions(PlannedTier, attributed))
           full == [NoJob EXCEPT !.todo = actions, !.tier = PlannedTier]
           new == IF actions = <<>> THEN NoJob ELSE full
<1>1. /\ job' = [job EXCEPT ![Planner] = new]
      /\ state' = IF CanTransition(state, PlannedTier) THEN PlannedTier ELSE state
      /\ UNCHANGED <<config, armed, pin, procs, records, score>>
  BY DEF TickOnce
<1>2. /\ PlannedTier \in Tiers /\ (PlannedTier = 4 => config.bastion)
      /\ CanTransition(state, PlannedTier)
  BY PlannedTierIs DEF PlaneInv, PlanInv
<1>3. state' = PlannedTier
  BY <1>1, <1>2
<1>4. /\ PlanActions(PlannedTier, attributed) \subseteq Actions \ {"kill"}
      /\ ~config.bastion => PlanActions(PlannedTier, attributed) \subseteq Actions \ {"kill", "hostquarantine"}
  BY <1>2 DEF PlanActions, Actions, Evidence, Destructive, Tiers
<1>5. \A S : PlanActions(PlannedTier, attributed) \subseteq S => actions \in Seq(S)
  <2>1. actions \in Seq(PlanActions(PlannedTier, attributed))
    BY OrdersKeepMask
  <2> HIDE DEF actions
  <2>2. QED
    BY <2>1, SeqWiden
<1> HIDE DEF actions
<1>6. full.todo = actions /\ full.tier = PlannedTier
  BY DEF NoJob
<1>7. actions \in Seq(TodoSteps)
  BY <1>4, <1>5 DEF TodoSteps
<1>8. full \in JobType
  BY <1>2, <1>7 DEF NoJob, JobType
<1>9. new \in JobType /\ new.todo = actions /\ (new.todo # <<>> => new.tier = PlannedTier) /\ new.pid = NoPid
  <2>1. NoJob.todo = <<>> /\ NoJob.pid = NoPid /\ full.pid = NoPid
    BY DEF NoJob
  <2> HIDE DEF full
  <2>2. QED
    BY <1>6, <1>8, <2>1, EmptyJobs
<1> HIDE DEF new
<1>10. job' \in [Goroutines -> JobType] /\ job'[Planner] = new
        /\ \A h \in Goroutines \ {Planner} : job'[h] = job[h]
  BY <1>1, <1>9, NoPidApart DEF PlaneInv, TypeInv
<1>11. TypeInv'
  BY <1>1, <1>2, <1>3, <1>10 DEF PlaneInv, TypeInv
<1>12. RecordsMatch'
  BY <1>1 DEF PlaneInv, RecordsMatch
<1>13. GateInv'
  <2>1. \A g \in Dispatchers : job'[g] = job[g]
    BY <1>10, NoPidApart DEF Goroutines
  <2>2. config' = config
    BY <1>1
  <2>3. QED
    BY <2>1, <2>2 DEF PlaneInv, GateInv
<1>14. PlanInv'
  <2>1. new.todo \in Seq(Actions \ {"kill"})
    BY <1>4, <1>5, <1>9
  <2>2. ~config.bastion => new.todo \in Seq(Actions \ {"kill", "hostquarantine"})
    BY <1>4, <1>5, <1>9
  <2>3. QED
    BY <1>1, <1>2, <1>3, <1>9, <1>10, <2>1, <2>2 DEF PlanInv
<1>15. QED
  BY <1>11, <1>12, <1>13, <1>14 DEF PlaneInv

-----------------------------------------------------------------------------
\* Stop and Kill keep records and processes in step.
LEMMA BackendKeepsRecords ==
  ASSUME PlaneInv, NEW p \in Processes \cup {NoPid}, TryStop(p) \/ TryKill(p)
  PROVE  /\ procs' \in [Processes -> ProcStates]
         /\ records' \in [Processes -> {"none", "stopped", "resumed", "killed"}]
         /\ RecordsMatch'
<1>1. /\ procs \in [Processes -> ProcStates]
      /\ records \in [Processes -> {"none", "stopped", "resumed", "killed"}]
      /\ RecordsMatch
  BY DEF PlaneInv, TypeInv
<1>2. CASE UNCHANGED <<procs, records>>
  BY <1>1, <1>2 DEF RecordsMatch
<1>3. CASE /\ procs' = [procs EXCEPT ![p] = "stopped"]
           /\ records' = [records EXCEPT ![p] = "stopped"]
  BY <1>1, <1>3 DEF RecordsMatch, ProcStates
<1>4. CASE Kill(p)
  BY <1>1, <1>4 DEF RecordsMatch, ProcStates, Kill
<1>5. QED
  BY <1>2, <1>3, <1>4 DEF TryStop, TryKill, Stop

\* One backend call: what is left of the call is its tail, or the fallback of
\* doKill in place of the "kill" at its head.
LEMMA RunActionIs ==
  ASSUME PlaneInv, NEW g \in Goroutines, RunAction(g)
  PROVE  /\ job[g].todo # <<>>
         /\ \E rest \in {<<>>, <<"stopFirst", "killStopped">>} :
               /\ Continue(g, rest)
               /\ rest # <<>> => Head(job[g].todo) = "kill"
         /\ procs' \in [Processes -> ProcStates]
         /\ records' \in [Processes -> {"none", "stopped", "resumed", "killed"}]
         /\ RecordsMatch'
         /\ score' \in Scores \cup {0}
         /\ UNCHANGED <<config, armed, pin, state>>
<1> DEFINE a == Head(job[g].todo)
           p == job[g].pid
<1>1. /\ job[g].todo # <<>>
      /\ UNCHANGED <<config, armed, pin, state>>
  BY DEF RunAction, Idle
<1>2. p \in Processes \cup {NoPid}
  BY DEF PlaneInv, TypeInv, JobType
<1>3. /\ procs \in [Processes -> ProcStates]
      /\ records \in [Processes -> {"none", "stopped", "resumed", "killed"}]
      /\ RecordsMatch /\ score \in Scores \cup {0}
  BY DEF PlaneInv, TypeInv
<1>4. ASSUME UNCHANGED <<procs, records>>
      PROVE  /\ procs' \in [Processes -> ProcStates]
             /\ records' \in [Processes -> {"none", "stopped", "resumed", "killed"}]
             /\ RecordsMatch'
  BY <1>3, <1>4 DEF RecordsMatch
<1>5. CASE /\ Continue(g, <<>>)
           /\ UNCHANGED <<procs, records>>
           /\ score' \in Scores \cup {score}
  BY <1>1, <1>3, <1>4, <1>5
<1>6. CASE /\ TryStop(p) \/ TryKill(p)
           /\ Continue(g, <<>>)
           /\ UNCHANGED score
  <2>1. /\ procs' \in [Processes -> ProcStates]
        /\ records' \in [Processes -> {"none", "stopped", "resumed", "killed"}]
        /\ RecordsMatch'
    BY <1>2, <1>6, BackendKeepsRecords
  <2>2. QED
    BY <1>1, <1>3, <1>6, <2>1
<1>7. CASE /\ a = "kill"
           /\ TryKill(p)
           /\ Continue(g, IF KillRefused(p) /\ p # NoPid THEN <<"stopFirst", "killStopped">> ELSE <<>>)
           /\ UNCHANGED score
  <2>1. /\ procs' \in [Processes -> ProcStates]
        /\ records' \in [Processes -> {"none", "stopped", "resumed", "killed"}]
        /\ RecordsMatch'
    BY <1>2, <1>7, BackendKeepsRecords
  <2>2. QED
    BY <1>1, <1>3, <1>7, <2>1
<1>8. QED
  BY <1>5, <1>6, <1>7 DEF RunAction

\* A call that holds only steps of S, no "kill" among them, goes on to hold
\* only those.
LEMMA RunActionKeeps ==
  ASSUME NEW S, "kill" \notin S, NEW s \in Seq(S), s # <<>>,
         NEW rest, rest # <<>> => Head(s) = "kill"
  PROVE  rest \o Tail(s) \in Seq(S)
<1>1. Head(s) \in S /\ <<>> \o Tail(s) \in Seq(S)
  BY RestKept
<1>2. rest = <<>>
  BY <1>1
<1>3. QED
  BY <1>1, <1>2

\* One call of a backend keeps process and record in step.
LEMMA RunActionPlane ==
  ASSUME PlaneInv, NEW g \in Goroutines, RunAction(g)
  PROVE  PlaneInv'
<1>1. /\ job[g].todo # <<>>
      /\ procs' \in [Processes -> ProcStates]
      /\ records' \in [Processes -> {"none", "stopped", "resumed", "killed"}]
      /\ RecordsMatch'
      /\ score' \in Scores \cup {0}
      /\ UNCHANGED <<config, armed, pin, state>>
  BY RunActionIs
<1>2. PICK rest \in {<<>>, <<"stopFirst", "killStopped">>} :
            Continue(g, rest) /\ (rest # <<>> => Head(job[g].todo) = "kill")
  BY RunActionIs
<1>3. rest \in Seq(TodoSteps)
  <2>1. <<>> \in Seq(TodoSteps) /\ <<"stopFirst", "killStopped">> \in Seq(TodoSteps)
    BY DEF TodoSteps
  <2>2. QED
    BY <1>2, <2>1
<1>4. /\ job' \in [Goroutines -> JobType]
      /\ \A h \in Goroutines \ {g} : job'[h] = job[h]
      /\ job'[g].todo = rest \o Tail(job[g].todo)
      /\ \/ job'[g] \in {NoJob, SignalOnly}
         \/ job'[g].rule = job[g].rule /\ job'[g].tag = job[g].tag /\ job'[g].tier = job[g].tier
      /\ job'[g].pid \in {NoPid, job[g].pid}
      /\ job'[g] = SignalOnly => job'[g].todo = <<"signal">>
  BY <1>1, <1>2, <1>3, ContinueIs DEF PlaneInv, TypeInv, Idle
<1>5. \A S : "kill" \notin S /\ job[g].todo \in Seq(S) => job'[g].todo \in Seq(S)
  BY <1>1, <1>2, <1>4, RunActionKeeps
<1>6. TypeInv'
  BY <1>1, <1>4 DEF PlaneInv, TypeInv
<1>7. GateInv'
  <2> SUFFICES ASSUME NEW h \in Dispatchers
               PROVE  (/\ config.monitor /\ job[h].rule \notin EnforceRules => job[h].todo \in Seq(Reports)
                       /\ job[h].tag = "observing" => job[h].todo \in Seq(Reports)
                       /\ job[h].tag = "known" => job[h].todo \in Seq(Collects))'
    BY DEF GateInv
  <2>1. h \in Goroutines
    BY DEF Goroutines
  <2>2. /\ config.monitor /\ job[h].rule \notin EnforceRules => job[h].todo \in Seq(Reports)
        /\ job[h].tag = "observing" => job[h].todo \in Seq(Reports)
        /\ job[h].tag = "known" => job[h].todo \in Seq(Collects)
    BY DEF PlaneInv, GateInv
  <2>3. CASE h # g
    <3>1. job'[h] = job[h] /\ config' = config
      BY <2>1, <2>3, <1>1, <1>4
    <3>2. QED
      BY <3>1, <2>2
  <2>4. CASE h = g /\ job'[g] \in {NoJob, SignalOnly}
    <3>1. /\ NoJob.todo = <<>> /\ SignalOnly.todo = <<"signal">>
          /\ <<>> \in Seq(Reports) /\ <<"signal">> \in Seq(Reports)
          /\ <<>> \in Seq(Collects) /\ <<"signal">> \in Seq(Collects)
      BY DEF NoJob, SignalOnly, Reports, Collects
    <3>2. QED
      BY <2>4, <3>1
  <2>5. CASE h = g /\ job'[g].rule = job[g].rule /\ job'[g].tag = job[g].tag
    <3>1. "kill" \notin Reports /\ "kill" \notin Collects
      BY DEF Reports, Collects, Evidence
    <3>2. QED
      BY <2>2, <2>5, <3>1, <1>1, <1>5
  <2>6. QED
    BY <2>3, <2>4, <2>5, <1>4
<1>8. PlanInv'
  <2>1. PlanInv /\ UNCHANGED <<config, state>>
    BY <1>1 DEF PlaneInv
  <2>2. CASE g # Planner
    <3>1. job'[Planner] = job[Planner]
      BY <2>2, <1>4, NoPidApart
    <3>2. QED
      BY <2>1, <3>1 DEF PlanInv
  <2>3. CASE g = Planner
    <3>1. job'[Planner].todo \in Seq(Actions \ {"kill"})
      BY <2>1, <2>3, <1>5 DEF PlanInv
    <3>2. ~config.bastion => job'[Planner].todo \in Seq(Actions \ {"kill", "hostquarantine"})
      BY <2>1, <2>3, <1>5 DEF PlanInv
    <3>3. job'[Planner].todo # <<>> => job'[Planner].tier = state
      <4>1. CASE job'[g] = NoJob
        BY <2>3, <4>1 DEF NoJob
      <4>2. CASE job'[g] = SignalOnly
        <5>1. job'[Planner].todo = <<"signal">>
          BY <2>3, <4>2, <1>4
        <5>2. Head(job'[Planner].todo) = "signal" /\ job'[Planner].todo # <<>>
          BY <5>1
        <5>3. Head(job'[Planner].todo) \in Actions \ {"kill"}
          BY <3>1, <5>2, RestKept
        <5>4. QED
          BY <5>2, <5>3 DEF Actions, Evidence, Destructive
      <4>3. CASE job'[g].tier = job[g].tier
        BY <2>1, <2>3, <4>3, <1>1 DEF PlanInv
      <4>4. QED
        BY <1>4, <4>1, <4>2, <4>3
    <3>4. job'[Planner].pid = NoPid
      BY <2>1, <2>3, <1>4 DEF PlanInv
    <3>5. QED
      BY <2>1, <3>1, <3>2, <3>3, <3>4 DEF PlanInv
  <2>4. QED
    BY <2>2, <2>3
<1>9. QED
  BY <1>1, <1>6, <1>7, <1>8 DEF PlaneInv

\* The operator, the kernel and the clock.
LEMMA OthersPlane ==
  ASSUME PlaneInv,
         (\E p \in Processes : Resume(p) \/ OperatorKill(p) \/ Exit(p) \/ Spawn(p))
            \/ Expire \/ Arm \/ Disarm
  PROVE  PlaneInv'
<1>1. UNCHANGED <<config, job, state>>
  BY DEF Resume, OperatorKill, Exit, Spawn, Expire, Arm, Disarm
<1>2. GateInv' /\ PlanInv'
  BY <1>1 DEF PlaneInv, GateInv, PlanInv
<1>3. /\ procs \in [Processes -> ProcStates]
      /\ records \in [Processes -> {"none", "stopped", "resumed", "killed"}]
      /\ RecordsMatch
  BY DEF PlaneInv, TypeInv
<1>4. /\ procs' \in [Processes -> ProcStates]
      /\ records' \in [Processes -> {"none", "stopped", "resumed", "killed"}]
      /\ RecordsMatch'
  <2>1. ASSUME NEW p \in Processes, Resume(p)
        PROVE  <1>4!:
    BY <1>3, <2>1 DEF Resume, RecordsMatch, ProcStates
  <2>2. ASSUME NEW p \in Processes, Exit(p)
        PROVE  <1>4!:
    BY <1>3, <2>2 DEF Exit, RecordsMatch, ProcStates
  <2>3. ASSUME NEW p \in Processes, Spawn(p)
        PROVE  <1>4!:
    BY <1>3, <2>3 DEF Spawn, RecordsMatch, ProcStates
  <2>4. CASE Expire \/ Arm \/ Disarm
    BY <1>3, <2>4 DEF Expire, Arm, Disarm, RecordsMatch
  <2>5. ASSUME NEW p \in Processes, OperatorKill(p)
        PROVE  <1>4!:
    BY <1>3, <2>5 DEF OperatorKill, Kill, RecordsMatch, ProcStates
  <2>6. QED
    BY <2>1, <2>2, <2>3, <2>4, <2>5
<1>5. armed' \in BOOLEAN /\ pin' \in BOOLEAN /\ score' \in Scores \cup {0}
  BY DEF PlaneInv, TypeInv, Resume, OperatorKill, Exit, Spawn, Expire, Arm, Disarm
<1>6. TypeInv'
  BY <1>1, <1>4, <1>5 DEF PlaneInv, TypeInv
<1>7. QED
  BY <1>2, <1>4, <1>6 DEF PlaneInv

\* A restart forgets records and jobs; what was stopped is orphaned.
LEMMA RestartPlane ==
  ASSUME PlaneInv, Restart
  PROVE  PlaneInv'
<1>1. \A g \in Goroutines : job'[g].todo = <<>>
  BY DEF Restart, NoJob
<1>2. GateInv'
  <2>1. \A g \in Dispatchers : job'[g].todo = <<>>
    BY <1>1 DEF Goroutines
  <2>2. <<>> \in Seq(Reports) /\ <<>> \in Seq(Collects)
    OBVIOUS
  <2>3. QED
    BY <2>1, <2>2 DEF GateInv
<1>3. PlanInv'
  <2>1. <<>> \in Seq(Actions \ {"kill"}) /\ <<>> \in Seq(Actions \ {"kill", "hostquarantine"})
    OBVIOUS
  <2>2. job'[Planner].todo = <<>> /\ job'[Planner].pid = NoPid /\ state' = 0
    BY <1>1, NoPidApart DEF Restart, NoJob
  <2>3. QED
    BY <2>1, <2>2 DEF PlanInv
<1>4. procs' \in [Processes -> ProcStates] /\ \A p \in Processes : procs'[p] # "stopped"
  <2>1. procs \in [Processes -> ProcStates]
    BY DEF PlaneInv, TypeInv
  <2>2. QED
    BY <2>1 DEF Restart, ProcStates
<1>5. RecordsMatch'
  BY <1>4 DEF Restart, RecordsMatch
<1>6. job' \in [Goroutines -> JobType]
  BY EmptyJobs DEF Restart
<1>7. state' \in Tiers
  BY DEF Restart, Tiers
<1>8. records' \in [Processes -> {"none", "stopped", "resumed", "killed"}]
  BY DEF Restart
<1>9. config' = config /\ armed' \in BOOLEAN /\ pin' \in BOOLEAN /\ score' = 0
  BY DEF Restart, PlaneInv, TypeInv
<1>10. TypeInv'
  BY <1>4, <1>6, <1>7, <1>8, <1>9 DEF PlaneInv, TypeInv
<1>11. QED
  BY <1>2, <1>3, <1>5, <1>10 DEF PlaneInv

\* Every step keeps the invariant.
LEMMA PlaneInductive == PlaneInv /\ [Next]_vars => PlaneInv'
<1> SUFFICES ASSUME PlaneInv, [Next]_vars
             PROVE  PlaneInv'
  OBVIOUS
<1>1. CASE UNCHANGED vars
  <2>1. TypeInv' /\ RecordsMatch'
    BY <1>1 DEF PlaneInv, TypeInv, RecordsMatch, vars
  <2>2. GateInv' /\ PlanInv'
    BY <1>1 DEF PlaneInv, GateInv, PlanInv, vars
  <2>3. QED
    BY <2>1, <2>2 DEF PlaneInv
<1>2. CASE \E g \in Dispatchers, rule \in Rules, pid \in AlertPids,
              tag \in {"none", "observing", "known"} : OnAlert(g, rule, pid, tag)
  BY <1>2, OnAlertPlane
<1>3. CASE \E attributed \in BOOLEAN : TickOnce(attributed)
  BY <1>3, TickOncePlane
<1>4. CASE \E g \in Goroutines : RunAction(g)
  BY <1>4, RunActionPlane
<1>5. CASE (\E p \in Processes : Resume(p) \/ OperatorKill(p) \/ Exit(p) \/ Spawn(p))
              \/ Expire \/ Arm \/ Disarm
  BY <1>5, OthersPlane
<1>6. CASE Restart
  BY <1>6, RestartPlane
<1>7. QED
  BY <1>1, <1>2, <1>3, <1>4, <1>5, <1>6 DEF Next

\* The invariant holds in every behaviour.
LEMMA PlaneInvariant == Spec => []PlaneInv
BY InitPlane, PlaneInductive, PTL DEF Spec

-----------------------------------------------------------------------------
\* The state stays in its domain.
THEOREM PlaneTypes == Spec => []TypeOK
<1>1. PlaneInv => TypeOK
  <2> SUFFICES ASSUME PlaneInv PROVE TypeOK
    OBVIOUS
  <2>1. ASSUME NEW g \in Goroutines
        PROVE  /\ Todo(g) \subseteq Actions \cup {"stopFirst", "killStopped", "signal"}
               /\ job[g].pid \in Processes \cup {NoPid}
               /\ job[g].tier \in Tiers
    <3>1. job[g] \in JobType
      BY DEF PlaneInv, TypeInv
    <3>2. job[g].todo \in Seq(TodoSteps)
      BY <3>1 DEF JobType
    <3>3. Todo(g) \subseteq TodoSteps
      BY <3>2, RangeOfSeq DEF Todo
    <3>4. QED
      BY <3>1, <3>3 DEF JobType, TodoSteps
  <2>2. QED
    BY <2>1 DEF PlaneInv, TypeInv, TypeOK
<1>2. QED
  BY <1>1, PlaneInvariant, PTL

\* Stop, Kill and Resume of any number of concurrent alerts and operators,
\* with exits, reused pids and restarts between them, never lose a stopped
\* process: it stays on record, and what is on record is stopped.
THEOREM StoppedAreOnRecord == Spec => []RecordsMatch
<1>1. PlaneInv => RecordsMatch
  BY DEF PlaneInv
<1>2. QED
  BY <1>1, PlaneInvariant, PTL

\* A backend call that changes a process is a signal, and changes the process
\* its goroutine was asked about.
LEMMA SignalIs ==
  ASSUME PlaneInv, NEW g \in Goroutines, RunAction(g), NEW p \in Processes, procs'[p] # procs[p]
  PROVE  /\ Head(job[g].todo) \in {"quarantine", "stopFirst", "kill", "killStopped"}
         /\ job[g].pid = p
<1>1. procs \in [Processes -> ProcStates]
  BY DEF PlaneInv, TypeInv
<1>2. ASSUME NEW q, TryStop(q) \/ TryKill(q)
      PROVE  q = p
  BY <1>1, <1>2 DEF TryStop, TryKill, Stop, Kill
<1>3. QED
  BY <1>2 DEF RunAction

\* A backend call moves its goroutine on.
LEMMA CallMoves ==
  ASSUME PlaneInv, NEW g \in Goroutines, RunAction(g)
  PROVE  job'[g] # job[g]
<1>1. /\ job[g].todo # <<>> /\ job[g].todo \in Seq(TodoSteps)
      /\ job \in [Goroutines -> JobType]
  BY RunActionIs DEF PlaneInv, TypeInv, JobType
<1>2. PICK rest \in {<<>>, <<"stopFirst", "killStopped">>} : Continue(g, rest)
  BY RunActionIs
<1>3. rest \in Seq(TodoSteps) /\ Len(rest) \in {0, 2}
  <2>1. /\ <<>> \in Seq(TodoSteps) /\ Len(<<>>) = 0
        /\ <<"stopFirst", "killStopped">> \in Seq(TodoSteps) /\ Len(<<"stopFirst", "killStopped">>) = 2
    BY DEF TodoSteps
  <2>2. QED
    BY <1>2, <2>1
<1>4. job'[g].todo = rest \o Tail(job[g].todo)
  BY <1>1, <1>2, <1>3, ContinueIs DEF Idle
<1>5. Len(rest \o Tail(job[g].todo)) # Len(job[g].todo)
  <2>1. Tail(job[g].todo) \in Seq(TodoSteps) /\ Len(Tail(job[g].todo)) = Len(job[g].todo) - 1
    BY <1>1
  <2>2. Len(rest \o Tail(job[g].todo)) = Len(rest) + Len(Tail(job[g].todo))
    BY <1>3, <2>1
  <2>3. Len(job[g].todo) \in Nat
    BY <1>1
  <2>4. ASSUME NEW m \in Nat, NEW k \in {0, 2} PROVE k + (m - 1) # m
    BY <2>4
  <2>5. QED
    BY <1>3, <2>1, <2>2, <2>3, <2>4
<1>6. QED
  BY <1>4, <1>5

\* Whatever the policy of its rule, an alert that monitor mode or the
\* baseline gate holds back signals no process, the fallback of doKill
\* included; and the planner signals none.
THEOREM GatesHold == Spec => GatedNeverSignals
<1>1. ASSUME PlaneInv, Next, NEW p \in Processes, Signalled(p)
      PROVE  AskedFor(p)
  <2>0. procs \in [Processes -> ProcStates]
    BY <1>1 DEF PlaneInv, TypeInv
  <2>1. ASSUME NEW g \in Goroutines, RunAction(g)
        PROVE  AskedFor(p)
    <3>1. /\ Head(job[g].todo) \in {"quarantine", "stopFirst", "kill", "killStopped"}
          /\ job[g].pid = p /\ job[g].todo # <<>>
      BY <1>1, <2>1, SignalIs, RunActionIs DEF Signalled
    <3>2. g \in Dispatchers
      BY <1>1, <3>1, NoPidApart DEF PlaneInv, PlanInv, Goroutines
    <3>3. \A S : job[g].todo \in Seq(S) => Head(job[g].todo) \in S
      BY <3>1, RestKept
    <3>4. job[g].todo \notin Seq(Reports) /\ job[g].todo \notin Seq(Collects)
      BY <3>1, <3>3 DEF Reports, Collects, Evidence
    <3>5. job[g].tag \in {"none", "observing", "known"}
      BY <1>1 DEF PlaneInv, TypeInv, JobType
    <3>6. job'[g] # job[g]
      BY <1>1, <2>1, CallMoves
    <3>7. QED
      BY <1>1, <3>1, <3>2, <3>4, <3>5, <3>6 DEF PlaneInv, GateInv, AskedFor
  <2>2. CASE \E g \in Dispatchers, rule \in Rules, pid \in AlertPids,
                tag \in {"none", "observing", "known"} : OnAlert(g, rule, pid, tag)
    BY <1>1, <2>2 DEF OnAlert, Signalled
  <2>3. CASE \E attributed \in BOOLEAN : TickOnce(attributed)
    BY <1>1, <2>3 DEF TickOnce, Signalled
  <2>4. ASSUME NEW q \in Processes, Resume(q) \/ OperatorKill(q) \/ Exit(q) \/ Spawn(q)
        PROVE  FALSE
    BY <1>1, <2>0, <2>4 DEF Resume, OperatorKill, Kill, Exit, Spawn, Signalled
  <2>5. CASE Expire \/ Arm \/ Disarm
    BY <1>1, <2>5 DEF Expire, Arm, Disarm, Signalled
  <2>6. CASE Restart
    <3>1. procs'[p] = procs[p] \/ procs'[p] \in {"orphaned", "running"}
      BY <2>6 DEF Restart
    <3>2. QED
      BY <1>1, <3>1 DEF Signalled
  <2>7. QED
    BY <1>1, <2>1, <2>2, <2>3, <2>4, <2>5, <2>6 DEF Next
<1>2. PlaneInv /\ [Next]_vars =>
        [\A p \in Processes : Signalled(p) => AskedFor(p)]_vars
  BY <1>1
<1>3. QED
  BY <1>2, PlaneInvariant, PTL DEF Spec, GatedNeverSignals

\* While the executor runs a plan, the action log shows the tier of that
\* plan, whatever signals have expired or come back since: the log takes
\* every tier that Plan returns.
THEOREM PlanIsOnRecord == Spec => []ExecutedAsLogged
<1>1. PlaneInv => ExecutedAsLogged
  BY DEF PlaneInv, PlanInv, ExecutedAsLogged, Idle
<1>2. QED
  BY <1>1, PlaneInvariant, PTL

\* No score and no recorded state makes the planner isolate a host that has
\* no bastion.
THEOREM NoBlindIsolation == Spec => []IsolationNeedsBastion
<1>1. PlaneInv => IsolationNeedsBastion
  <2>1. \A S : job[Planner].todo \in Seq(S) => Todo(Planner) \subseteq S
    BY RangeOfSeq DEF Todo
  <2>2. QED
    BY <2>1 DEF PlaneInv, PlanInv, IsolationNeedsBastion
<1>2. QED
  BY <1>1, PlaneInvariant, PTL
=============================================================================
