------------------------------ MODULE Response ------------------------------
(***************************************************************************)
(* The response plane: pkg/response's Engine.OnAlert, called by every      *)
(* goroutine that emits an alert; the planner of pkg/takeover and          *)
(* pkg/decision, whose tick goroutine turns the score of a lineage into an *)
(* action plan, logs the containment state in pkg/actionlog and runs the   *)
(* plan through Executor.Execute; and the two things they share, the panic *)
(* switch and the process quarantine of pkg/enforce.  The backends of      *)
(* other packages (netban, host quarantine, remediate, lockout, snapshot,  *)
(* memory scan, webhook) are steps that change nothing here.  ActionLog    *)
(* has no backend and is left out of the masks.                            *)
(***************************************************************************)
EXTENDS Naturals, Sequences, SequencesExt

CONSTANTS
    Dispatchers,  \* goroutines that emit alerts
    Planner,      \* the planner's tick goroutine
    Rules,
    Policy,       \* rule -> set of actions
    EnforceRules, \* rules that monitor mode does not strip
    Configs,      \* the daemon's configurations
    Pids,         \* pids of ordinary processes
    NoPid,        \* pid 0
    InitPid,      \* pid 1
    AlertPids,    \* pids that alerts name, NoPid if an alert has none
    Scores        \* scores a lineage may have

Processes == Pids \cup {InitPid}
Evidence == {"snapshot", "memscan"}
Destructive == {"netban", "remediate", "quarantine", "kill", "lockuser", "hostquarantine"}
Actions == Evidence \cup Destructive \cup {"webhook"}

\* The order of OnAlert and the order of Execute.
If(mask, a) == IF a \in mask THEN <<a>> ELSE <<>>
AlertOrder(mask) ==
    If(mask, "snapshot") \o If(mask, "memscan") \o If(mask, "netban") \o
    If(mask, "remediate") \o If(mask, "quarantine") \o If(mask, "kill") \o
    If(mask, "lockuser") \o If(mask, "hostquarantine") \o If(mask, "webhook")
PlanOrder(mask) ==
    If(mask, "snapshot") \o If(mask, "memscan") \o If(mask, "quarantine") \o
    If(mask, "netban") \o If(mask, "hostquarantine") \o If(mask, "remediate") \o
    If(mask, "lockuser") \o If(mask, "kill") \o If(mask, "webhook")

\* Containment tiers: observed, triaged, suspended, isolated, contained.
Tiers == 0..4

ASSUME ResponseAssumption ==
    /\ Planner \notin Dispatchers
    /\ Policy \in [Rules -> SUBSET Actions]
    /\ EnforceRules \subseteq Rules
    /\ Configs \subseteq [monitor : BOOLEAN, active : BOOLEAN, bastion : BOOLEAN]
    /\ NoPid # InitPid /\ {NoPid, InitPid} \cap Pids = {}
    /\ AlertPids \subseteq Pids \cup {NoPid, InitPid}
    /\ Scores \subseteq 0..100

VARIABLES
    config,   \* monitor_mode, takeover.active, bastion and off-host mirror available
    armed,    \* PanicSwitch.armed
    pin,      \* the file at PinPath exists
    procs,    \* the kernel's view of a pid, see below
    records,  \* Quarantine.records: state of the record of a pid, "none" if there is none
    job,      \* per goroutine: the actions its call has still to run, and for whom
    score,    \* score of the lineage's live signals, 0 if there are none
    state     \* actionlog: the lineage's containment state, as a tier

vars == <<config, armed, pin, procs, records, job, score, state>>

(***************************************************************************)
(* A process is running, stopped (by the present daemon), orphaned         *)
(* (stopped by a daemon that has since restarted) or gone; reused is a     *)
(* running process that got the pid of a process still on record as        *)
(* stopped.                                                                *)
(***************************************************************************)
ProcStates == {"running", "stopped", "orphaned", "gone", "reused"}
Alive(p) == procs[p] # "gone"

Goroutines == Dispatchers \cup {Planner}
NoJob == [todo |-> <<>>, pid |-> NoPid, rule |-> "none", tag |-> "none", tier |-> 0]
SignalOnly == [NoJob EXCEPT !.todo = <<"signal">>]
Idle(g) == job[g].todo = <<>>

Init ==
    /\ config \in Configs
    /\ armed = FALSE /\ pin = FALSE
    /\ procs = [p \in Processes |-> "running"]
    /\ records = [p \in Processes |-> "none"]
    /\ job = [g \in Goroutines |-> NoJob]
    /\ score = 0 /\ state = 0

-----------------------------------------------------------------------------
Stripped(mask, rule) ==
    IF config.monitor /\ rule \notin EnforceRules THEN mask \cap {"webhook"} ELSE mask

\* Mutant: a rule on the enforce list also escapes the learning window.
MaskPromoted(rule, tag) ==
    IF rule \in EnforceRules \/ tag = "none" THEN Stripped(Policy[rule], rule)
    ELSE Stripped(Policy[rule], rule) \cap (Evidence \cup {"webhook"})

\* What OnAlert may run: monitor mode, then the autobaseline gate.
Mask(rule, tag) ==
    CASE tag = "observing" -> Stripped(Policy[rule], rule) \cap {"webhook"}
      [] tag = "known" -> Stripped(Policy[rule], rule) \cap (Evidence \cup {"webhook"})
      [] OTHER -> Stripped(Policy[rule], rule)

\* Mutant: the panic switch is not asked.
AlertActionsUnchecked(rule, tag) == AlertOrder(Mask(rule, tag))

\* OnAlert returns at once when the switch is armed.
AlertActions(rule, tag) ==
    IF armed THEN <<>> ELSE AlertOrder(Mask(rule, tag))

\* The daemon's emit: OnAlert, then the planner is told of the alert.
OnAlert(g, rule, pid, tag) ==
    LET actions == AlertActions(rule, tag) IN
    /\ Idle(g)
    /\ job' = [job EXCEPT ![g] =
                  IF actions = <<>> THEN SignalOnly
                  ELSE [todo |-> Append(actions, "signal"), pid |-> pid,
                        rule |-> rule, tag |-> tag, tier |-> 0]]
    /\ UNCHANGED <<config, armed, pin, procs, records, score, state>>

tierFromScore(s) ==
    CASE s >= 100 -> 4 [] s >= 90 -> 3 [] s >= 75 -> 2 [] s >= 50 -> 1 [] OTHER -> 0

\* Mutant: the present state is not held.
PlannedTierUnheld == IF tierFromScore(score) = 4 /\ ~config.bastion THEN 3 ELSE tierFromScore(score)

\* Plan: never below the recorded state; host isolation needs the bastion.
PlannedTier ==
    LET held == IF state > tierFromScore(score) THEN state ELSE tierFromScore(score)
    IN  IF held = 4 /\ ~config.bastion THEN 3 ELSE held

\* The plan of a tier; delay and step-up have no backend.  A remote address
\* is banned only if one was attributed to the lineage.
PlanActions(tier, attributed) ==
    {"webhook"}
    \cup (IF tier >= 2 THEN {"snapshot", "quarantine"} ELSE {})
    \cup (IF tier >= 2 /\ attributed THEN {"netban"} ELSE {})
    \cup (IF tier >= 3 THEN {"memscan", "lockuser"} ELSE {})
    \cup (IF tier = 4 THEN {"hostquarantine"} ELSE {})

CanTransition(from, to) ==
    to \in CASE from = 0 -> 0..4 [] from = 1 -> 0..4 [] from = 2 -> 2..4
             [] from = 3 -> 3..4 [] from = 4 -> {4}

\* tickOnce for the lineage, up to the first action.  The synthetic alert it
\* hands to the executor carries no pid.  In shadow mode nothing happens.
TickOnce(attributed) ==
    LET tier == PlannedTier
        actions == IF armed THEN <<>> ELSE PlanOrder(PlanActions(tier, attributed)) IN
    /\ config.active
    /\ Idle(Planner)
    /\ score > 0 /\ tier > 0
    /\ state' = IF CanTransition(state, tier) THEN tier ELSE state
    /\ job' = [job EXCEPT ![Planner] =
                  IF actions = <<>> THEN NoJob
                  ELSE [NoJob EXCEPT !.todo = actions, !.tier = tier]]
    /\ UNCHANGED <<config, armed, pin, procs, records, score>>

-----------------------------------------------------------------------------
\* The goroutine goes on with `rest' in place of the action it has just tried.
Continue(g, rest) ==
    LET todo == rest \o Tail(job[g].todo) IN
    job' = [job EXCEPT ![g] = CASE todo = <<>> -> NoJob
                                [] todo = <<"signal">> -> SignalOnly
                                [] OTHER -> [@ EXCEPT !.todo = todo]]

\* Quarantine.Stop gives an error: pid 0 or 1, or the signal fails.
StopRefused(p) ==
    \/ p \in {NoPid, InitPid}
    \/ records[p] # "stopped" /\ ~Alive(p)

\* Mutant: an old record of the pid is kept as it is.
StopKeepsRecord(p) ==
    IF records[p] = "stopped" THEN UNCHANGED <<procs, records>>
    ELSE /\ procs' = [procs EXCEPT ![p] = "stopped"]
         /\ records' = IF records[p] = "none" THEN [records EXCEPT ![p] = "stopped"] ELSE records

\* A pid on record as stopped is not signalled again.
Stop(p) ==
    IF records[p] = "stopped" THEN UNCHANGED <<procs, records>>
    ELSE /\ procs' = [procs EXCEPT ![p] = "stopped"]
         /\ records' = [records EXCEPT ![p] = "stopped"]

TryStop(p) == IF StopRefused(p) THEN UNCHANGED <<procs, records>> ELSE Stop(p)

KillRefused(p) == p = NoPid \/ records[p] = "none" \/ ~Alive(p)

Kill(p) ==
    /\ procs' = [procs EXCEPT ![p] = "gone"]
    /\ records' = [records EXCEPT ![p] = "killed"]

TryKill(p) == IF KillRefused(p) THEN UNCHANGED <<procs, records>> ELSE Kill(p)

\* One backend call.  doKill falls back to Stop and a second Kill, each
\* under its own lock.
RunAction(g) ==
    /\ ~Idle(g)
    /\ LET a == Head(job[g].todo)
           p == job[g].pid IN
       \/ /\ a \in Actions \ {"quarantine", "kill"}
          /\ Continue(g, <<>>)
          /\ UNCHANGED <<procs, records, score>>
       \/ /\ a \in {"quarantine", "stopFirst"}
          /\ TryStop(p)
          /\ Continue(g, <<>>)
          /\ UNCHANGED score
       \/ /\ a = "kill"
          /\ TryKill(p)
          /\ Continue(g, IF KillRefused(p) /\ p # NoPid THEN <<"stopFirst", "killStopped">> ELSE <<>>)
          /\ UNCHANGED score
       \/ /\ a = "killStopped"
          /\ TryKill(p)
          /\ Continue(g, <<>>)
          /\ UNCHANGED score
       \/ /\ a = "signal"
          /\ score' \in Scores \cup {score}
          /\ Continue(g, <<>>)
          /\ UNCHANGED <<procs, records>>
    /\ UNCHANGED <<config, armed, pin, state>>

\* The operator resumes a quarantined process.
Resume(p) ==
    /\ records[p] # "none"
    /\ Alive(p)
    /\ procs' = [procs EXCEPT ![p] = "running"]
    /\ records' = [records EXCEPT ![p] = "resumed"]
    /\ UNCHANGED <<config, armed, pin, job, score, state>>

\* The operator kills a process that is on record.
OperatorKill(p) ==
    /\ ~KillRefused(p)
    /\ Kill(p)
    /\ UNCHANGED <<config, armed, pin, job, score, state>>

\* The signals of the lineage pass their TTL.
Expire ==
    /\ score > 0
    /\ score' = 0
    /\ UNCHANGED <<config, armed, pin, procs, records, job, state>>

\* The operator, or the strongest step of the containment ladder.  Arm flips
\* the flag at once; writing the file is best effort.
Arm ==
    /\ armed' = TRUE
    /\ pin' \in {pin, TRUE}
    /\ UNCHANGED <<config, procs, records, job, score, state>>

Disarm ==
    /\ armed' = FALSE
    /\ pin' \in {pin, FALSE}
    /\ UNCHANGED <<config, procs, records, job, score, state>>

\* Processes end, and the kernel reuses their pids.
Exit(p) ==
    /\ p # InitPid /\ Alive(p)
    /\ procs' = [procs EXCEPT ![p] = "gone"]
    /\ UNCHANGED <<config, armed, pin, records, job, score, state>>

Spawn(p) ==
    /\ ~Alive(p)
    /\ procs' = [procs EXCEPT ![p] = IF records[p] = "stopped" THEN "reused" ELSE "running"]
    /\ UNCHANGED <<config, armed, pin, records, job, score, state>>

\* The daemon restarts with everything in memory lost; the operator may have
\* removed the pin file.
Restart ==
    /\ pin' \in {pin, FALSE}
    /\ armed' = pin'
    /\ procs' = [p \in Processes |-> CASE procs[p] = "stopped" -> "orphaned"
                                       [] procs[p] = "reused" -> "running"
                                       [] OTHER -> procs[p]]
    /\ records' = [p \in Processes |-> "none"]
    /\ job' = [g \in Goroutines |-> NoJob]
    /\ score' = 0 /\ state' = 0
    /\ UNCHANGED config

Next ==
    \/ \E g \in Dispatchers, rule \in Rules, pid \in AlertPids,
          tag \in {"none", "observing", "known"} : OnAlert(g, rule, pid, tag)
    \/ \E attributed \in BOOLEAN : TickOnce(attributed)
    \/ \E g \in Goroutines : RunAction(g)
    \/ \E p \in Processes : Resume(p) \/ OperatorKill(p) \/ Exit(p) \/ Spawn(p)
    \/ Expire \/ Arm \/ Disarm \/ Restart

Spec == Init /\ [][Next]_vars

\* The calls that surely return: signals, the memory updates of the planner's
\* sink, and the two whose context has a deadline.  The others wait for a
\* child process, or read and write files, for as long as that takes.
Bounded == {"quarantine", "kill", "stopFirst", "killStopped", "signal", "webhook", "hostquarantine"}

Waits(g) == ~Idle(g) /\ Head(job[g].todo) \notin Bounded

FairSpec == Spec /\ \A g \in Goroutines : WF_vars(RunAction(g) /\ ~Waits(g))

-----------------------------------------------------------------------------
Todo(g) == Range(job[g].todo)

\* The state stays in its domain.
TypeOK ==
    /\ config \in Configs
    /\ {armed, pin} \subseteq BOOLEAN
    /\ procs \in [Processes -> ProcStates]
    /\ records \in [Processes -> {"none", "stopped", "resumed", "killed"}]
    /\ \A g \in Goroutines :
          /\ Todo(g) \subseteq Actions \cup {"stopFirst", "killStopped", "signal"}
          /\ job[g].pid \in Processes \cup {NoPid}
          /\ job[g].tier \in Tiers
    /\ score \in Scores \cup {0}
    /\ state \in Tiers

\* Every process the daemon has stopped is on record as stopped, so that it
\* can be resumed; and one on record is stopped, unless it ended and the pid
\* has a new owner.  Stop, Kill and Resume of concurrent alerts, exits and
\* reused pids all meet in this one map.
RecordsMatch ==
    \A p \in Processes :
        /\ procs[p] = "stopped" => records[p] = "stopped"
        /\ records[p] = "stopped" => procs[p] \in {"stopped", "gone", "reused"}

\* A process is signalled by this step, not by its own exit or an operator.
Signalled(p) ==
    /\ procs'[p] # procs[p]
    /\ procs'[p] = "stopped" \/ (procs'[p] = "gone" /\ job' # job)

\* The step is that of a goroutine whose alert is about the process and is
\* held back by no gate.
AskedFor(p) ==
    \E g \in Dispatchers :
        /\ job'[g] # job[g]
        /\ job[g].pid = p
        /\ job[g].tag = "none"
        /\ config.monitor => job[g].rule \in EnforceRules

\* No goroutine of the response plane, the planner included, stops or kills a
\* process but for an alert about that process that neither monitor mode nor
\* the baseline gate holds back; doKill's fallback is not a way around.
GatedNeverSignals == [][\A p \in Processes : Signalled(p) => AskedFor(p)]_vars

\* The plan being executed is the one the action log shows: never weaker
\* than the recorded state, never stronger than a recorded transition.
ExecutedAsLogged == ~Idle(Planner) => job[Planner].tier = state

\* The planner isolates the host only with a bastion and an off-host mirror.
IsolationNeedsBastion == "hostquarantine" \in Todo(Planner) => config.bastion

\* Once the panic switch is armed, no new enforcement begins, whatever alerts
\* keep arriving, and what was under way ends, up to a call that nothing
\* bounds.
PanicDrains ==
    armed ~> (~armed \/ \A g \in Goroutines : Todo(g) \subseteq {"signal"} \/ Waits(g))

-----------------------------------------------------------------------------
\* What comments of the code say and the code does not do.

\* policy.go:231: in monitor mode no destructive backend runs, but for the
\* promoted rules.  The two named here need no pid.
ObserveOnly ==
    config.monitor =>
        \A g \in Goroutines :
            Todo(g) \cap {"netban", "hostquarantine"} # {} => job[g].rule \in EnforceRules

\* panic.go:48: with the switch armed, userspace enforcement stops without
\* delay.
PanicStopsAtOnce == [][armed => \A p \in Processes : ~Signalled(p)]_vars

=============================================================================
