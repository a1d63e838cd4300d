------------------------------- MODULE Lineage -------------------------------
(***************************************************************************)
(* Who a process acts for.  Identity events mint source anchors            *)
(* (pkg/source) and the process tree (pkg/proctree) hands them from parent *)
(* to child and from a debugger to its target.  The pipeline drives both   *)
(* from the kernel's events; which of its branches an event takes depends  *)
(* on the sensor name the decoder gives to its kind.                       *)
(***************************************************************************)
EXTENDS Naturals, Sequences, FiniteSets, Functions

CONSTANTS
    Pids,        \* process ids the kernel hands out; 1 is init
    CausalCap,   \* source.CausalSetCap
    NodeCap,     \* Graph.cap
    MaxAnchors   \* bound: anchors minted

ASSUME LineageAssumption ==
    /\ Pids \subseteq Nat \ {0} /\ 1 \in Pids /\ IsFiniteSet(Pids)
    /\ CausalCap \in Nat \ {0} /\ NodeCap \in Nat \ {0} /\ MaxAnchors \in Nat

VARIABLES
    alive,      \* the kernel's processes
    ppid,       \* the kernel's parent of each
    lines,      \* pids of login lines in the auth log the tailer has not read
    nodes,      \* Graph.nodes: pid -> [ppid, primary, set, children]
    recency,    \* the pids of nodes by LastEvent, oldest first
    minted,     \* lineage.Minter's counter
    persisted,  \* anchors in the source store
    aged        \* anchors up to this one were created more than 30 days ago

kernelVars == <<alive, ppid, lines>>
graphVars == <<nodes, recency>>
storeVars == <<minted, persisted, aged>>
lineageVars == <<kernelVars, graphVars, storeVars>>

Anchors == 1..MaxAnchors
NoNode == [ppid |-> 0, primary |-> 0, set |-> <<>>, children |-> {}]

\* BootstrapFromProc finds init.
LineageInit ==
    /\ alive = {1} /\ ppid = [p \in Pids |-> 0] /\ lines = {}
    /\ nodes = [p \in {1} |-> NoNode] /\ recency = <<1>>
    /\ minted = 0 /\ persisted = {} /\ aged = 0

(***************************************************************************)
(* CausalSet, a sequence in insertion order.                               *)
(***************************************************************************)
\* At the cap the oldest entry makes room.
Add(s, id) ==
    IF id = 0 \/ id \in Range(s) THEN s
    ELSE Append(IF Len(s) >= CausalCap THEN Tail(s) ELSE s, id)

\* The entries of t one after the other.
Merge(s, t) ==
    LET upTo[n \in 0..Len(t)] == IF n = 0 THEN s ELSE Add(upTo[n - 1], t[n])
    IN  upTo[Len(t)]

(***************************************************************************)
(* The process tree.  g is a record of the two graph variables.            *)
(***************************************************************************)
Graph == [nodes |-> nodes, recency |-> recency]
Among(r, S) == SelectSeq(r, LAMBDA q : q \in S)
Later(r, p) == Append(SelectSeq(r, LAMBDA q : q # p), p)

Touch(g, p) == IF p \in DOMAIN g.nodes THEN [g EXCEPT !.recency = Later(@, p)] ELSE g

\* The leaves that were quiet longest, until a tenth of the cap is free or no
\* leaf is left.
Victims(g) ==
    LET target == NodeCap - NodeCap \div 10
        leaves == Among(g.recency, {q \in DOMAIN g.nodes : g.nodes[q].children = {}})
        excess == Cardinality(DOMAIN g.nodes) - target
    IN  {leaves[k] : k \in {j \in DOMAIN leaves : j <= excess}}

\* evictLocked; a victim is taken off its parent's list.
Evict(g) ==
    LET out == Victims(g)
        kept == DOMAIN g.nodes \ out
    IN  IF Cardinality(DOMAIN g.nodes) <= NodeCap THEN g
        ELSE [nodes |-> [q \in kept |-> [g.nodes[q] EXCEPT
                            !.children = {c \in @ : c \notin out \/ g.nodes[c].ppid # q}]],
              recency |-> Among(g.recency, kept)]

\* OnSpawn replaces the node of p by one that has only what its parent's node
\* hands down.
OnSpawn(g, p) ==
    LET known == ppid[p] \in DOMAIN g.nodes
        parent == IF known THEN g.nodes[ppid[p]] ELSE NoNode
        node == [ppid |-> ppid[p], primary |-> parent.primary,
                 set |-> Add(Merge(<<>>, parent.set), parent.primary), children |-> {}]
        listed(q) == IF q = ppid[p] THEN [g.nodes[q] EXCEPT !.children = @ \cup {p}] ELSE g.nodes[q]
    IN  Evict([nodes |-> [q \in DOMAIN g.nodes \cup {p} |-> IF q = p THEN node ELSE listed(q)],
               recency |-> Later(g.recency, p)])

\* Mutant of AttributeSource: the set is left to a later merge.
AttributePrimaryOnly(g, p, id) ==
    IF id = 0 \/ p \notin DOMAIN g.nodes THEN g
    ELSE [nodes |-> [g.nodes EXCEPT ![p].primary = id],
          recency |-> Later(g.recency, p)]

AttributeSource(g, p, id) ==
    IF id = 0 \/ p \notin DOMAIN g.nodes THEN g
    ELSE [nodes |-> [g.nodes EXCEPT ![p].primary = id, ![p].set = Add(@, id)],
          recency |-> Later(g.recency, p)]

MergeCausalSet(g, p, set) ==
    IF p \notin DOMAIN g.nodes THEN g ELSE [g EXCEPT !.nodes[p].set = Merge(@, set)]

SourceOf(g, p) == IF p \in DOMAIN g.nodes THEN g.nodes[p] ELSE NoNode

Becomes(g) == nodes' = g.nodes /\ recency' = g.recency

(***************************************************************************)
(* The kernel, and the events that reach Handle.                           *)
(***************************************************************************)
\* A fork raises no event.
Fork(p, c) ==
    /\ p \in alive /\ c \notin alive
    /\ alive' = alive \cup {c} /\ ppid' = [ppid EXCEPT ![c] = p]
    /\ UNCHANGED <<lines, graphVars, storeVars>>

\* proc_exit comes from sensor "ebpf", for which Handle has no branch: the
\* node stays.
Exit(p) ==
    /\ p \in alive \ {1}
    /\ alive' = alive \ {p}
    /\ ppid' = [q \in Pids |-> IF q = p THEN 0 ELSE IF ppid[q] = p THEN 1 ELSE ppid[q]]
    /\ Becomes(Touch(Graph, p))
    /\ UNCHANGED <<lines, storeVars>>

\* proc_spawn (an exec), proc_cred and mount come from sensor "ebpf.proc" and
\* all of them are a spawn to Handle.
ProcEvent(p) ==
    /\ p \in alive
    /\ Becomes(OnSpawn(Graph, p))
    /\ UNCHANGED <<kernelVars, storeVars>>

\* A ptrace is such an event too; then the target absorbs what the node of the
\* attacker holds now.
Ptrace(p, t) ==
    /\ p \in alive /\ t \in alive \ {p}
    /\ LET g == OnSpawn(Graph, p)
           by == SourceOf(g, p)
       IN  Becomes(MergeCausalSet(AttributeSource(g, t, by.primary), t, by.set))
    /\ UNCHANGED <<kernelVars, storeVars>>

\* sshd, sudo or su writes its line.
Login(p) ==
    /\ p \in alive \ {1} /\ p \notin lines /\ minted + Cardinality(lines) < MaxAnchors
    /\ lines' = lines \cup {p}
    /\ UNCHANGED <<alive, ppid, graphVars, storeVars>>

\* Mutant of Mint: the error of the store is ignored.
MintIgnoringError(p) ==
    /\ p \in lines
    /\ lines' = lines \ {p}
    /\ minted' = minted + 1
    /\ persisted' \in {persisted, persisted \cup {minted + 1}}
    /\ Becomes(AttributeSource(Graph, p, minted + 1))
    /\ UNCHANGED <<alive, ppid, aged>>

\* MintFromEvent, when the line is read: the id is spent whether the store
\* accepts the anchor or not, and only an accepted one is attributed to
\* whatever node the pid has by then.
Mint(p) ==
    /\ p \in lines
    /\ lines' = lines \ {p}
    /\ minted' = minted + 1
    /\ \/ /\ persisted' = persisted \cup {minted + 1}
          /\ Becomes(Touch(AttributeSource(Graph, p, minted + 1), p))
       \/ /\ UNCHANGED persisted
          /\ Becomes(Touch(Graph, p))
    /\ UNCHANGED <<alive, ppid, aged>>

\* The oldest anchor passes the age of 30 days.
Age ==
    /\ aged < minted
    /\ aged' = aged + 1
    /\ UNCHANGED <<kernelVars, graphVars, minted, persisted>>

\* sweepSourceAnchors, every hour: old anchors go, whoever still has them.
SweepAnchors ==
    /\ persisted' = persisted \ 1..aged
    /\ UNCHANGED <<kernelVars, graphVars, minted, aged>>

LineageNext ==
    \/ Age \/ SweepAnchors
    \/ \E p \in Pids : Exit(p) \/ ProcEvent(p) \/ Login(p) \/ Mint(p)
    \/ \E p, q \in Pids : Fork(p, q) \/ Ptrace(p, q)

LineageSpec == LineageInit /\ [][LineageNext]_lineageVars

(***************************************************************************)
(* Properties.                                                             *)
(***************************************************************************)
\* The state stays in its domain, and the graph within its cap.
LineageTypeOK ==
    /\ alive \subseteq Pids /\ ppid \in [Pids -> Pids \cup {0}] /\ lines \subseteq Pids
    /\ DOMAIN nodes \subseteq Pids /\ Cardinality(DOMAIN nodes) <= NodeCap
    /\ Range(recency) = DOMAIN nodes /\ Len(recency) = Cardinality(DOMAIN nodes)
    /\ \A p \in DOMAIN nodes :
        /\ nodes[p].primary \in Anchors \cup {0}
        /\ nodes[p].set \in Seq(Anchors) /\ Len(nodes[p].set) <= CausalCap
        /\ nodes[p].children \subseteq Pids
    /\ minted \in 0..MaxAnchors /\ persisted \subseteq Anchors /\ aged \in 0..minted

\* A node's primary source is in its causal set as long as the set has room,
\* whatever was inherited, attributed and absorbed before.
PrimaryKept ==
    \A p \in DOMAIN nodes :
        nodes[p].primary # 0 /\ Len(nodes[p].set) < CausalCap => nodes[p].primary \in Range(nodes[p].set)

\* A process is never attributed to an anchor of the last 30 days that the
\* source store does not hold: an investigation can resolve what a tag or a
\* set names, also when the store refused some of the anchors.  Older ones are
\* swept although a process that lives that long still carries them.
AttributedArePersisted ==
    \A p \in DOMAIN nodes :
        (Range(nodes[p].set) \cup {nodes[p].primary}) \ 0..aged \subseteq persisted

(***************************************************************************)
(* What comments say and the code does not do.                             *)
(***************************************************************************)
\* run.go:1459-1461: the source anchor "survives exec/reparent".  No event of
\* a living process takes an anchor away from it while its set has room.
AnchorSurvivesExec ==
    [][\A p \in alive \cap alive' \cap DOMAIN nodes \cap DOMAIN nodes' :
          Len(nodes[p].set) < CausalCap => Range(nodes[p].set) \subseteq Range(nodes'[p].set)]_lineageVars

\* graph.go:102-104: "Invariant: if PrimarySource is set, CausalSet must contain
\* it."  At the cap a merge can push out a primary that was attributed while
\* it was already an old member.
PrimaryInSet ==
    \A p \in DOMAIN nodes : nodes[p].primary # 0 => nodes[p].primary \in Range(nodes[p].set)
=============================================================================
