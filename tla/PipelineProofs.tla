--------------------------- MODULE PipelineProofs ---------------------------
(***************************************************************************)
(* Proofs about three helpers the pipeline consults, which share no        *)
(* variable: the baseline of what binaries do, the tree of whom processes  *)
(* act for, and the trust zones.                                           *)
(***************************************************************************)
EXTENDS AutoBaseline, Lineage, TrustZone, SequenceTheorems, WellFoundedInduction, TLAPS

(***************************************************************************)
(* The baseline.  For every set of binaries and behaviours, every window   *)
(* and every number of database errors and restarts: what it calls known   *)
(* was recorded while the window was open, and is not dangerous.           *)
(***************************************************************************)
Harmless == {e \in Pairs : e[2] \notin NeverLearnable}

\* What is in memory, waits for a flush or is on disk was learned, and what
\* was learned is harmless.  The disk has to be part of it: a restart of a
\* sealed daemon makes the profile its memory.
LearnInv ==
    /\ memory \subseteq learned /\ fresh \subseteq learned /\ profile \subseteq learned
    /\ learned \subseteq Harmless
    /\ inHand \in Pairs \cup {NoEvent}

\* The first start satisfies the invariant.
LEMMA InitLearn == Init => LearnInv
  BY DEF Init, LearnInv

\* A record of an event in hand is harmless: Observe has tested the behaviour,
\* and cutting the image's name does not change it.
LEMMA RecordedIsHarmless ==
  ASSUME inHand \in Pairs, inHand[2] \notin NeverLearnable
  PROVE  <<Field[inHand[1]], inHand[2]>> \in Harmless
  BY BaselineAssumption DEF Pairs, Harmless

\* Every step keeps the invariant.
LEMMA NextLearn == LearnInv /\ [Next]_vars => LearnInv'
<1> SUFFICES ASSUME LearnInv, [Next]_vars PROVE LearnInv'
  OBVIOUS
<1> USE DEF LearnInv
<1>1. ASSUME NEW e \in Pairs, ReadMode(e) PROVE LearnInv'
  BY <1>1 DEF ReadMode
<1>2. CASE Observe
  <2>1. CASE mode = "observe" /\ inHand[2] \notin NeverLearnable
    <3>1. inHand \in Pairs
      BY <1>2 DEF Observe
    <3>2. <<Field[inHand[1]], inHand[2]>> \in Harmless
      BY <2>1, <3>1, RecordedIsHarmless
    <3>3. Record(<<Field[inHand[1]], inHand[2]>>) /\ inHand' = NoEvent /\ UNCHANGED profile
      BY <1>2, <2>1 DEF Observe
    <3>4. learned' = learned \cup {<<Field[inHand[1]], inHand[2]>>}
      BY <2>1, <3>3 DEF Record
    <3> QED
      BY <3>2, <3>3, <3>4 DEF Record, Harmless
  <2>2. CASE ~(mode = "observe" /\ inHand[2] \notin NeverLearnable)
    BY <1>2, <2>2 DEF Observe
  <2> QED
    BY <2>1, <2>2
<1>3. CASE FlushFails
  BY <1>3 DEF FlushFails
<1>4. CASE Tick
  <2>1. UNCHANGED <<memory, inHand, learned>>
    BY <1>4 DEF Tick
  <2>2. profile' \subseteq profile \cup fresh /\ fresh' \subseteq fresh
    BY <1>4 DEF Tick, Flushed
  <2> QED
    BY <2>1, <2>2 DEF Harmless
<1>5. CASE Time
  BY <1>5 DEF Time
<1>6. CASE Restart
  <2>1. memory' \subseteq profile /\ fresh' = {} /\ inHand' = NoEvent
    BY <1>6 DEF Restart
  <2>2. UNCHANGED <<profile, learned>>
    BY <1>6 DEF Restart
  <2> QED
    BY <2>1, <2>2 DEF Harmless
<1>7. CASE UNCHANGED vars
  BY <1>7 DEF vars
<1> QED
  BY <1>1, <1>2, <1>3, <1>4, <1>5, <1>6, <1>7 DEF Next

\* IsKnown answers yes only for behaviour that Observe recorded while the
\* window was open, and never for dangerous behaviour: a window that closes
\* between Handle's look at the mode and Observe, failing flushes and any
\* sequence of restarts do not add to the profile.
THEOREM KnownIsLearned == Spec => []KnownWasLearned
<1>1. LearnInv => KnownWasLearned
  BY DEF LearnInv, KnownWasLearned, IsKnown, Harmless
<1> QED
  BY InitLearn, NextLearn, <1>1, PTL DEF Spec

(***************************************************************************)
(* The process tree, for every set of pids, every cap and any number of    *)
(* logins, execs, ptraces and evictions.  Merge is a loop; its result is   *)
(* characterised by looking at the first iteration that would go wrong.    *)
(***************************************************************************)
\* A nonempty set of numbers has a least one.
LEMMA LeastNat ==
  ASSUME NEW T \in SUBSET Nat, T # {}
  PROVE  \E x \in T : \A y \in T : x <= y
<1>1. PICK x \in T : \A y \in T : ~ (<<y, x>> \in OpToRel(<, Nat))
  BY WFMin, NatLessThanWellFounded
<1>2. \A y \in T : ~ (y < x)
  BY <1>1 DEF OpToRel
<1>3. QED
  BY <1>2

\* f is the loop of Merge: entry n is the set after n entries of t.
IsLoop(f, s, t, k) == f = [n \in 0..k |-> IF n = 0 THEN s ELSE Add(f[n - 1], t[n])]

\* The loop ends, whatever its length: a shorter one can be continued.
LEMMA LoopExists ==
  ASSUME NEW s, NEW t, NEW len \in Nat
  PROVE  \E f : IsLoop(f, s, t, len)
<1> DEFINE bad == {k \in Nat : ~ \E f : IsLoop(f, s, t, k)}
<1>1. SUFFICES ASSUME bad # {} PROVE FALSE
  OBVIOUS
<1>2. PICK k \in bad : \A j \in bad : k <= j
  BY <1>1, LeastNat
<1>3. CASE k = 0
  <2>1. IsLoop([n \in 0..0 |-> s], s, t, 0)
    BY DEF IsLoop
  <2>2. QED
    BY <2>1, <1>2, <1>3
<1>4. CASE k # 0
  <2>1. k - 1 \in Nat /\ k - 1 \notin bad /\ k \in Nat
    BY <1>2, <1>4
  <2>2. PICK f : IsLoop(f, s, t, k - 1)
    BY <2>1
  <2> DEFINE g == [n \in 0..k |-> IF n = k THEN Add(f[k - 1], t[k]) ELSE f[n]]
  <2>3. ASSUME NEW n \in 0..k
        PROVE  g[n] = IF n = 0 THEN s ELSE Add(g[n - 1], t[n])
    <3>1. CASE n = k
      BY <3>1, <2>1, <1>4
    <3>2. CASE n # k
      BY <3>2, <2>1, <2>2 DEF IsLoop
    <3>3. QED
      BY <3>1, <3>2
  <2>4. IsLoop(g, s, t, k)
    BY <2>3 DEF IsLoop
  <2>5. QED
    BY <2>4, <1>2
<1>5. QED
  BY <1>3, <1>4

\* Merge is the last entry of the loop.
LEMMA MergeIsLoop ==
  ASSUME NEW S, NEW s \in Seq(S), NEW t \in Seq(S)
  PROVE  \E f : IsLoop(f, s, t, Len(t)) /\ Merge(s, t) = f[Len(t)]
<1> DEFINE f == CHOOSE f : f = [n \in 0..Len(t) |-> IF n = 0 THEN s ELSE Add(f[n - 1], t[n])]
<1>1. IsLoop(f, s, t, Len(t))
  <2>1. Len(t) \in Nat
    OBVIOUS
  <2>2. \E h : h = [n \in 0..Len(t) |-> IF n = 0 THEN s ELSE Add(h[n - 1], t[n])]
    <3>1. PICK h : IsLoop(h, s, t, Len(t))
      BY <2>1, LoopExists, Zenon
    <3>2. h = [n \in 0..Len(t) |-> IF n = 0 THEN s ELSE Add(h[n - 1], t[n])]
      BY <3>1, Zenon DEF IsLoop
    <3>3. QED
      BY <3>2, Zenon
  <2>3. f = [n \in 0..Len(t) |-> IF n = 0 THEN s ELSE Add(f[n - 1], t[n])]
    BY <2>2, Zenon
  <2>4. QED
    BY <2>3 DEF IsLoop
<1>2. Merge(s, t) = f[Len(t)]
  BY DEF Merge
<1>3. QED
  BY <1>1, <1>2

-----------------------------------------------------------------------------
\* s is kept by r: nothing was dropped unless r has reached the cap.
Keeps(r, s, more) == Len(r) < CausalCap => Range(s) \cup more \subseteq Range(r)

\* Add keeps its set below the cap, never shrinks it and adds nothing else.
LEMMA AddIs ==
  ASSUME NEW S \in SUBSET (Nat \ {0}), NEW s \in Seq(S), NEW id \in S \cup {0}
  PROVE  /\ Add(s, id) \in Seq(S) /\ Len(Add(s, id)) >= Len(s)
         /\ Keeps(Add(s, id), s, {id} \ {0})
<1>1. CASE id = 0 \/ id \in Range(s)
  BY <1>1 DEF Add, Keeps
<1>2. CASE id # 0 /\ id \notin Range(s) /\ Len(s) >= CausalCap
  <2>1. s # <<>> /\ Len(s) \in Nat \ {0}
    BY <1>2, LineageAssumption
  <2>2. Tail(s) \in Seq(S) /\ Len(Tail(s)) = Len(s) - 1
    BY <2>1
  <2>3. Append(Tail(s), id) \in Seq(S) /\ Len(Append(Tail(s), id)) = Len(s)
    BY <1>2, <2>1, <2>2
  <2>4. Add(s, id) = Append(Tail(s), id)
    BY <1>2 DEF Add
  <2>5. QED
    BY <1>2, <2>1, <2>3, <2>4, LineageAssumption DEF Keeps
<1>3. CASE id # 0 /\ id \notin Range(s) /\ ~ (Len(s) >= CausalCap)
  <2>1. Add(s, id) = Append(s, id)
    BY <1>3 DEF Add
  <2>2. /\ Append(s, id) \in Seq(S) /\ Len(Append(s, id)) = Len(s) + 1
        /\ \A k \in DOMAIN s : k \in DOMAIN Append(s, id) /\ Append(s, id)[k] = s[k]
        /\ Len(s) + 1 \in DOMAIN Append(s, id) /\ Append(s, id)[Len(s) + 1] = id
    BY <1>3
  <2>3. Range(s) \cup {id} \subseteq Range(Append(s, id))
    BY <2>2 DEF Range
  <2>4. QED
    BY <2>1, <2>2, <2>3 DEF Keeps
<1>4. QED
  BY <1>1, <1>2, <1>3

\* So does Merge, entry by entry.
LEMMA MergeIs ==
  ASSUME NEW S \in SUBSET (Nat \ {0}), NEW s \in Seq(S), NEW t \in Seq(S)
  PROVE  /\ Merge(s, t) \in Seq(S) /\ Len(Merge(s, t)) >= Len(s)
         /\ Keeps(Merge(s, t), s, Range(t))
<1>1. PICK f : IsLoop(f, s, t, Len(t)) /\ Merge(s, t) = f[Len(t)]
  BY MergeIsLoop
<1> DEFINE first(n) == {t[j] : j \in 1..n}
           good(n) == f[n] \in Seq(S) /\ Len(f[n]) >= Len(s) /\ Keeps(f[n], s, first(n))
           bad == {n \in 0..Len(t) : ~good(n)}
<1>2. SUFFICES ASSUME bad # {} PROVE FALSE
  <2>1. Len(t) \in 0..Len(t) /\ first(Len(t)) = Range(t)
    BY DEF Range
  <2>2. good(Len(t))
    BY <1>2, <2>1
  <2>3. QED
    BY <2>1, <2>2, <1>1
<1>3. /\ bad \in SUBSET Nat /\ bad \subseteq 0..Len(t)
      /\ \A m \in bad : m \in 0..Len(t) /\ ~good(m)
      /\ \A m \in 0..Len(t) : m \notin bad => good(m)
  OBVIOUS
<1> HIDE DEF bad
<1>4. PICK n \in bad : \A m \in bad : n <= m
  BY <1>2, <1>3, LeastNat
<1>5. CASE n = 0
  <2>1. f[0] = s /\ first(0) = {}
    BY <1>1 DEF IsLoop
  <2>2. QED
    BY <2>1, <1>3, <1>5 DEF Keeps
<1>6. CASE n # 0
  <2>1. n \in 1..Len(t) /\ n - 1 \in 0..Len(t) /\ n - 1 \notin bad
    <3>1. Len(t) \in Nat /\ n \in 0..Len(t)
      <4>1. bad \subseteq 0..Len(t)
        BY <1>3
      <4>2. QED
        BY <4>1, <1>4
    <3>2. n \in 1..Len(t) /\ n - 1 \in 0..Len(t) /\ ~ (n <= n - 1)
      BY <3>1, <1>6
    <3>3. QED
      BY <3>2, <1>4
  <2>2. f[n] = Add(f[n - 1], t[n]) /\ t[n] \in S /\ t[n] # 0
    BY <2>1, <1>1 DEF IsLoop
  <2>3. good(n - 1)
    BY <2>1, <1>3
  <2>4. /\ f[n] \in Seq(S) /\ Len(f[n]) >= Len(f[n - 1]) /\ Keeps(f[n], f[n - 1], {t[n]})
    BY <2>2, <2>3, AddIs
  <2>5. first(n) = first(n - 1) \cup {t[n]}
    BY <2>1
  <2>6. Keeps(f[n], s, first(n)) /\ Len(f[n]) >= Len(s)
    <3>1. Len(f[n]) \in Nat /\ Len(f[n - 1]) \in Nat /\ Len(s) \in Nat
      BY <2>3, <2>4
    <3>2. Len(f[n]) >= Len(s) /\ (Len(f[n]) < CausalCap => Len(f[n - 1]) < CausalCap)
      BY <2>3, <2>4, <3>1, LineageAssumption
    <3>3. Len(f[n]) < CausalCap => Range(s) \cup (first(n - 1) \cup {t[n]}) \subseteq Range(f[n])
      <4> HIDE DEF first
      <4>1. Len(f[n]) < CausalCap => Range(s) \cup first(n - 1) \subseteq Range(f[n - 1])
        BY <2>3, <3>2 DEF Keeps
      <4>2. Len(f[n]) < CausalCap => Range(f[n - 1]) \cup {t[n]} \subseteq Range(f[n])
        BY <2>4 DEF Keeps
      <4>3. QED
        BY <4>1, <4>2
    <3>4. QED
      BY <2>5, <3>2, <3>3 DEF Keeps
  <2>7. QED
    BY <1>3, <1>4, <2>4, <2>6
<1>7. QED
  BY <1>5, <1>6

-----------------------------------------------------------------------------
NodeType(S) == [ppid : Nat, primary : S \cup {0}, set : Seq(S), children : SUBSET Nat]

\* A node that names only anchors of S, its primary one among them while
\* there is room.
GoodNode(node, S) ==
    /\ node \in NodeType(S)
    /\ node.primary # 0 /\ Len(node.set) < CausalCap => node.primary \in Range(node.set)

GoodNodes(g, S) ==
    /\ g = [nodes |-> g.nodes, recency |-> g.recency]
    /\ \A p \in DOMAIN g.nodes : p \in Nat /\ GoodNode(g.nodes[p], S)

\* Anchors the store holds, or may have swept.
Held == persisted \cup 1..aged

LineageInv ==
    /\ ppid \in [Pids -> Nat] /\ lines \subseteq Pids
    /\ minted \in Nat /\ aged \in Nat /\ persisted \subseteq Nat \ {0}
    /\ GoodNodes(Graph, Held)

\* An unknown process names no anchor.
LEMMA NoNodeGood == ASSUME NEW S PROVE GoodNode(NoNode, S)
  BY DEF GoodNode, NodeType, NoNode

\* Eviction changes no anchor of a node it keeps.
LEMMA EvictGood ==
  ASSUME NEW S, NEW g, GoodNodes(g, S) PROVE GoodNodes(Evict(g), S)
<1> DEFINE out == Victims(g)
           kept == DOMAIN g.nodes \ out
           new(q) == [g.nodes[q] EXCEPT !.children = {c \in @ : c \notin out \/ g.nodes[c].ppid # q}]
<1>1. ASSUME NEW q \in kept PROVE q \in Nat /\ GoodNode(new(q), S)
  <2>1. q \in Nat /\ GoodNode(g.nodes[q], S) /\ g.nodes[q] \in NodeType(S)
    BY DEF GoodNodes, GoodNode
  <2> HIDE DEF out
  <2>2. new(q) \in NodeType(S) /\ new(q).primary = g.nodes[q].primary /\ new(q).set = g.nodes[q].set
    BY <2>1 DEF NodeType
  <2>3. QED
    BY <2>1, <2>2 DEF GoodNode
<1>2. CASE Cardinality(DOMAIN g.nodes) <= NodeCap
  BY <1>2 DEF Evict
<1>3. CASE ~ (Cardinality(DOMAIN g.nodes) <= NodeCap)
  <2>1. Evict(g) = [nodes |-> [q \in kept |-> new(q)], recency |-> Among(g.recency, kept)]
    BY <1>3 DEF Evict
  <2> HIDE DEF new, kept
  <2>2. /\ Evict(g).nodes = [q \in kept |-> new(q)]
        /\ Evict(g) = [nodes |-> Evict(g).nodes, recency |-> Evict(g).recency]
    BY <2>1
  <2>3. QED
    BY <2>2, <1>1 DEF GoodNodes
<1>4. QED
  BY <1>2, <1>3

\* A spawned node has what its parent's node hands down.
LEMMA OnSpawnGood ==
  ASSUME NEW S \in SUBSET (Nat \ {0}), NEW g, GoodNodes(g, S), ppid \in [Pids -> Nat], NEW p \in Pids
  PROVE  GoodNodes(OnSpawn(g, p), S)
<1> DEFINE known == ppid[p] \in DOMAIN g.nodes
           parent == IF known THEN g.nodes[ppid[p]] ELSE NoNode
           node == [ppid |-> ppid[p], primary |-> parent.primary,
                    set |-> Add(Merge(<<>>, parent.set), parent.primary), children |-> {}]
           listed(q) == IF q = ppid[p] THEN [g.nodes[q] EXCEPT !.children = @ \cup {p}] ELSE g.nodes[q]
           all == [q \in DOMAIN g.nodes \cup {p} |-> IF q = p THEN node ELSE listed(q)]
           h == [nodes |-> all, recency |-> Later(g.recency, p)]
<1>1. p \in Nat /\ ppid[p] \in Nat
  BY LineageAssumption
<1>2. GoodNode(parent, S)
  BY NoNodeGood DEF GoodNodes
<1>3. GoodNode(node, S)
  <2>1. parent.primary \in S \cup {0} /\ parent.set \in Seq(S)
    BY <1>2 DEF GoodNode, NodeType
  <2> HIDE DEF parent
  <2>2. Merge(<<>>, parent.set) \in Seq(S)
    <3>1. <<>> \in Seq(S)
      OBVIOUS
    <3>2. QED
      BY <3>1, <2>1, MergeIs
  <2>3. /\ Add(Merge(<<>>, parent.set), parent.primary) \in Seq(S)
        /\ Keeps(Add(Merge(<<>>, parent.set), parent.primary), Merge(<<>>, parent.set), {parent.primary} \ {0})
    BY <2>1, <2>2, AddIs
  <2>4. node \in NodeType(S)
    BY <1>1, <2>1, <2>3 DEF NodeType
  <2>5. QED
    BY <2>3, <2>4 DEF GoodNode, Keeps
<1>4. ASSUME NEW q \in DOMAIN g.nodes PROVE q \in Nat /\ GoodNode(listed(q), S)
  <2>1. q \in Nat /\ GoodNode(g.nodes[q], S) /\ g.nodes[q] \in NodeType(S)
    BY DEF GoodNodes, GoodNode
  <2>2. listed(q) \in NodeType(S) /\ listed(q).primary = g.nodes[q].primary /\ listed(q).set = g.nodes[q].set
    BY <1>1, <2>1 DEF NodeType
  <2> HIDE DEF listed
  <2>3. QED
    BY <2>1, <2>2 DEF GoodNode
<1>5. OnSpawn(g, p) = Evict(h)
  BY DEF OnSpawn
<1>6. GoodNodes(h, S)
  <2> HIDE DEF node, listed
  <2>1. h.nodes = all
    OBVIOUS
  <2>2. QED
    BY <1>1, <1>3, <1>4, <2>1 DEF GoodNodes
<1>7. QED
  BY <1>5, <1>6, EvictGood

\* An attributed anchor is put in the set with it.
LEMMA AttributeGood ==
  ASSUME NEW S \in SUBSET (Nat \ {0}), NEW g, GoodNodes(g, S), NEW p, NEW id \in S \cup {0}
  PROVE  GoodNodes(AttributeSource(g, p, id), S)
<1>1. CASE id = 0 \/ p \notin DOMAIN g.nodes
  BY <1>1 DEF AttributeSource
<1>2. CASE ~ (id = 0 \/ p \notin DOMAIN g.nodes)
  <2> DEFINE old == g.nodes[p]
             new == [[old EXCEPT !.primary = id] EXCEPT !.set = Add(old.set, id)]
  <2>1. p \in Nat /\ old \in NodeType(S) /\ old.set \in Seq(S)
    BY <1>2 DEF GoodNodes, GoodNode, NodeType
  <2>2. Add(old.set, id) \in Seq(S) /\ Keeps(Add(old.set, id), old.set, {id} \ {0})
    BY <2>1, AddIs
  <2>3. new \in NodeType(S) /\ new.primary = id /\ new.set = Add(old.set, id)
    BY <2>1, <2>2 DEF NodeType
  <2>4. GoodNode(new, S)
    BY <1>2, <2>2, <2>3 DEF GoodNode, Keeps
  <2>5. /\ DOMAIN AttributeSource(g, p, id).nodes = DOMAIN g.nodes
        /\ \A q \in DOMAIN g.nodes : q # p => AttributeSource(g, p, id).nodes[q] = g.nodes[q]
        /\ AttributeSource(g, p, id).nodes[p] = new
        /\ AttributeSource(g, p, id) = [nodes |-> AttributeSource(g, p, id).nodes,
                                        recency |-> AttributeSource(g, p, id).recency]
    BY <1>2, <2>1 DEF AttributeSource, NodeType
  <2>6. QED
    BY <2>4, <2>5 DEF GoodNodes
<1>3. QED
  BY <1>1, <1>2

\* What is absorbed leaves the primary anchor in the set below the cap.
LEMMA MergeCausalGood ==
  ASSUME NEW S \in SUBSET (Nat \ {0}), NEW g, GoodNodes(g, S), NEW p, NEW set \in Seq(S)
  PROVE  GoodNodes(MergeCausalSet(g, p, set), S)
<1>1. CASE p \notin DOMAIN g.nodes
  BY <1>1 DEF MergeCausalSet
<1>2. CASE p \in DOMAIN g.nodes
  <2> DEFINE old == g.nodes[p]
             new == [old EXCEPT !.set = Merge(old.set, set)]
             h == MergeCausalSet(g, p, set)
  <2>1. p \in Nat /\ old \in NodeType(S) /\ GoodNode(old, S) /\ old.set \in Seq(S)
    BY <1>2 DEF GoodNodes, GoodNode, NodeType
  <2>2. /\ Merge(old.set, set) \in Seq(S) /\ Len(Merge(old.set, set)) >= Len(old.set)
        /\ Keeps(Merge(old.set, set), old.set, Range(set))
    BY <2>1, MergeIs
  <2>3. new \in NodeType(S) /\ new.primary = old.primary /\ new.set = Merge(old.set, set)
    BY <2>1, <2>2 DEF NodeType
  <2>4. GoodNode(new, S)
    <3>1. Len(new.set) \in Nat /\ Len(old.set) \in Nat
      BY <2>1, <2>2, <2>3
    <3>2. QED
      BY <2>1, <2>2, <2>3, <3>1, LineageAssumption DEF GoodNode, Keeps
  <2>5. h = [nodes |-> [g.nodes EXCEPT ![p] = new], recency |-> g.recency]
    <3>1. g = [nodes |-> g.nodes, recency |-> g.recency]
      BY DEF GoodNodes
    <3>2. QED
      BY <1>2, <3>1 DEF MergeCausalSet
  <2>6. QED
    BY <2>4, <2>5, <1>2 DEF GoodNodes
<1>3. QED
  BY <1>1, <1>2

\* Moving a pid to the end of the order changes no node.
LEMMA TouchGood ==
  ASSUME NEW S, NEW g, GoodNodes(g, S), NEW p
  PROVE  GoodNodes(Touch(g, p), S)
  BY DEF GoodNodes, Touch

\* A larger store resolves more.
LEMMA GoodGrows ==
  ASSUME NEW S, NEW T, S \subseteq T, NEW g, GoodNodes(g, S)
  PROVE  GoodNodes(g, T)
<1>1. \A s \in Seq(S) : s \in Seq(T)
  OBVIOUS
<1>2. QED
  BY <1>1 DEF GoodNodes, GoodNode, NodeType

\* Init alone is known, with no anchor.
LEMMA InitLineage == LineageInit => LineageInv
<1> SUFFICES ASSUME LineageInit PROVE LineageInv
  OBVIOUS
<1>1. Graph.nodes = [p \in {1} |-> NoNode] /\ Graph = [nodes |-> Graph.nodes, recency |-> Graph.recency]
  BY DEF LineageInit, Graph
<1>2. GoodNodes(Graph, Held)
  BY <1>1, NoNodeGood DEF GoodNodes
<1>3. QED
  BY <1>2 DEF LineageInit, LineageInv

\* Every step leaves a good graph behind.
LEMMA NextLineage == LineageInv /\ [LineageNext]_lineageVars => LineageInv'
<1> SUFFICES ASSUME LineageInv, [LineageNext]_lineageVars PROVE LineageInv'
  OBVIOUS
<1> USE DEF LineageInv
<1>0. ASSUME NEW g, NEW S, GoodNodes(g, S), Becomes(g) PROVE GoodNodes(Graph', S)
  BY <1>0 DEF GoodNodes, Becomes, Graph
<1>a. Held \in SUBSET (Nat \ {0})
  BY DEF Held
<1>b. UNCHANGED storeVars => Held' = Held /\ UNCHANGED <<minted, persisted, aged>>
  BY DEF storeVars, Held
<1>1. ASSUME NEW p \in Pids, Exit(p) PROVE LineageInv'
  <2>1. GoodNodes(Graph', Held)
    BY <1>1, <1>0, TouchGood DEF Exit
  <2>2. ppid' \in [Pids -> Nat]
    BY <1>1 DEF Exit
  <2>3. QED
    BY <1>1, <1>b, <2>1, <2>2 DEF Exit
<1>2. ASSUME NEW p \in Pids, ProcEvent(p) PROVE LineageInv'
  <2>1. GoodNodes(Graph', Held)
    BY <1>2, <1>0, <1>a, OnSpawnGood DEF ProcEvent
  <2>2. QED
    BY <1>2, <1>b, <2>1 DEF ProcEvent, kernelVars
<1>3. ASSUME NEW p \in Pids, Login(p) PROVE LineageInv'
  BY <1>3, <1>b DEF Login, graphVars, Graph
<1>4. ASSUME NEW p \in Pids, Mint(p) PROVE LineageInv'
  <2> DEFINE id == minted + 1
  <2>1. CASE persisted' = persisted \cup {id} /\ Becomes(Touch(AttributeSource(Graph, p, id), p))
    <3>1. /\ Held' \in SUBSET (Nat \ {0}) /\ Held \subseteq Held' /\ id \in Held'
          /\ persisted' \subseteq Nat \ {0}
      BY <1>4, <2>1 DEF Mint, Held
    <3>2. GoodNodes(Graph, Held')
      BY <3>1, GoodGrows
    <3>3. GoodNodes(Touch(AttributeSource(Graph, p, id), p), Held')
      BY <3>1, <3>2, AttributeGood, TouchGood
    <3>4. GoodNodes(Graph', Held')
      BY <2>1, <3>3, <1>0
    <3>5. QED
      BY <1>4, <3>1, <3>4 DEF Mint
  <2>2. CASE UNCHANGED persisted /\ Becomes(Touch(Graph, p))
    <3>1. GoodNodes(Graph', Held)
      BY <2>2, <1>0, TouchGood
    <3>2. QED
      BY <1>4, <2>2, <3>1 DEF Mint, Held
  <2>3. QED
    BY <1>4, <2>1, <2>2 DEF Mint
<1>5. ASSUME NEW p \in Pids, NEW c \in Pids, Fork(p, c) PROVE LineageInv'
  <2>1. ppid' \in [Pids -> Nat]
    BY <1>5, LineageAssumption DEF Fork
  <2>2. QED
    BY <1>5, <1>b, <2>1 DEF Fork, graphVars, Graph
<1>6. ASSUME NEW p \in Pids, NEW t \in Pids, Ptrace(p, t) PROVE LineageInv'
  <2> DEFINE g == OnSpawn(Graph, p)
             by == SourceOf(g, p)
  <2>1. GoodNodes(g, Held)
    BY <1>a, OnSpawnGood
  <2> HIDE DEF g
  <2>2. GoodNode(by, Held)
    BY <2>1, NoNodeGood DEF SourceOf, GoodNodes
  <2>3. by.primary \in Held \cup {0} /\ by.set \in Seq(Held)
    BY <2>2 DEF GoodNode, NodeType
  <2> HIDE DEF by
  <2>4. GoodNodes(AttributeSource(g, t, by.primary), Held)
    BY <1>a, <2>1, <2>3, AttributeGood
  <2>5. GoodNodes(MergeCausalSet(AttributeSource(g, t, by.primary), t, by.set), Held)
    BY <1>a, <2>3, <2>4, MergeCausalGood
  <2>6. GoodNodes(Graph', Held)
    <3>1. Becomes(MergeCausalSet(AttributeSource(g, t, by.primary), t, by.set))
      BY <1>6 DEF Ptrace, g, by
    <3>2. QED
      BY <3>1, <2>5, <1>0
  <2>7. QED
    BY <1>6, <1>b, <2>6 DEF Ptrace, kernelVars
<1>7. CASE Age \/ SweepAnchors
  <2>1. /\ Held' \in SUBSET (Nat \ {0}) /\ Held \subseteq Held'
        /\ aged' \in Nat /\ persisted' \subseteq Nat \ {0}
    <3>1. CASE Age
      BY <3>1 DEF Age, Held
    <3>2. CASE SweepAnchors
      <4>1. persisted' = persisted \ 1..aged /\ aged' = aged
        BY <3>2 DEF SweepAnchors
      <4>2. Held' = Held
        BY <4>1 DEF Held
      <4>3. QED
        BY <1>a, <4>1, <4>2
    <3>3. QED
      BY <1>7, <3>1, <3>2
  <2>2. GoodNodes(Graph, Held')
    BY <2>1, GoodGrows
  <2>3. UNCHANGED <<kernelVars, graphVars, minted>>
    BY <1>7 DEF Age, SweepAnchors
  <2>4. QED
    BY <2>1, <2>2, <2>3 DEF kernelVars, graphVars, Graph
<1>8. CASE UNCHANGED lineageVars
  BY <1>8, <1>b DEF lineageVars, kernelVars, graphVars, Graph
<1>9. QED
  BY <1>1, <1>2, <1>3, <1>4, <1>5, <1>6, <1>7, <1>8 DEF LineageNext

\* However sets are inherited, attributed, absorbed and evicted, a primary
\* source is in its causal set while the set has room.
THEOREM PrimaryStaysInSet == LineageSpec => []PrimaryKept
<1>1. LineageInv => PrimaryKept
  BY DEF LineageInv, GoodNodes, GoodNode, Graph, PrimaryKept
<1>2. QED
  BY <1>1, InitLineage, NextLineage, PTL DEF LineageSpec

\* Whatever anchors the store refuses and sweeps, a process is only ever
\* attributed to ones it holds, or held until they were 30 days old.
THEOREM AttributionResolves == LineageSpec => []AttributedArePersisted
<1>1. ASSUME LineageInv PROVE AttributedArePersisted
  <2> SUFFICES ASSUME NEW p \in DOMAIN nodes
               PROVE  (Range(nodes[p].set) \cup {nodes[p].primary}) \ 0..aged \subseteq persisted
    BY DEF AttributedArePersisted
  <2>1. nodes[p].primary \in Held \cup {0} /\ nodes[p].set \in Seq(Held)
    BY <1>1 DEF LineageInv, GoodNodes, GoodNode, NodeType, Graph
  <2>2. Range(nodes[p].set) \subseteq Held
    BY <2>1 DEF Range
  <2>3. Held \cup {0} \subseteq persisted \cup 0..aged
    BY <1>1 DEF Held, LineageInv
  <2>4. QED
    BY <2>1, <2>2, <2>3
<1>2. QED
  BY <1>1, InitLineage, NextLineage, PTL DEF LineageSpec

(***************************************************************************)
(* The trust zones.  For every set of requests, tools, subjects, hand      *)
(* edits and every failure: a persist that overlaps no other leaves a      *)
(* complete file or the one before.                                        *)
(***************************************************************************)
Busy(c) == At(c, "write") \/ At(c, "rename")

\* What a call may hold, wherever it is.
OpOK(op) ==
    \/ op.pc \in {"idle", "copy", "rename"}
    \/ op.pc = "open" /\ op.data \in Memory
    \/ op.pc = "write" /\ op.data \in Memory /\ op.at \in {"tmp", "file", "gone"}
    \/ op.pc = "swap" /\ op.data \in Written \cup {Absent, Torn}

ZoneTypes ==
    /\ zones \in Memory
    /\ zoneFile \in Written \cup {Absent, Torn} /\ zoneTmp \in Written \cup {Absent, Torn}
    /\ zoneOp = [c \in Callers |-> zoneOp[c]]
    /\ \A c \in Callers : OpOK(zoneOp[c])

\* As long as nothing spoiled it, one call at most has the temporary file, finds
\* it as it opened it, and renames it only when it is complete.
PersistInv ==
    spoiled \/ /\ Whole(zoneFile)
               /\ \A c, d \in Callers : Busy(c) /\ Busy(d) => c = d
               /\ \A c \in Callers : At(c, "write") => zoneTmp = Blank /\ zoneOp[c].at = "tmp"
               /\ \A c \in Callers : At(c, "rename") => Whole(zoneTmp)

ZoneInv == ZoneTypes /\ PersistInv

\* Nobody's memory is a torn file, and it always names a default.
LEMMA MemoryIsWhole == ASSUME NEW m \in Memory PROVE m \in Written /\ Whole(m)
  BY ZoneAssumption DEF Memory, Written, Whole

LEMMA FreshIsMemory == Fresh \in Memory /\ Blank \in Written
<1>1. <<>> \in Seq(Assignment) /\ "trusted" \in Labels
  BY EmptySeq, ZoneAssumption
<1> QED
  BY <1>1 DEF Fresh, Blank, Memory, Written

\* Reload makes a memory of a memory, whatever file it read.
LEMMA LoadedIsMemory ==
  ASSUME NEW m \in Memory, NEW f \in Written \cup {Absent, Torn}
  PROVE  Loaded(m, f) \in Memory
<1>0. <<>> \in Seq(Assignment)
  BY EmptySeq
<1>1. CASE f = Absent
  BY <1>0, <1>1, ZoneAssumption DEF Loaded, Memory, Written
<1>2. CASE f = Torn /\ f # Absent
  BY <1>2, ZoneAssumption DEF Loaded, Memory, Written
<1>3. CASE f \in Written
  BY <1>3, ZoneAssumption DEF Loaded, Memory, Written
<1> QED
  BY <1>1, <1>2, <1>3

\* Removing an element of a sequence leaves a sequence over the same set.
LEMMA RemoveAtType ==
  ASSUME NEW S, NEW q \in Seq(S), NEW i \in DOMAIN q
  PROVE  RemoveAt(q, i) \in Seq(S)
<1>1. i \in 1..Len(q)
  OBVIOUS
<1>2. SubSeq(q, 1, i - 1) \in Seq(S) /\ SubSeq(q, i + 1, Len(q)) \in Seq(S)
  BY <1>1, SubSeqProperties
<1> QED
  BY <1>2 DEF RemoveAt

\* So do the changes a call makes.
LEMMA ChangesAreMemory ==
  ASSUME NEW m \in Memory, NEW ch \in Changes(m)
  PROVE  ch.mem \in Memory
<1>0. m.dflt \in Labels /\ m.assign \in Seq(Assignment)
  BY DEF Memory
<1>1. CASE \E a \in Assignment :
             ch = [mem |-> [m EXCEPT !.assign = Append(@, a)], added |-> <<a>>]
  <2>1. PICK a \in Assignment :
           ch = [mem |-> [m EXCEPT !.assign = Append(@, a)], added |-> <<a>>]
    BY <1>1
  <2>2. Append(m.assign, a) \in Seq(Assignment)
    BY <1>0, AppendProperties
  <2> QED
    BY <1>0, <2>1, <2>2 DEF Memory
<1>2. CASE \E i \in DOMAIN m.assign :
             ch = [mem |-> [m EXCEPT !.assign = RemoveAt(@, i)], added |-> <<>>]
  <2>1. PICK i \in DOMAIN m.assign :
           ch = [mem |-> [m EXCEPT !.assign = RemoveAt(@, i)], added |-> <<>>]
    BY <1>2
  <2>2. RemoveAt(m.assign, i) \in Seq(Assignment)
    BY <1>0, RemoveAtType
  <2> QED
    BY <1>0, <2>1, <2>2 DEF Memory
<1>3. CASE \E l \in Labels : ch = [mem |-> [m EXCEPT !.dflt = l], added |-> <<>>]
  BY <1>0, <1>3 DEF Memory
<1> QED
  BY <1>1, <1>2, <1>3 DEF Changes

\* The first start satisfies the invariant.
LEMMA InitZone == ZoneInit => ZoneInv
<1> SUFFICES ASSUME ZoneInit PROVE ZoneInv
  OBVIOUS
<1>1. zoneFile \in Written \cup {Absent, Torn}
  BY ZoneAssumption DEF ZoneInit
<1>2. zones \in Memory
  BY <1>1, FreshIsMemory, LoadedIsMemory DEF ZoneInit
<1> QED
  BY <1>1, <1>2 DEF ZoneInit, ZoneInv, ZoneTypes, PersistInv, OpOK, ZoneIdle, At, Busy

\* A step that gives one caller another place, not at the temporary file, and
\* leaves the files alone keeps the invariant.
LEMMA QuietStep ==
  ASSUME ZoneInv, NEW c \in Callers, NEW op, Goes(c, op), OpOK(op), op.pc \notin {"write", "rename"},
         zones' \in Memory, UNCHANGED <<zoneFile, zoneTmp, spoiled>>
  PROVE  ZoneInv'
<1>1. \A d \in Callers : zoneOp'[d] = IF d = c THEN op ELSE zoneOp[d]
  BY DEF Goes, ZoneInv, ZoneTypes
<1>2. zoneOp' = [d \in Callers |-> zoneOp'[d]]
  BY <1>1 DEF Goes, ZoneInv, ZoneTypes
<1>3. ZoneTypes'
  BY <1>1, <1>2 DEF ZoneInv, ZoneTypes
<1>4. \A d \in Callers : /\ At(d, "write")' => At(d, "write") /\ zoneOp'[d] = zoneOp[d]
                         /\ At(d, "rename")' => At(d, "rename")
  BY <1>1 DEF At
<1>5. PersistInv'
  BY <1>4 DEF ZoneInv, PersistInv, Busy
<1> QED
  BY <1>3, <1>5 DEF ZoneInv

\* Every step keeps the invariant.
LEMMA NextZone == ZoneInv /\ [ZoneNext]_zoneVars => ZoneInv'
<1> SUFFICES ASSUME ZoneInv, [ZoneNext]_zoneVars PROVE ZoneInv'
  OBVIOUS
<1>t. ZoneTypes /\ PersistInv
  BY DEF ZoneInv
<1>1. ASSUME NEW c \in Callers, ZoneSet(c) PROVE ZoneInv'
  <2>1. PICK ch \in Changes(zones) :
           zones' = ch.mem /\ Goes(c, [pc |-> "copy", added |-> ch.added])
    BY <1>1 DEF ZoneSet
  <2>2. zones' \in Memory
    BY <1>t, <2>1, ChangesAreMemory DEF ZoneTypes
  <2> QED
    BY <1>1, <2>1, <2>2, QuietStep DEF ZoneSet, OpOK
<1>2. ASSUME NEW c \in Callers, ZoneTool(c) PROVE ZoneInv'
  <2>1. PICK ch \in Changes(Loaded(Fresh, zoneFile)) :
           Goes(c, [pc |-> "open", added |-> ch.added, data |-> ch.mem])
    BY <1>2 DEF ZoneTool
  <2>2. ch.mem \in Memory
    BY <1>t, <2>1, ChangesAreMemory, LoadedIsMemory, FreshIsMemory DEF ZoneTypes
  <2> QED
    BY <1>2, <1>t, <2>1, <2>2, QuietStep DEF ZoneTool, OpOK, ZoneTypes
<1>3. ASSUME NEW c \in Callers, ZoneCopy(c) PROVE ZoneInv'
  BY <1>3, <1>t, QuietStep DEF ZoneCopy, OpOK, ZoneTypes
<1>4. ASSUME NEW c \in Callers, ZoneReload(c) PROVE ZoneInv'
  BY <1>4, <1>t, QuietStep DEF ZoneReload, OpOK, ZoneTypes
<1>5. ASSUME NEW c \in Callers, ZoneSwap(c) PROVE ZoneInv'
  <2>1. zoneOp[c].data \in Written \cup {Absent, Torn}
    BY <1>5, <1>t DEF ZoneSwap, At, ZoneTypes, OpOK
  <2>2. zones' \in Memory
    BY <1>5, <1>t, <2>1, LoadedIsMemory DEF ZoneSwap, ZoneTypes
  <2> QED
    BY <1>5, <2>2, QuietStep DEF ZoneSwap, OpOK, ZoneIdle
<1>6. ASSUME NEW c \in Callers, ZoneOpen(c) PROVE ZoneInv'
  <2>1. CASE Goes(c, ZoneIdle) /\ UNCHANGED <<zoneTmp, spoiled>>
    BY <1>6, <1>t, <2>1, QuietStep DEF ZoneOpen, OpOK, ZoneIdle, ZoneTypes
  <2>2. CASE /\ zoneTmp' = Blank
             /\ Goes(c, [pc |-> "write", data |-> zoneOp[c].data, at |-> "tmp"])
             /\ spoiled' = (spoiled \/ \E d \in Callers \ {c} : At(d, "write") \/ At(d, "rename"))
    <3>1. \A d \in Callers : zoneOp'[d] = IF d = c
             THEN [pc |-> "write", data |-> zoneOp[c].data, at |-> "tmp"] ELSE zoneOp[d]
      BY <1>t, <2>2 DEF Goes, ZoneTypes
    <3>2. zoneOp[c].data \in Memory
      BY <1>6, <1>t DEF ZoneOpen, At, ZoneTypes, OpOK
    <3>3. ZoneTypes'
      BY <1>6, <1>t, <2>2, <3>1, <3>2, FreshIsMemory DEF ZoneTypes, OpOK, Goes, ZoneOpen
    <3>4. PersistInv'
      <4> SUFFICES ASSUME ~spoiled' PROVE PersistInv'
        BY DEF PersistInv
      <4>1. ~spoiled /\ \A d \in Callers \ {c} : ~Busy(d)
        BY <2>2 DEF Busy
      <4>2. \A d \in Callers : At(d, "rename")' \/ At(d, "write")' => d = c
        BY <3>1, <4>1 DEF At, Busy
      <4>3. ~At(c, "rename")' /\ zoneOp'[c].at = "tmp"
        BY <3>1 DEF At
      <4> QED
        BY <1>6, <1>t, <2>2, <4>1, <4>2, <4>3 DEF PersistInv, Busy, ZoneOpen
    <3> QED
      BY <3>3, <3>4 DEF ZoneInv
  <2> QED
    BY <1>6, <2>1, <2>2 DEF ZoneOpen
<1>7. ASSUME NEW c \in Callers, ZoneWrite(c) PROVE ZoneInv'
  <2>0. zoneOp[c].data \in Memory /\ zoneOp[c].pc = "write"
    BY <1>7, <1>t DEF ZoneWrite, At, ZoneTypes, OpOK
  <2>1. PICK ok \in BOOLEAN :
          /\ zoneTmp' \in IF zoneOp[c].at = "tmp"
                          THEN IF ok THEN Over(zoneTmp, zoneOp[c].data) ELSE {zoneTmp, Torn}
                          ELSE {zoneTmp}
          /\ zoneFile' \in IF zoneOp[c].at = "file"
                           THEN IF ok THEN Over(zoneFile, zoneOp[c].data) ELSE {zoneFile, Torn}
                           ELSE {zoneFile}
          /\ Goes(c, IF ok THEN [pc |-> "rename"] ELSE ZoneIdle)
    BY <1>7 DEF ZoneWrite
  <2>2. \A d \in Callers : zoneOp'[d] =
           IF d = c THEN IF ok THEN [pc |-> "rename"] ELSE ZoneIdle ELSE zoneOp[d]
    BY <1>t, <2>1 DEF Goes, ZoneTypes
  <2>3. zoneOp[c].data \in Written /\ Whole(zoneOp[c].data)
    BY <2>0, MemoryIsWhole
  <2>4. ZoneTypes'
    <3>1. zoneTmp' \in Written \cup {Absent, Torn} /\ zoneFile' \in Written \cup {Absent, Torn}
      BY <1>t, <2>1, <2>3 DEF ZoneTypes, Over
    <3> QED
      BY <1>7, <1>t, <2>1, <2>2, <3>1 DEF ZoneTypes, OpOK, ZoneIdle, Goes, ZoneWrite
  <2>5. PersistInv'
    <3> SUFFICES ASSUME ~spoiled PROVE PersistInv'
      BY <1>7 DEF PersistInv, ZoneWrite
    <3>1. zoneTmp = Blank /\ zoneOp[c].at = "tmp" /\ \A d \in Callers \ {c} : ~Busy(d)
      BY <1>t, <2>0 DEF PersistInv, At, Busy
    <3>2. zoneFile' = zoneFile /\ (ok => zoneTmp' = zoneOp[c].data)
      BY <2>1, <3>1 DEF Over
    <3>3. \A d \in Callers : (At(d, "rename")' \/ At(d, "write")' => d = c) /\ ~At(d, "write")'
      BY <2>2, <3>1 DEF At, Busy, ZoneIdle
    <3>4. At(c, "rename")' => ok
      BY <2>2 DEF At, ZoneIdle
    <3> QED
      BY <1>t, <2>3, <3>2, <3>3, <3>4 DEF PersistInv, Busy
  <2> QED
    BY <2>4, <2>5 DEF ZoneInv
<1>8. ASSUME NEW c \in Callers, ZoneRename(c) PROVE ZoneInv'
  <2>1. CASE zoneTmp = Absent
    BY <1>8, <1>t, <2>1, QuietStep DEF ZoneRename, OpOK, ZoneIdle, ZoneTypes
  <2>2. CASE zoneTmp # Absent
    <3>0. /\ zoneFile' = zoneTmp /\ zoneTmp' = Absent /\ UNCHANGED <<zones, spoiled>>
          /\ zoneOp' = [d \in Callers |-> IF d = c THEN ZoneIdle ELSE Renamed(zoneOp[d])]
      BY <1>8, <2>2 DEF ZoneRename
    <3>1. ASSUME NEW d \in Callers PROVE OpOK(Renamed(zoneOp[d]))
      <4>1. CASE zoneOp[d].pc = "write"
        <5>1. zoneOp[d].data \in Memory /\ zoneOp[d].at \in {"tmp", "file", "gone"}
          BY <1>t, <4>1 DEF ZoneTypes, OpOK
        <5> QED
          BY <1>t, <4>1, <5>1 DEF Renamed, OpOK
      <4>2. CASE zoneOp[d].pc # "write"
        BY <1>t, <4>2 DEF Renamed, ZoneTypes
      <4> QED
        BY <4>1, <4>2
    <3>2. ZoneTypes'
      BY <1>t, <3>0, <3>1 DEF ZoneTypes, OpOK, ZoneIdle
    <3>3. PersistInv'
      <4> SUFFICES ASSUME ~spoiled PROVE PersistInv'
        BY <3>0 DEF PersistInv
      <4>1. Whole(zoneTmp) /\ \A d \in Callers \ {c} : ~Busy(d)
        BY <1>8, <1>t DEF PersistInv, Busy, ZoneRename
      <4>2. \A d \in Callers : ~At(d, "write")' /\ ~At(d, "rename")'
        BY <3>0, <4>1 DEF At, Busy, ZoneIdle, Renamed
      <4> QED
        BY <3>0, <4>1, <4>2 DEF PersistInv, Busy
    <3> QED
      BY <3>2, <3>3 DEF ZoneInv
  <2> QED
    BY <2>1, <2>2
<1>9. ASSUME NEW f \in HandEdits, EditZoneFile(f) PROVE ZoneInv'
  <2>0. f \in Written \cup {Absent, Torn}
    BY ZoneAssumption
  <2>1. ASSUME NEW d \in Callers
        PROVE  OpOK(Unlinked(zoneOp[d])) /\ Unlinked(zoneOp[d]).pc = zoneOp[d].pc
    <3>1. CASE zoneOp[d].pc = "write"
      <4>1. zoneOp[d].data \in Memory /\ zoneOp[d].at \in {"tmp", "file", "gone"}
        BY <1>t, <3>1 DEF ZoneTypes, OpOK
      <4> QED
        BY <1>t, <3>1, <4>1 DEF Unlinked, OpOK, ZoneTypes
    <3>2. CASE zoneOp[d].pc # "write"
      BY <1>t, <3>2 DEF Unlinked, ZoneTypes
    <3> QED
      BY <3>1, <3>2
  <2>2. ZoneTypes'
    BY <1>9, <1>t, <2>0, <2>1 DEF ZoneTypes, EditZoneFile
  <2>3. PersistInv'
    <3> SUFFICES ASSUME ~spoiled' PROVE PersistInv'
      BY DEF PersistInv
    <3>1. ~spoiled /\ Whole(f) /\ zoneFile' = f /\ zoneTmp' = zoneTmp
      BY <1>9 DEF EditZoneFile
    <3>2. \A d \in Callers : zoneOp'[d] = zoneOp[d]
      BY <1>9, <1>t, <3>1 DEF EditZoneFile, PersistInv, At, Unlinked
    <3> QED
      BY <1>t, <3>1, <3>2 DEF PersistInv, Busy, At
  <2> QED
    BY <2>2, <2>3 DEF ZoneInv
<1>10. CASE ZoneRestart
  <2>1. zones' \in Memory
    BY <1>10, <1>t, FreshIsMemory, LoadedIsMemory DEF ZoneRestart, ZoneTypes
  <2>2. \A d \in Callers : zoneOp'[d] \in {zoneOp[d], ZoneIdle}
    BY <1>10 DEF ZoneRestart
  <2>3. ZoneTypes'
    BY <1>10, <1>t, <2>1, <2>2 DEF ZoneRestart, ZoneTypes, OpOK, ZoneIdle
  <2>4. \A d \in Callers : /\ At(d, "write")' => At(d, "write") /\ zoneOp'[d] = zoneOp[d]
                           /\ At(d, "rename")' => At(d, "rename")
    BY <2>2 DEF At, ZoneIdle
  <2>5. PersistInv'
    BY <1>10, <1>t, <2>4 DEF ZoneRestart, PersistInv, Busy
  <2> QED
    BY <2>3, <2>5 DEF ZoneInv
<1>11. CASE UNCHANGED zoneVars
  BY <1>11, <1>t DEF zoneVars, ZoneInv, ZoneTypes, PersistInv, Busy, At
<1> QED
  BY <1>1, <1>2, <1>3, <1>4, <1>5, <1>6, <1>7, <1>8, <1>9, <1>10, <1>11
     DEF ZoneNext, ZoneStep, Persist

\* Whatever a request, a tool, the disk or a crash does, trustzones.yaml is
\* absent or complete as long as no two persists overlapped and no editor left
\* it otherwise.
THEOREM PersistsAreWhole == ZoneSpec => []PersistIsWhole
<1>1. ZoneInv => PersistIsWhole
  BY DEF ZoneInv, PersistInv, PersistIsWhole
<1>2. QED
  BY <1>1, InitZone, NextZone, PTL DEF ZoneSpec
=============================================================================
