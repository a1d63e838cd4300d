-------------------------- MODULE ColdStoreProofs --------------------------
(***************************************************************************)
(* Proofs about the cold store for every queue and batch size, every set   *)
(* of days, and any number of events and failing statements.               *)
(***************************************************************************)
EXTENDS ColdStore, SequenceTheorems, FiniteSetTheorems, WellFoundedInduction, TLAPS

\* A nonempty set of numbers has a least one.
LEMMA LeastNat ==
  ASSUME NEW T \in SUBSET Nat, T # {}
  PROVE  \E x \in T : \A y \in T : x <= y
<1>1. PICK x \in T : \A y \in T : ~ (<<y, x>> \in OpToRel(<, Nat))
  BY WFMin, NatLessThanWellFounded
<1>2. \A y \in T : ~ (y < x)
  BY <1>1 DEF OpToRel
<1>3. QED
  BY <1>2

\* writeBatch takes at least one row, and at most the batch.
LEMMA GroupLenIs ==
  ASSUME NEW b \in Seq(Item), b # <<>>
  PROVE  GroupLen(b) \in 1..Len(b)
<1> DEFINE ends == {n \in 1..Len(b) : n = Len(b) \/ b[n + 1].day # b[1].day}
<1>1. Len(b) \in ends /\ ends \subseteq Nat
  OBVIOUS
<1>2. PICK n \in ends : \A m \in ends : n <= m
  BY <1>1, LeastNat
<1>3. ASSUME NEW k \in 1..n
      PROVE  b[k].day = b[1].day
  <2>1. CASE k = 1
    BY <2>1
  <2>2. CASE k # 1
    <3>1. k - 1 \in 1..Len(b) /\ k - 1 # Len(b) /\ ~ (n <= k - 1)
      BY <2>2
    <3>2. k - 1 \notin ends
      BY <3>1, <1>2
    <3>3. b[(k - 1) + 1].day = b[1].day
      BY <3>1, <3>2
    <3>4. QED
      BY <3>3
  <2>3. QED
    BY <2>1, <2>2
<1>4. \E m \in 1..Len(b) : /\ \A k \in 1..m : b[k].day = b[1].day
                           /\ m = Len(b) \/ b[m + 1].day # b[1].day
  BY <1>3
<1>5. QED
  BY <1>4 DEF GroupLen

-----------------------------------------------------------------------------
\* A queued event as Submit leaves it: a snapshot, with a map of its own.
Snap == [id : 1..MaxEvents, day : Days, shared : {FALSE}]

Job == [pc : {"idle", "table", "write"}, batch : Seq(Snap)]

TypeInv ==
    /\ caller \in [pc : {"idle", "enqueue", "stamping"}, day : Days]
    /\ submitted \in 0..MaxEvents
    /\ caller.pc = "enqueue" => submitted >= 1
    /\ queue \in Seq(Snap) /\ Len(queue) <= QueueSize
    /\ flusherUp \in BOOLEAN /\ ctxDone \in BOOLEAN
    /\ closePc \in {"open", "flush", "db", "closed"}
    /\ jobs \in [Workers -> Job]
    /\ currentTable \in Days /\ tables \subseteq Days
    /\ listed \subseteq Days /\ victim \in Days \cup {0}
    /\ fate \in [1..MaxEvents -> {"none", "dropped", "written", "failed"}]
    /\ errors \in 0..MaxErrors

\* Older events come first.
Increasing(s) == \A i, j \in DOMAIN s : i < j => s[i].id < s[j].id

BatchInv ==
    /\ Increasing(queue)
    /\ \A w \in Workers : /\ jobs[w].pc = "idle" <=> jobs[w].batch = <<>>
                          /\ Len(jobs[w].batch) <= BatchSize
                          /\ Increasing(jobs[w].batch)

(***************************************************************************)
(* The places an event may be in, as sets of event numbers: in the call,   *)
(* queued, in the batch of a flush, settled.  They never share an event    *)
(* and together hold every event submitted so far.                         *)
(***************************************************************************)
Calling == IF caller.pc = "enqueue" THEN {submitted} ELSE {}
Owned(w) == Ids(jobs[w].batch)
Settled == {e \in 1..MaxEvents : fate[e] # "none"}

Split(c, q, f, l, s, n) ==
    /\ c \cup q \cup f \cup l \cup s = 1..n
    /\ c \cap q = {} /\ c \cap f = {} /\ c \cap l = {} /\ c \cap s = {}
    /\ q \cap f = {} /\ q \cap l = {} /\ q \cap s = {}
    /\ f \cap l = {} /\ f \cap s = {} /\ l \cap s = {}

PlaceInv == Split(Calling, Ids(queue), Owned("flusher"), Owned("closer"), Settled, submitted)

StoreInv == TypeInv /\ BatchInv /\ PlaceInv /\ OldestDroppedFirst

-----------------------------------------------------------------------------
\* What the proofs use of a queued event.
LEMMA SnapFields ==
  ASSUME NEW x \in Snap
  PROVE  x.id \in 1..MaxEvents /\ x.id \in Nat /\ x.day \in Days /\ ~x.shared
<1>1. x.id \in 1..MaxEvents /\ x.day \in Days
  BY DEF Snap
<1>2. x.shared \in {FALSE}
  BY DEF Snap
<1>3. ~x.shared
  BY <1>2, Zenon
<1>4. QED
  BY <1>1, <1>3

\* The events of a queue or batch are numbered.
LEMMA IdsInRange ==
  ASSUME NEW s \in Seq(Snap)
  PROVE  Ids(s) \in SUBSET (1..MaxEvents) /\ \A i \in DOMAIN s : s[i].id \in Nat
<1>1. \A i \in DOMAIN s : s[i] \in Snap
  OBVIOUS
<1>2. QED
  BY <1>1, SnapFields DEF Ids

\* Cutting a queue or a batch in two loses no event and doubles none.
LEMMA CutInTwo ==
  ASSUME NEW s \in Seq(Snap), Increasing(s), NEW n \in 0..Len(s)
  PROVE  LET a == SubSeq(s, 1, n)
             b == SubSeq(s, n + 1, Len(s))
         IN  /\ a \in Seq(Snap) /\ Len(a) = n /\ Increasing(a)
             /\ b \in Seq(Snap) /\ Len(b) = Len(s) - n /\ Increasing(b)
             /\ Ids(a) \cup Ids(b) = Ids(s) /\ Ids(a) \cap Ids(b) = {}
<1> DEFINE a == SubSeq(s, 1, n)
           b == SubSeq(s, n + 1, Len(s))
<1>1. \A i \in 1..Len(s) : s[i] \in Snap
  OBVIOUS
<1>2. a \in Seq(Snap) /\ Len(a) = n /\ \A i \in 1..n : a[i] = s[i]
  <2>1. /\ SubSeq(s, 1, n) \in Seq(Snap)
        /\ Len(SubSeq(s, 1, n)) = IF 1 <= n THEN n - 1 + 1 ELSE 0
        /\ \A i \in 1..(n - 1 + 1) : SubSeq(s, 1, n)[i] = s[1 + i - 1]
    <3>1. \A i \in 1..n : s[i] \in Snap
      BY <1>1
    <3>2. QED
      BY <3>1, SubSeqProperties
  <2>2. QED
    BY <2>1
<1>3. b \in Seq(Snap) /\ Len(b) = Len(s) - n /\ \A i \in 1..(Len(s) - n) : b[i] = s[n + i]
  <2>1. /\ SubSeq(s, n + 1, Len(s)) \in Seq(Snap)
        /\ Len(SubSeq(s, n + 1, Len(s))) = IF n + 1 <= Len(s) THEN Len(s) - (n + 1) + 1 ELSE 0
        /\ \A i \in 1..(Len(s) - (n + 1) + 1) : SubSeq(s, n + 1, Len(s))[i] = s[(n + 1) + i - 1]
    <3>1. \A i \in (n + 1)..Len(s) : s[i] \in Snap
      BY <1>1
    <3>2. n + 1 \in Int /\ Len(s) \in Int
      OBVIOUS
    <3>3. QED
      BY <3>1, <3>2, SubSeqProperties
  <2>2. QED
    BY <2>1
<1> HIDE DEF a, b
<1>4. DOMAIN a = 1..n /\ DOMAIN b = 1..(Len(s) - n) /\ DOMAIN s = 1..Len(s)
  BY <1>2, <1>3
<1>5. \A i \in DOMAIN s : s[i].id \in Nat
  BY IdsInRange
<1>6. Increasing(a) /\ Increasing(b)
  <2>1. Increasing(a)
    BY <1>2, <1>4 DEF Increasing
  <2>2. ASSUME NEW i \in 1..(Len(s) - n), NEW j \in 1..(Len(s) - n), i < j
        PROVE  b[i].id < b[j].id
    <3>1. n + i \in DOMAIN s /\ n + j \in DOMAIN s /\ n + i < n + j
      BY <2>2, <1>4
    <3>2. QED
      BY <3>1, <1>3 DEF Increasing
  <2>3. QED
    BY <2>1, <2>2, <1>4 DEF Increasing
<1>7. Ids(a) \cup Ids(b) = Ids(s)
  <2>1. ASSUME NEW e \in Ids(s)
        PROVE  e \in Ids(a) \cup Ids(b)
    <3>1. PICK k \in 1..Len(s) : e = s[k].id
      BY <1>4 DEF Ids
    <3>2. CASE k <= n
      BY <3>1, <3>2, <1>2, <1>4 DEF Ids
    <3>3. CASE k > n
      <4>1. k - n \in 1..(Len(s) - n) /\ n + (k - n) = k
        BY <3>3
      <4>2. b[k - n] = s[k]
        BY <4>1, <1>3
      <4>3. QED
        BY <3>1, <4>1, <4>2, <1>4 DEF Ids
    <3>4. QED
      BY <3>2, <3>3
  <2>2. Ids(a) \subseteq Ids(s)
    BY <1>2, <1>4 DEF Ids
  <2>3. \A j \in 1..(Len(s) - n) : n + j \in DOMAIN s
    BY <1>4
  <2>4. Ids(b) \subseteq Ids(s)
    BY <1>3, <1>4, <2>3 DEF Ids
  <2>5. QED
    BY <2>1, <2>2, <2>4
<1>8. Ids(a) \cap Ids(b) = {}
  <2> SUFFICES ASSUME NEW i \in 1..n, NEW j \in 1..(Len(s) - n), a[i].id = b[j].id
               PROVE  FALSE
    BY <1>4 DEF Ids
  <2>1. i \in DOMAIN s /\ n + j \in DOMAIN s /\ i < n + j
    BY <1>4
  <2>2. s[i].id < s[n + j].id
    BY <2>1 DEF Increasing
  <2>3. a[i] = s[i] /\ b[j] = s[n + j]
    BY <1>2, <1>3
  <2>4. s[i].id = s[n + j].id /\ s[i].id \in Nat
    BY <2>1, <2>3, <1>5
  <2>5. QED
    BY <2>2, <2>4
<1>9. QED
  BY <1>2, <1>3, <1>6, <1>7, <1>8 DEF a, b

\* A newer event goes to the end.
LEMMA AddAtEnd ==
  ASSUME NEW s \in Seq(Snap), Increasing(s), NEW x \in Snap,
         \A e \in Ids(s) : e < x.id
  PROVE  /\ Append(s, x) \in Seq(Snap) /\ Len(Append(s, x)) = Len(s) + 1
         /\ Increasing(Append(s, x))
         /\ Ids(Append(s, x)) = Ids(s) \cup {x.id}
<1> DEFINE t == Append(s, x)
<1>1. /\ t \in Seq(Snap) /\ Len(t) = Len(s) + 1
      /\ \A i \in 1..Len(s) : t[i] = s[i]
      /\ t[Len(s) + 1] = x
  BY AppendProperties
<1> HIDE DEF t
<1>2. DOMAIN t = 1..(Len(s) + 1) /\ DOMAIN s = 1..Len(s)
  BY <1>1
<1>3. \A i \in 1..Len(s) : s[i].id < x.id
  BY <1>2 DEF Ids
<1>4. Increasing(t)
  <2> SUFFICES ASSUME NEW i \in 1..(Len(s) + 1), NEW j \in 1..(Len(s) + 1), i < j
               PROVE  t[i].id < t[j].id
    BY <1>2 DEF Increasing
  <2>1. CASE j = Len(s) + 1
    BY <2>1, <1>1, <1>3
  <2>2. CASE j # Len(s) + 1
    BY <2>2, <1>1, <1>2 DEF Increasing
  <2>3. QED
    BY <2>1, <2>2
<1>5. Ids(t) = Ids(s) \cup {x.id}
  <2>1. ASSUME NEW k \in 1..(Len(s) + 1)
        PROVE  t[k].id \in Ids(s) \cup {x.id}
    <3>1. CASE k = Len(s) + 1
      BY <3>1, <1>1
    <3>2. CASE k # Len(s) + 1
      BY <3>2, <1>1, <1>2 DEF Ids
    <3>3. QED
      BY <3>1, <3>2
  <2>2. ASSUME NEW k \in 1..Len(s)
        PROVE  s[k].id \in Ids(t)
    BY <1>1, <1>2 DEF Ids
  <2>3. x.id \in Ids(t)
    BY <1>1, <1>2 DEF Ids
  <2>4. Ids(t) \subseteq Ids(s) \cup {x.id}
    BY <2>1, <1>2 DEF Ids
  <2>5. Ids(s) \subseteq Ids(t)
    BY <2>2, <1>2 DEF Ids
  <2>6. QED
    BY <2>3, <2>4, <2>5
<1>6. QED
  BY <1>1, <1>4, <1>5 DEF t

\* Fates settles exactly the events it is given.
LEMMA FatesSettle ==
  ASSUME TypeInv, NEW ids \in SUBSET (1..MaxEvents), NEW f \in {"dropped", "written", "failed"},
         fate' = Fates(ids, f)
  PROVE  /\ fate' \in [1..MaxEvents -> {"none", "dropped", "written", "failed"}]
         /\ Settled' = Settled \cup ids
         /\ f # "dropped" => \A e \in 1..MaxEvents : fate'[e] = "dropped" => fate[e] = "dropped"
<1>1. \A e \in 1..MaxEvents : fate'[e] = IF e \in ids THEN f ELSE fate[e]
  BY DEF Fates
<1>2. fate' \in [1..MaxEvents -> {"none", "dropped", "written", "failed"}]
  BY DEF Fates, TypeInv
<1>3. Settled' = Settled \cup ids
  BY <1>1 DEF Settled
<1>4. QED
  BY <1>1, <1>2, <1>3

\* Submit's copy is a snapshot of the event.
LEMMA SnapshotIs ==
  ASSUME NEW h \in Item
  PROVE  Snapshot(h) \in Snap /\ Snapshot(h).id = h.id
BY DEF Snapshot, Snap, Item

\* OldestDroppedFirst, said of event numbers.
DroppedAreOlder ==
    \A e \in 1..MaxEvents : fate[e] = "dropped" => \A i \in Ids(queue) : e < i

\* The two forms of the property, in this state and in the next.
LEMMA OldestIs == (OldestDroppedFirst <=> DroppedAreOlder) /\ (OldestDroppedFirst <=> DroppedAreOlder)'
BY DEF OldestDroppedFirst, DroppedAreOlder, Ids

\* An empty store satisfies the invariant.
LEMMA InitStore == Init => StoreInv
<1> SUFFICES ASSUME Init PROVE StoreInv
  OBVIOUS
<1>1. jobs \in [Workers -> Job] /\ \A w \in Workers : jobs[w].pc = "idle" /\ jobs[w].batch = <<>>
  <2>1. [pc |-> "idle", batch |-> <<>>] \in Job
    BY DEF Job
  <2>2. QED
    BY <2>1 DEF Init
<1>2. TypeInv
  <2>1. caller \in [pc : {"idle", "enqueue", "stamping"}, day : Days] /\ caller.pc # "enqueue"
    BY ColdAssumption DEF Init
  <2>2. queue \in Seq(Snap) /\ Len(queue) <= QueueSize
    BY ColdAssumption DEF Init
  <2>3. submitted \in 0..MaxEvents /\ errors \in 0..MaxErrors
    BY ColdAssumption DEF Init
  <2>4. currentTable \in Days /\ tables \subseteq Days /\ listed \subseteq Days
    BY ColdAssumption DEF Init
  <2>5. fate \in [1..MaxEvents -> {"none", "dropped", "written", "failed"}]
    BY DEF Init
  <2>6. QED
    BY <1>1, <2>1, <2>2, <2>3, <2>4, <2>5 DEF Init, TypeInv
<1>3. Ids(<<>>) = {} /\ Increasing(<<>>) /\ Len(<<>>) = 0 /\ 0 <= BatchSize
  BY ColdAssumption DEF Ids, Increasing
<1>4. BatchInv
  BY <1>1, <1>3 DEF BatchInv, Init
<1>5. Settled = {} /\ Calling = {} /\ 1..0 = {}
  BY DEF Init, Settled, Calling
<1>6. Owned("flusher") = {} /\ Owned("closer") = {}
  BY <1>1, <1>3 DEF Owned, Workers
<1>7. PlaceInv
  BY <1>3, <1>5, <1>6 DEF PlaceInv, Split, Init
<1>8. OldestDroppedFirst
  BY DEF OldestDroppedFirst, Init
<1>9. QED
  BY <1>2, <1>4, <1>7, <1>8 DEF StoreInv

\* Steps that neither take an event up nor move one.
LEMMA QuietStore ==
  ASSUME StoreInv, TypeInv', UNCHANGED <<queue, jobs, fate, submitted>>, Calling' = Calling
  PROVE  StoreInv'
<1>1. BatchInv'
  BY DEF StoreInv, BatchInv
<1>2. PlaceInv'
  BY DEF StoreInv, PlaceInv, Owned, Settled
<1>3. OldestDroppedFirst'
  BY DEF StoreInv, OldestDroppedFirst
<1>4. QED
  BY <1>1, <1>2, <1>3 DEF StoreInv

\* Submit takes the next number, larger than every queued one.
LEMMA SubmitStore ==
  ASSUME StoreInv, Submit
  PROVE  StoreInv'
<1>1. /\ submitted' = submitted + 1 /\ submitted < MaxEvents /\ caller.pc = "idle"
      /\ UNCHANGED <<queue, flusherUp, jobs, ctxDone, closePc, dbVars, pruneVars, fate, errors>>
  BY DEF Submit
<1>2. PICK d \in Days : caller' = [pc |-> "enqueue", day |-> d]
  BY DEF Submit
<1>3. submitted \in Nat /\ MaxEvents \in Nat
  BY ColdAssumption DEF StoreInv, TypeInv
<1>4. TypeInv'
  BY <1>1, <1>2, <1>3 DEF StoreInv, TypeInv, dbVars, pruneVars
<1>5. BatchInv' /\ OldestDroppedFirst'
  BY <1>1 DEF StoreInv, BatchInv, OldestDroppedFirst
<1>6. /\ Calling = {} /\ Calling' = {submitted + 1}
      /\ Settled' = Settled /\ Ids(queue)' = Ids(queue)
      /\ Owned("flusher")' = Owned("flusher") /\ Owned("closer")' = Owned("closer")
  BY <1>1, <1>2 DEF Calling, Settled, Owned
<1>7. 1..(submitted + 1) = (1..submitted) \cup {submitted + 1} /\ submitted + 1 \notin 1..submitted
  BY <1>3
<1>8. PlaceInv'
  BY <1>1, <1>6, <1>7 DEF StoreInv, PlaceInv, Split
<1>9. QED
  BY <1>4, <1>5, <1>8 DEF StoreInv

\* A full queue gives up its oldest event for the new one.
LEMMA EnqueueStore ==
  ASSUME StoreInv, Enqueue
  PROVE  StoreInv'
<1> DEFINE full == Len(queue) >= QueueSize
           kept == IF full THEN Tail(queue) ELSE queue
           lost == IF full THEN {Head(queue).id} ELSE {}
           x == Snapshot(InHand)
<1>1. /\ caller.pc = "enqueue" /\ queue' = Append(kept, x)
      /\ fate' = IF full THEN Fates(lost, "dropped") ELSE fate
      /\ caller' = [caller EXCEPT !.pc = "stamping"]
      /\ UNCHANGED <<submitted, flusherUp, jobs, ctxDone, closePc, dbVars, pruneVars, errors>>
  BY DEF Enqueue
<1>2. x \in Snap /\ x.id = submitted
  <2>1. submitted \in 1..MaxEvents /\ caller.day \in Days
    BY <1>1 DEF StoreInv, TypeInv
  <2>2. InHand \in Item /\ InHand.id = submitted
    BY <2>1 DEF InHand, Item
  <2>3. QED
    BY <2>2, SnapshotIs
<1>3. queue \in Seq(Snap) /\ Increasing(queue) /\ Len(queue) <= QueueSize /\ QueueSize \in Nat \ {0}
  BY ColdAssumption DEF StoreInv, TypeInv, BatchInv
<1>4. /\ kept \in Seq(Snap) /\ Increasing(kept) /\ Len(kept) + 1 <= QueueSize
      /\ Ids(queue) = Ids(kept) \cup lost /\ Ids(kept) \cap lost = {}
      /\ \A d \in lost, e \in Ids(kept) : d < e
  <2>1. CASE full
    <3>1. queue # <<>> /\ Len(queue) >= 1 /\ 1 \in 0..Len(queue)
      BY <2>1, <1>3
    <3>2. Tail(queue) = SubSeq(queue, 2, Len(queue))
      BY <3>1, <1>3, TailIsSubSeq
    <3>3. /\ SubSeq(queue, 1, 1) \in Seq(Snap) /\ Len(SubSeq(queue, 1, 1)) = 1
          /\ SubSeq(queue, 1 + 1, Len(queue)) \in Seq(Snap)
          /\ Len(SubSeq(queue, 1 + 1, Len(queue))) = Len(queue) - 1
          /\ Increasing(SubSeq(queue, 1 + 1, Len(queue)))
          /\ Ids(SubSeq(queue, 1, 1)) \cup Ids(SubSeq(queue, 1 + 1, Len(queue))) = Ids(queue)
          /\ Ids(SubSeq(queue, 1, 1)) \cap Ids(SubSeq(queue, 1 + 1, Len(queue))) = {}
      BY <3>1, <1>3, CutInTwo
    <3>4. SubSeq(queue, 1, 1)[1] = queue[1] /\ Head(queue) = queue[1]
      BY <3>1, <1>3
    <3>5. Ids(SubSeq(queue, 1, 1)) = lost
      BY <2>1, <3>3, <3>4 DEF Ids
    <3>6. kept = SubSeq(queue, 1 + 1, Len(queue))
      BY <2>1, <3>2
    <3>7. ASSUME NEW e \in Ids(kept)
          PROVE  queue[1].id < e
      <4>1. /\ Tail(queue) \in Seq(Snap) /\ Len(Tail(queue)) = Len(queue) - 1
            /\ \A i \in 1..Len(Tail(queue)) : Tail(queue)[i] = queue[i + 1]
        BY <3>1, <1>3, HeadTailProperties
      <4>2. PICK i \in 1..(Len(queue) - 1) : e = Tail(queue)[i].id
        BY <2>1, <4>1 DEF Ids
      <4>3. e = queue[i + 1].id /\ 1 \in DOMAIN queue /\ i + 1 \in DOMAIN queue /\ 1 < i + 1
        BY <3>1, <4>1, <4>2, <1>3
      <4>4. QED
        BY <4>3, <1>3 DEF Increasing
    <3> HIDE DEF kept
    <3>8. QED
      BY <2>1, <3>1, <3>3, <3>4, <3>5, <3>6, <3>7, <1>3
  <2>2. CASE ~full
    BY <2>2, <1>3
  <2>3. QED
    BY <2>1, <2>2
<1> HIDE DEF kept, x
<1>5. lost \in SUBSET Ids(queue) /\ Ids(queue) \in SUBSET (1..MaxEvents)
  BY <1>3, <1>4, IdsInRange
<1> HIDE DEF lost
<1>6. /\ fate' \in [1..MaxEvents -> {"none", "dropped", "written", "failed"}]
      /\ Settled' = Settled \cup lost
      /\ \A e \in 1..MaxEvents : fate'[e] = "dropped" => fate[e] = "dropped" \/ e \in lost
  <2>1. CASE full
    <3>1. fate' = Fates(lost, "dropped")
      BY <2>1, <1>1
    <3>2. fate' \in [1..MaxEvents -> {"none", "dropped", "written", "failed"}] /\ Settled' = Settled \cup lost
      BY <3>1, <1>5, FatesSettle DEF StoreInv
    <3>3. \A e \in 1..MaxEvents : fate'[e] = "dropped" => fate[e] = "dropped" \/ e \in lost
      BY <3>1 DEF Fates
    <3>4. QED
      BY <3>2, <3>3
  <2>2. CASE ~full
    BY <2>2, <1>1 DEF lost, Settled, StoreInv, TypeInv
  <2>3. QED
    BY <2>1, <2>2
<1>7. /\ Calling = {submitted} /\ submitted \in Nat
      /\ Split({submitted}, Ids(queue), Owned("flusher"), Owned("closer"), Settled, submitted)
  BY <1>1 DEF Calling, StoreInv, PlaceInv, TypeInv
<1>8. \A e \in Ids(kept) : e < submitted
  <2>1. Ids(queue) \subseteq 1..submitted /\ submitted \notin Ids(queue)
    BY <1>7 DEF Split
  <2>2. QED
    BY <2>1, <1>4, <1>7
<1>9. /\ queue' \in Seq(Snap) /\ Len(queue') = Len(kept) + 1 /\ Increasing(queue')
      /\ Ids(queue') = Ids(kept) \cup {submitted}
  BY <1>1, <1>2, <1>4, <1>8, AddAtEnd
<1>10. caller' \in [pc : {"idle", "enqueue", "stamping"}, day : Days] /\ caller'.pc = "stamping"
  BY <1>1 DEF StoreInv, TypeInv
<1>11. Len(queue') <= QueueSize
  BY <1>4, <1>9
<1>12. TypeInv'
  BY <1>1, <1>6, <1>9, <1>10, <1>11 DEF StoreInv, TypeInv, dbVars, pruneVars
<1>13. BatchInv'
  BY <1>1, <1>9 DEF StoreInv, BatchInv
<1>14. Calling' = {} /\ Owned("flusher")' = Owned("flusher") /\ Owned("closer")' = Owned("closer")
  BY <1>1, <1>10 DEF Calling, Owned
<1>15. PlaceInv'
  BY <1>1, <1>4, <1>6, <1>7, <1>9, <1>14 DEF PlaceInv, Split
<1>16. OldestDroppedFirst'
  <2> SUFFICES ASSUME NEW e \in 1..MaxEvents, fate'[e] = "dropped", NEW i \in Ids(queue')
               PROVE  e < i
    BY OldestIs DEF DroppedAreOlder
  <2>1. fate[e] = "dropped" \/ e \in lost
    BY <1>6
  <2>2. i \in Ids(kept) \/ i = submitted
    BY <1>9
  <2>3. e < submitted
    <3>1. e \in Settled \/ e \in Ids(queue)
      BY <2>1, <1>5 DEF Settled
    <3>2. e \in 1..submitted /\ e # submitted
      BY <3>1, <1>7 DEF Split
    <3>3. QED
      BY <3>2, <1>7
  <2>4. CASE fate[e] = "dropped" /\ i \in Ids(kept)
    BY <2>4, <1>4, OldestIs DEF StoreInv, DroppedAreOlder
  <2>5. CASE e \in lost /\ i \in Ids(kept)
    BY <2>5, <1>4
  <2>6. QED
    BY <2>1, <2>2, <2>3, <2>4, <2>5
<1>17. QED
  BY <1>12, <1>13, <1>15, <1>16 DEF StoreInv

\* Giving one flush another batch.
LEMMA OtherBatch ==
  ASSUME StoreInv, NEW w \in Workers, NEW new \in Job, jobs' = [jobs EXCEPT ![w] = new],
         new.pc = "idle" <=> new.batch = <<>>, Len(new.batch) <= BatchSize, Increasing(new.batch)
  PROVE  /\ jobs' \in [Workers -> Job]
         /\ \A v \in Workers : /\ jobs'[v].pc = "idle" <=> jobs'[v].batch = <<>>
                               /\ Len(jobs'[v].batch) <= BatchSize
                               /\ Increasing(jobs'[v].batch)
         /\ Owned(w)' = Ids(new.batch)
         /\ \A v \in Workers \ {w} : Owned(v)' = Owned(v)
<1>1. jobs \in [Workers -> Job]
  BY DEF StoreInv, TypeInv
<1>2. jobs' \in [Workers -> Job] /\ jobs'[w] = new /\ \A v \in Workers \ {w} : jobs'[v] = jobs[v]
  BY <1>1
<1>3. Owned(w)' = Ids(new.batch) /\ \A v \in Workers \ {w} : Owned(v)' = Owned(v)
  BY <1>2 DEF Owned
<1>4. ASSUME NEW v \in Workers
      PROVE  /\ jobs'[v].pc = "idle" <=> jobs'[v].batch = <<>>
             /\ Len(jobs'[v].batch) <= BatchSize
             /\ Increasing(jobs'[v].batch)
  <2>1. CASE v = w
    BY <2>1, <1>2
  <2>2. CASE v # w
    BY <2>2, <1>2 DEF StoreInv, BatchInv
  <2>3. QED
    BY <2>1, <2>2
<1>5. QED
  BY <1>2, <1>3, <1>4

\* A flush takes a prefix of the queue, so what stays queued is newer.
LEMMA TakeBatchStore ==
  ASSUME StoreInv, NEW w \in Workers, TakeBatch(w),
         UNCHANGED <<caller, submitted, ctxDone, dbVars, pruneVars, fate, errors>>,
         flusherUp' \in BOOLEAN, closePc' \in {"open", "flush", "db", "closed"}
  PROVE  StoreInv'
<1> DEFINE n == BatchLen
           a == SubSeq(queue, 1, n)
           b == SubSeq(queue, n + 1, Len(queue))
           new == [pc |-> "table", batch |-> a]
<1>1. /\ jobs[w].pc = "idle" /\ queue # <<>> /\ queue' = b
      /\ jobs' = [jobs EXCEPT ![w] = new]
  BY DEF TakeBatch
<1>2. queue \in Seq(Snap) /\ Increasing(queue) /\ Len(queue) <= QueueSize
  BY DEF StoreInv, TypeInv, BatchInv
<1>3. n \in 1..Len(queue) /\ n <= BatchSize
  <2>1. Len(queue) \in Nat /\ Len(queue) >= 1 /\ BatchSize \in Nat /\ BatchSize >= 1
    BY <1>1, <1>2, ColdAssumption
  <2>2. QED
    BY <2>1 DEF BatchLen
<1> HIDE DEF n
<1>4. /\ a \in Seq(Snap) /\ Len(a) = n /\ Increasing(a)
      /\ b \in Seq(Snap) /\ Len(b) = Len(queue) - n /\ Increasing(b)
      /\ Ids(a) \cup Ids(b) = Ids(queue) /\ Ids(a) \cap Ids(b) = {}
  <2>1. n \in 0..Len(queue)
    BY <1>3
  <2>2. QED
    BY <1>2, <2>1, CutInTwo
<1> HIDE DEF a, b
<1>5. new \in Job /\ new.pc # "idle" /\ new.batch = a /\ a # <<>>
  BY <1>3, <1>4 DEF Job
<1> HIDE DEF new
<1>6. /\ jobs' \in [Workers -> Job]
      /\ \A v \in Workers : /\ jobs'[v].pc = "idle" <=> jobs'[v].batch = <<>>
                            /\ Len(jobs'[v].batch) <= BatchSize
                            /\ Increasing(jobs'[v].batch)
      /\ Owned(w)' = Ids(a)
      /\ \A v \in Workers \ {w} : Owned(v)' = Owned(v)
  BY <1>1, <1>3, <1>4, <1>5, OtherBatch
<1>7. Owned(w) = {}
  BY <1>1 DEF StoreInv, BatchInv, Owned, Ids
<1>8. Len(queue') <= QueueSize
  BY <1>1, <1>2, <1>3, <1>4, ColdAssumption
<1>9. TypeInv'
  BY <1>1, <1>4, <1>6, <1>8 DEF StoreInv, TypeInv, dbVars, pruneVars
<1>10. BatchInv'
  BY <1>1, <1>4, <1>6 DEF BatchInv
<1>11. PlaceInv'
  <2>1. Calling' = Calling /\ Settled' = Settled /\ Ids(queue') = Ids(b)
    BY <1>1 DEF Calling, Settled
  <2>2. CASE w = "flusher"
    BY <2>1, <2>2, <1>4, <1>6, <1>7 DEF StoreInv, PlaceInv, Split, Workers
  <2>3. CASE w = "closer"
    BY <2>1, <2>3, <1>4, <1>6, <1>7 DEF StoreInv, PlaceInv, Split, Workers
  <2>4. QED
    BY <2>2, <2>3 DEF Workers
<1>12. OldestDroppedFirst'
  <2>1. Ids(queue') \subseteq Ids(queue)
    BY <1>1, <1>4
  <2>2. QED
    BY <2>1, OldestIs DEF StoreInv, DroppedAreOlder
<1>13. QED
  BY <1>9, <1>10, <1>11, <1>12 DEF StoreInv

\* Settling a part of a batch: the rest stays with the flush.
LEMMA SettleStore ==
  ASSUME StoreInv, NEW w \in Workers, NEW ids \in SUBSET Owned(w),
         NEW f \in {"written", "failed"}, fate' = Fates(ids, f),
         NEW new \in Job, jobs' = [jobs EXCEPT ![w] = new],
         new.pc = "idle" <=> new.batch = <<>>, Len(new.batch) <= BatchSize, Increasing(new.batch),
         Ids(new.batch) = Owned(w) \ ids,
         errors' \in 0..MaxErrors,
         UNCHANGED <<caller, submitted, queue, flusherUp, ctxDone, closePc, dbVars, pruneVars>>
  PROVE  StoreInv'
<1>1. /\ jobs' \in [Workers -> Job]
      /\ \A v \in Workers : /\ jobs'[v].pc = "idle" <=> jobs'[v].batch = <<>>
                            /\ Len(jobs'[v].batch) <= BatchSize
                            /\ Increasing(jobs'[v].batch)
      /\ Owned(w)' = Owned(w) \ ids
      /\ \A v \in Workers \ {w} : Owned(v)' = Owned(v)
  BY OtherBatch
<1>2. ids \in SUBSET (1..MaxEvents)
  <2>1. jobs[w].batch \in Seq(Snap)
    BY DEF StoreInv, TypeInv, Job
  <2>2. QED
    BY <2>1, IdsInRange DEF Owned
<1>3. /\ fate' \in [1..MaxEvents -> {"none", "dropped", "written", "failed"}]
      /\ Settled' = Settled \cup ids
      /\ \A e \in 1..MaxEvents : fate'[e] = "dropped" => fate[e] = "dropped"
  BY <1>2, FatesSettle DEF StoreInv
<1>4. TypeInv'
  BY <1>1, <1>3 DEF StoreInv, TypeInv, dbVars, pruneVars
<1>5. BatchInv'
  BY <1>1 DEF StoreInv, BatchInv
<1>6. PlaceInv'
  <2>1. Calling' = Calling
    BY DEF Calling
  <2>2. CASE w = "flusher"
    BY <2>1, <2>2, <1>1, <1>3 DEF StoreInv, PlaceInv, Split, Workers
  <2>3. CASE w = "closer"
    BY <2>1, <2>3, <1>1, <1>3 DEF StoreInv, PlaceInv, Split, Workers
  <2>4. QED
    BY <2>2, <2>3 DEF Workers
<1>7. OldestDroppedFirst'
  BY <1>3 DEF StoreInv, OldestDroppedFirst
<1>8. QED
  BY <1>4, <1>5, <1>6, <1>7 DEF StoreInv

\* A flush that meets an error settles the rest of its batch as failed.
LEMMA GiveUpStore ==
  ASSUME StoreInv, NEW w \in Workers, GiveUp(w), UNCHANGED errors \/ Refused,
         UNCHANGED <<caller, submitted, queue, flusherUp, ctxDone, closePc, dbVars, pruneVars>>
  PROVE  StoreInv'
<1> DEFINE new == [pc |-> "idle", batch |-> <<>>]
<1>1. fate' = Fates(Owned(w), "failed") /\ jobs' = [jobs EXCEPT ![w] = new]
  BY DEF GiveUp, Owned
<1>2. new \in Job /\ new.pc = "idle" /\ new.batch = <<>>
  BY DEF Job
<1>3. Len(<<>>) <= BatchSize /\ Increasing(<<>>) /\ Ids(<<>>) = {}
  BY ColdAssumption DEF Increasing, Ids
<1>4. errors' \in 0..MaxErrors
  BY ColdAssumption DEF StoreInv, TypeInv, Refused
<1> HIDE DEF new
<1>5. Ids(new.batch) = Owned(w) \ Owned(w) /\ Owned(w) \in SUBSET Owned(w)
  BY <1>2, <1>3
<1>6. QED
  BY <1>1, <1>2, <1>3, <1>4, <1>5, SettleStore

\* A write settles the events of one day and keeps the rest in the batch.
LEMMA WriteBatchStore ==
  ASSUME StoreInv, NEW w \in Workers, WriteBatch(w)
  PROVE  StoreInv'
<1> DEFINE b == jobs[w].batch
           n == GroupLen(b)
           there == dbOpen /\ Day(w) \in tables
           g == SubSeq(b, 1, n)
           r == SubSeq(b, n + 1, Len(b))
           new == [pc |-> IF n = Len(b) THEN "idle" ELSE "table", batch |-> r]
<1>1. UNCHANGED <<caller, submitted, queue, flusherUp, ctxDone, closePc, dbVars, pruneVars>>
  BY DEF WriteBatch
<1>2. CASE GiveUp(w) /\ (UNCHANGED errors \/ Refused)
  BY <1>1, <1>2, GiveUpStore
<1>3. CASE /\ fate' = Fates(Ids(g), "written")
           /\ jobs' = [jobs EXCEPT ![w] = new]
           /\ UNCHANGED errors
  <2>1. /\ b \in Seq(Snap) /\ b # <<>> /\ Len(b) <= BatchSize /\ Increasing(b)
    BY DEF WriteBatch, StoreInv, TypeInv, BatchInv, Job
  <2>2. n \in 1..Len(b)
    <3>1. \A i \in 1..Len(b) : b[i] \in Item
      <4>1. \A x \in Snap : x \in Item
        BY DEF Snap, Item
      <4>2. QED
        BY <2>1, <4>1
    <3>2. b \in Seq(Item)
      BY <2>1, <3>1
    <3>3. QED
      BY <2>1, <3>2, GroupLenIs
  <2> HIDE DEF n, b
  <2>3. /\ Len(g) = n
        /\ r \in Seq(Snap) /\ Len(r) = Len(b) - n /\ Increasing(r)
        /\ Ids(g) \cup Ids(r) = Ids(b) /\ Ids(g) \cap Ids(r) = {}
    <3>1. n \in 0..Len(b)
      BY <2>2
    <3>2. QED
      BY <2>1, <3>1, CutInTwo
  <2> HIDE DEF g, r
  <2>4. new \in Job /\ new.batch = r /\ (new.pc = "idle" <=> n = Len(b))
    BY <2>3 DEF Job
  <2>5. r = <<>> <=> n = Len(b)
    BY <2>1, <2>2, <2>3
  <2>6. Len(r) <= BatchSize
    BY <2>1, <2>2, <2>3, ColdAssumption
  <2> HIDE DEF new
  <2>7. Owned(w) = Ids(b) /\ errors' \in 0..MaxErrors
    BY <1>3 DEF Owned, b, StoreInv, TypeInv
  <2>8. Ids(g) \in SUBSET Owned(w) /\ Ids(new.batch) = Owned(w) \ Ids(g)
    BY <2>3, <2>4, <2>7
  <2>9. QED
    BY <1>1, <1>3, <2>3, <2>4, <2>5, <2>6, <2>7, <2>8, SettleStore
<1>4. QED
  BY <1>2, <1>3 DEF WriteBatch

\* A table that is ready moves no event; one that is refused gives the batch up.
LEMMA EnsureTableStore ==
  ASSUME StoreInv, NEW w \in Workers, EnsureTable(w)
  PROVE  StoreInv'
<1>1. /\ jobs[w].pc = "table"
      /\ UNCHANGED <<caller, submitted, queue, flusherUp, ctxDone, closePc, pruneVars>>
  BY DEF EnsureTable
<1>2. CASE GiveUp(w) /\ (UNCHANGED errors \/ Refused) /\ UNCHANGED dbVars
  BY <1>1, <1>2, GiveUpStore
<1>3. CASE /\ tables' = IF currentTable = Day(w) THEN tables ELSE tables \cup {Day(w)}
           /\ currentTable' = Day(w)
           /\ jobs' = [jobs EXCEPT ![w].pc = "write"]
           /\ UNCHANGED <<fate, errors>>
  <2> DEFINE b == jobs[w].batch
             new == [jobs[w] EXCEPT !.pc = "write"]
  <2>1. jobs[w] \in Job /\ b \in Seq(Snap) /\ b # <<>> /\ Len(b) <= BatchSize /\ Increasing(b)
    BY <1>1 DEF StoreInv, TypeInv, BatchInv, Job
  <2>2. new \in Job /\ new.pc = "write" /\ new.batch = b
    BY <2>1 DEF Job
  <2>3. Day(w) \in Days
    <3>1. b[1] \in Snap
      BY <2>1
    <3>2. QED
      BY <3>1, SnapFields DEF Day
  <2>4. jobs' = [jobs EXCEPT ![w] = new]
    BY <1>3
  <2> HIDE DEF new
  <2>5. /\ jobs' \in [Workers -> Job]
        /\ \A v \in Workers : /\ jobs'[v].pc = "idle" <=> jobs'[v].batch = <<>>
                              /\ Len(jobs'[v].batch) <= BatchSize
                              /\ Increasing(jobs'[v].batch)
        /\ Owned(w)' = Ids(b)
        /\ \A v \in Workers \ {w} : Owned(v)' = Owned(v)
    BY <2>1, <2>2, <2>4, OtherBatch
  <2>6. TypeInv'
    BY <1>1, <1>3, <2>3, <2>5 DEF StoreInv, TypeInv, pruneVars
  <2>7. BatchInv'
    BY <1>1, <2>5 DEF StoreInv, BatchInv
  <2>8. Owned("flusher")' = Owned("flusher") /\ Owned("closer")' = Owned("closer")
    BY <2>5 DEF Owned, Workers
  <2>9. PlaceInv'
    BY <1>1, <1>3, <2>8 DEF StoreInv, PlaceInv, Calling, Settled
  <2>10. OldestDroppedFirst'
    BY <1>1, <1>3 DEF StoreInv, OldestDroppedFirst
  <2>11. QED
    BY <2>6, <2>7, <2>9, <2>10 DEF StoreInv
<1>4. QED
  BY <1>2, <1>3 DEF EnsureTable

\* The pipeline's later stages, the pruner and the signal.
LEMMA OthersStore ==
  ASSUME StoreInv, Stamp \/ PruneList \/ PruneCheck \/ PruneDrop \/ Cancel
  PROVE  StoreInv'
<1>1. UNCHANGED <<queue, jobs, fate, submitted, flusherUp, closePc>>
  BY DEF Stamp, PruneList, PruneCheck, PruneDrop, Cancel
<1>2. /\ caller' \in [pc : {"idle", "enqueue", "stamping"}, day : Days]
      /\ caller'.pc = "enqueue" <=> caller.pc = "enqueue"
  BY DEF StoreInv, TypeInv, Stamp, PruneList, PruneCheck, PruneDrop, Cancel
<1>3. Calling' = Calling
  BY <1>1, <1>2 DEF Calling
<1>4. ctxDone' \in BOOLEAN /\ currentTable' \in Days
  BY DEF StoreInv, TypeInv, Stamp, PruneList, PruneCheck, PruneDrop, Cancel, dbVars
<1>5. tables' \subseteq Days /\ listed' \subseteq Days /\ victim' \in Days \cup {0}
  BY DEF StoreInv, TypeInv, Stamp, PruneList, PruneCheck, PruneDrop, Cancel, dbVars, pruneVars
<1>6. errors' \in 0..MaxErrors
  BY ColdAssumption
     DEF StoreInv, TypeInv, Stamp, PruneList, PruneCheck, PruneDrop, Cancel, Refused
<1>7. TypeInv'
  BY <1>1, <1>2, <1>4, <1>5, <1>6 DEF StoreInv, TypeInv
<1>8. QED
  BY <1>1, <1>3, <1>7, QuietStore

\* The flusher ends, at a cancel with one last batch.
LEMMA FlusherEndsStore ==
  ASSUME StoreInv, FlusherEnds
  PROVE  StoreInv'
<1>1. /\ flusherUp' = FALSE
      /\ UNCHANGED <<caller, submitted, ctxDone, closePc, dbVars, pruneVars, fate, errors>>
  BY DEF FlusherEnds
<1>2. CASE TakeBatch("flusher")
  BY <1>1, <1>2, TakeBatchStore DEF Workers, StoreInv, TypeInv
<1>3. CASE UNCHANGED <<queue, jobs>>
  <2>1. TypeInv'
    BY <1>1, <1>3 DEF StoreInv, TypeInv, dbVars, pruneVars
  <2>2. QED
    BY <1>1, <1>3, <2>1, QuietStore DEF Calling
<1>4. QED
  BY <1>2, <1>3 DEF FlusherEnds

\* Close flushes one batch and closes the database after it.
LEMMA CloseStore ==
  ASSUME StoreInv, Close
  PROVE  StoreInv'
<1>1. /\ closePc' \in {"open", "flush", "db", "closed"}
      /\ UNCHANGED <<caller, submitted, flusherUp, ctxDone, dbVars, pruneVars, fate, errors>>
  BY DEF Close
<1>2. CASE TakeBatch("closer")
  BY <1>1, <1>2, TakeBatchStore DEF Workers, StoreInv, TypeInv
<1>3. CASE UNCHANGED <<queue, jobs>>
  <2>1. TypeInv'
    BY <1>1, <1>3 DEF StoreInv, TypeInv, dbVars, pruneVars
  <2>2. QED
    BY <1>1, <1>3, <2>1, QuietStore DEF Calling
<1>4. QED
  BY <1>2, <1>3 DEF Close

\* Every step keeps the invariant.
LEMMA StoreInductive == StoreInv /\ [Next]_vars => StoreInv'
<1> SUFFICES ASSUME StoreInv, [Next]_vars
             PROVE  StoreInv'
  OBVIOUS
<1>1. CASE UNCHANGED vars
  <2>1. TypeInv' /\ UNCHANGED <<queue, jobs, fate, submitted, caller>>
    BY <1>1 DEF vars, dbVars, pruneVars, StoreInv, TypeInv
  <2>2. QED
    BY <2>1, QuietStore DEF Calling
<1>2. CASE Submit
  BY <1>2, SubmitStore
<1>3. CASE Enqueue
  BY <1>3, EnqueueStore
<1>4. CASE Stamp \/ PruneList \/ PruneCheck \/ PruneDrop \/ Cancel
  BY <1>4, OthersStore
<1>5. CASE FlushTick
  BY <1>5, TakeBatchStore DEF FlushTick, Workers, StoreInv, TypeInv
<1>6. CASE FlusherEnds
  BY <1>6, FlusherEndsStore
<1>7. CASE FlushStep
  BY <1>7, EnsureTableStore, WriteBatchStore DEF FlushStep
<1>8. CASE Close
  BY <1>8, CloseStore
<1>9. QED
  BY <1>1, <1>2, <1>3, <1>4, <1>5, <1>6, <1>7, <1>8 DEF Next

\* The invariant holds in every behaviour.
LEMMA StoreInvariant == Spec => []StoreInv
BY InitStore, StoreInductive, PTL DEF Spec

-----------------------------------------------------------------------------
\* The state stays in its domain; the queue never outgrows its bound.
THEOREM StoreTypes == Spec => []TypeOK
<1>1. StoreInv => TypeOK
  <2> SUFFICES ASSUME StoreInv PROVE TypeOK
    OBVIOUS
  <2>1. \A s \in Seq(Snap) : s \in Seq(Item)
    <3>1. \A x \in Snap : x \in Item
      BY DEF Snap, Item
    <3>2. QED
      BY <3>1
  <2>2. queue \in Seq(Item)
    BY <2>1 DEF StoreInv, TypeInv
  <2>3. ASSUME NEW w \in Workers
        PROVE  /\ jobs[w].batch \in Seq(Item)
               /\ jobs[w].pc \in {"idle", "table", "write"}
               /\ jobs[w].pc = "idle" <=> jobs[w].batch = <<>>
    <3>1. jobs[w] \in Job
      BY DEF StoreInv, TypeInv
    <3>2. QED
      BY <2>1, <3>1 DEF Job, StoreInv, BatchInv
  <2>4. QED
    BY <2>2, <2>3 DEF StoreInv, TypeInv, TypeOK
<1>2. QED
  BY <1>1, StoreInvariant, PTL

\* No flush marshals a map the pipeline is stamping, whatever the batch size
\* and however far the flushes lag behind Submit: every event a flush holds is
\* a snapshot.
THEOREM FlushesOwnTheirMaps == Spec => []FlushNeverRaces
<1>1. StoreInv => FlushNeverRaces
  <2> SUFFICES ASSUME StoreInv, NEW w \in Workers, NEW k \in DOMAIN jobs[w].batch
               PROVE  ~jobs[w].batch[k].shared
    BY DEF FlushNeverRaces
  <2>1. jobs[w].batch \in Seq(Snap)
    BY DEF StoreInv, TypeInv, Job
  <2>2. jobs[w].batch[k] \in Snap
    BY <2>1
  <2>3. QED
    BY <2>2, SnapFields
<1>2. QED
  BY <1>1, StoreInvariant, PTL

\* A full queue of any size drops only events older than all it keeps.
THEOREM OldestGoesFirst == Spec => []OldestDroppedFirst
<1>1. StoreInv => OldestDroppedFirst
  BY DEF StoreInv
<1>2. QED
  BY <1>1, StoreInvariant, PTL

\* An event is at one position of an ordered queue or batch, or at none.
LEMMA PositionsOf ==
  ASSUME NEW s \in Seq(Snap), Increasing(s), NEW e
  PROVE  \/ e \in Ids(s) /\ \E k \in DOMAIN s : {i \in DOMAIN s : s[i].id = e} = {k}
         \/ e \notin Ids(s) /\ {i \in DOMAIN s : s[i].id = e} = {}
<1>1. CASE e \notin Ids(s)
  BY <1>1 DEF Ids
<1>2. CASE e \in Ids(s)
  <2>1. PICK k \in DOMAIN s : s[k].id = e
    BY <1>2 DEF Ids
  <2>2. \A i \in DOMAIN s : s[i].id \in Nat
    BY IdsInRange
  <2>3. ASSUME NEW i \in DOMAIN s, s[i].id = e
        PROVE  i = k
    <3>1. i \in Int /\ k \in Int /\ ~(i < k) /\ ~(k < i)
      BY <2>1, <2>2, <2>3 DEF Increasing
    <3>2. QED
      BY <3>1
  <2>4. {i \in DOMAIN s : s[i].id = e} = {k}
    BY <2>1, <2>3
  <2>5. QED
    BY <1>2, <2>4
<1>3. QED
  BY <1>1, <1>2

\* Through any number of concurrent Submits, flushes, failing statements and
\* a Close, every event submitted is in exactly one place.
THEOREM NothingIsLostOrDoubled == Spec => []Accounted
<1>1. StoreInv => Accounted
  <2> SUFFICES ASSUME StoreInv, NEW e \in 1..MaxEvents
               PROVE  Cardinality({k \in DOMAIN queue : queue[k].id = e})
                        + Cardinality({p \in Workers \X (1..BatchSize) :
                              p[2] \in DOMAIN jobs[p[1]].batch /\ jobs[p[1]].batch[p[2]].id = e})
                        + (IF caller.pc = "enqueue" /\ e = submitted THEN 1 ELSE 0)
                        + (IF fate[e] # "none" THEN 1 ELSE 0)
                      = IF e <= submitted THEN 1 ELSE 0
    BY DEF Accounted
  <2> DEFINE inQueue == {k \in DOMAIN queue : queue[k].id = e}
             inBatch == {p \in Workers \X (1..BatchSize) :
                           p[2] \in DOMAIN jobs[p[1]].batch /\ jobs[p[1]].batch[p[2]].id = e}
  <2>1. Split(Calling, Ids(queue), Owned("flusher"), Owned("closer"), Settled, submitted)
    BY DEF StoreInv, PlaceInv
  <2>2. Cardinality(inQueue) = IF e \in Ids(queue) THEN 1 ELSE 0
    <3>1. queue \in Seq(Snap) /\ Increasing(queue)
      BY DEF StoreInv, TypeInv, BatchInv
    <3>2. \/ e \in Ids(queue) /\ \E k \in DOMAIN queue : inQueue = {k}
          \/ e \notin Ids(queue) /\ inQueue = {}
      BY <3>1, PositionsOf
    <3> HIDE DEF inQueue
    <3>3. QED
      BY <3>2, FS_Singleton, FS_EmptySet
  <2>3. Cardinality(inBatch) = IF e \in Owned("flusher") \cup Owned("closer") THEN 1 ELSE 0
    <3>1. ASSUME NEW w \in Workers
          PROVE  /\ \/ e \in Owned(w) /\ \E k \in DOMAIN jobs[w].batch :
                                           {i \in DOMAIN jobs[w].batch : jobs[w].batch[i].id = e} = {k}
                    \/ e \notin Owned(w) /\ {i \in DOMAIN jobs[w].batch : jobs[w].batch[i].id = e} = {}
                 /\ DOMAIN jobs[w].batch \subseteq 1..BatchSize
      <4>1. jobs[w].batch \in Seq(Snap) /\ Increasing(jobs[w].batch) /\ Len(jobs[w].batch) <= BatchSize
        BY DEF StoreInv, TypeInv, BatchInv, Job
      <4>2. DOMAIN jobs[w].batch \subseteq 1..BatchSize
        BY <4>1, ColdAssumption
      <4>3. QED
        BY <4>1, <4>2, PositionsOf DEF Owned
    <3>2. ~(e \in Owned("flusher") /\ e \in Owned("closer"))
      BY <2>1 DEF Split
    <3>3. ASSUME NEW w \in Workers, e \in Owned(w)
          PROVE  \E p : inBatch = {p}
      <4>1. PICK k \in DOMAIN jobs[w].batch :
                   {i \in DOMAIN jobs[w].batch : jobs[w].batch[i].id = e} = {k}
        BY <3>1, <3>3
      <4>2. k \in 1..BatchSize /\ jobs[w].batch[k].id = e
        BY <3>1, <4>1
      <4>3. <<w, k>> \in inBatch
        BY <4>1, <4>2
      <4>4. ASSUME NEW p \in inBatch
            PROVE  p = <<w, k>>
        <5>1. PICK v \in Workers, i \in 1..BatchSize :
                     p = <<v, i>> /\ i \in DOMAIN jobs[v].batch /\ jobs[v].batch[i].id = e
          OBVIOUS
        <5>2. e \in Owned(v)
          BY <5>1 DEF Owned, Ids
        <5>3. v = w
          BY <5>2, <3>2, <3>3 DEF Workers
        <5>4. i = k
          BY <5>1, <5>3, <4>1
        <5>5. QED
          BY <5>1, <5>3, <5>4
      <4> HIDE DEF inBatch
      <4>5. inBatch = {<<w, k>>}
        BY <4>3, <4>4
      <4>6. QED
        BY <4>5, Zenon
    <3>4. ASSUME e \notin Owned("flusher") \cup Owned("closer")
          PROVE  inBatch = {}
      <4> SUFFICES ASSUME NEW v \in Workers, NEW i \in DOMAIN jobs[v].batch, jobs[v].batch[i].id = e
                   PROVE  FALSE
        OBVIOUS
      <4>1. e \in Owned(v)
        BY DEF Owned, Ids
      <4>2. QED
        BY <4>1, <3>4 DEF Workers
    <3> HIDE DEF inBatch
    <3>5. CASE e \in Owned("flusher") \cup Owned("closer")
      <4>1. \E p : inBatch = {p}
        BY <3>3, <3>5 DEF Workers
      <4>2. QED
        BY <3>5, <4>1, FS_Singleton
    <3>6. CASE e \notin Owned("flusher") \cup Owned("closer")
      BY <3>4, <3>6, FS_EmptySet
    <3>7. QED
      BY <3>5, <3>6
  <2>4. (caller.pc = "enqueue" /\ e = submitted) <=> e \in Calling
    BY DEF Calling
  <2>5. fate[e] # "none" <=> e \in Settled
    BY DEF Settled
  <2>6. e <= submitted <=> e \in 1..submitted
    BY DEF StoreInv, TypeInv
  <2> HIDE DEF inQueue, inBatch
  <2>7. Cardinality(inQueue) + Cardinality(inBatch)
          + (IF caller.pc = "enqueue" /\ e = submitted THEN 1 ELSE 0)
          + (IF fate[e] # "none" THEN 1 ELSE 0) = IF e <= submitted THEN 1 ELSE 0
    <3>1. CASE e \in Ids(queue)
      BY <3>1, <2>1, <2>2, <2>3, <2>4, <2>5, <2>6 DEF Split
    <3>2. CASE e \in Owned("flusher") \cup Owned("closer")
      BY <3>2, <2>1, <2>2, <2>3, <2>4, <2>5, <2>6 DEF Split
    <3>3. CASE e \in Calling
      BY <3>3, <2>1, <2>2, <2>3, <2>4, <2>5, <2>6 DEF Split
    <3>4. CASE e \in Settled
      BY <3>4, <2>1, <2>2, <2>3, <2>4, <2>5, <2>6 DEF Split
    <3>5. CASE e \notin 1..submitted
      BY <3>5, <2>1, <2>2, <2>3, <2>4, <2>5, <2>6 DEF Split
    <3>6. QED
      BY <3>1, <3>2, <3>3, <3>4, <3>5, <2>1 DEF Split
  <2>8. QED
    BY <2>7 DEF inQueue, inBatch
<1>2. QED
  BY <1>1, StoreInvariant, PTL
=============================================================================
