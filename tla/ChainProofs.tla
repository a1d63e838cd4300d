---------------------------- MODULE ChainProofs ----------------------------
(***************************************************************************)
(* Proofs about the forensic chain for every batch cap, retention limit,   *)
(* event size and number of events, failures, crashes and damaged files.   *)
(***************************************************************************)
EXTENDS Chain, FiniteSetTheorems, SequenceTheorems, WellFoundedInduction, TLAPS

(***************************************************************************)
(* The inductive invariant.  TailSurvives alone is not inductive: that a   *)
(* finalise creates the next id needs the id in memory, which after a      *)
(* restart comes from the header of the newest file; and that rotation     *)
(* spares the tail needs what the list of files to remove was built from.  *)
(***************************************************************************)
IdsInv ==
    /\ \A i \in batchFiles(disk) : i < Len(written) /\ disk[i].id = i
    /\ written # <<>> => Len(written) - 1 \in batchFiles(disk)
    /\ up => nextBatchID = Len(written)
    /\ \A i \in doomed : i + 1 < Len(written)
    /\ pc = "write" => up /\ current # <<>>

\* The hash the next batch has to carry.
TailHash == IF written = <<>> THEN ZeroHash ELSE FileHash(written[Len(written)])

\* While the disk is sound, files are what was written, what was written is
\* linked, and the daemon holds the hash of the newest file.
LinkInv ==
    damage = 0 =>
        /\ \A i \in batchFiles(disk) : disk[i] = written[i + 1]
        /\ \A k \in 1..Len(written) :
              k + 1 \in 1..Len(written) => written[k + 1].prev = FileHash(written[k])
        /\ up => prevHash = TailHash

ChainInv == TypeOK /\ IdsInv /\ LinkInv

-----------------------------------------------------------------------------
\* The empty batch and the zero hash are well formed.
LEMMA EmptyTypes == <<>> \in Body /\ ZeroHash \in Hash
BY DEF Body, Hash, ZeroHash

\* A file's hash is a hash.
LEMMA FileHashType ==
    ASSUME NEW b \in BatchRecord PROVE FileHash(b) \in Hash
BY DEF FileHash, BatchRecord, Hash, Link, Signed

\* The batch finaliseLocked seals is a well-formed batch.
LEMMA SealedType ==
    ASSUME TypeOK PROVE SealedBatch \in BatchRecord
BY DEF TypeOK, SealedBatch, BatchRecord, Meta

\* Damage leaves a well-formed batch with the same id.
LEMMA DamageType ==
    ASSUME NEW b \in BatchRecord, NEW c \in DamagedForms(b)
    PROVE  c \in BatchRecord /\ c.id = b.id
<1>1. Garbage \in Body /\ GarbageHash \in Hash
  BY DEF Garbage, GarbageHash, Body, Hash, Link, Meta
<1>2. QED
  BY <1>1 DEF DamagedForms, BatchRecord, Meta

\* Rotation never lists the newest file.
LEMMA ExcessSparesTail ==
    ASSUME MaxBatches > 0, NEW d, NEW n \in Nat, DOMAIN d \subseteq Nat,
           \A i \in DOMAIN d : i <= n,
           NEW i \in Excess(d)
    PROVE  i \in DOMAIN d /\ i < n
<1>1. i \in DOMAIN d
  BY DEF Excess, batchFiles
<1>2. CASE i = n
  <2>1. {j \in DOMAIN d : j > i} = {}
    BY <1>2
  <2>2. Cardinality({j \in DOMAIN d : j > i}) = 0
    BY <2>1, FS_EmptySet
  <2>3. QED
    BY <2>2, ChainAssumption DEF Excess, batchFiles
<1>3. QED
  BY <1>1, <1>2

-----------------------------------------------------------------------------
\* The empty chain satisfies the invariant.
LEMMA ChainInitInv == Init => ChainInv
<1> SUFFICES ASSUME Init PROVE ChainInv
  OBVIOUS
<1>1. batchFiles(disk) = {} /\ disk = [i \in batchFiles(disk) |-> disk[i]]
  BY DEF Init, batchFiles
<1>2. written = <<>> /\ written \in Seq(BatchRecord) /\ Len(written) = 0
  BY DEF Init
<1>3. TypeOK
  BY <1>1, <1>2, EmptyTypes DEF Init, TypeOK
<1>4. IdsInv /\ LinkInv
  BY <1>1, <1>2 DEF Init, IdsInv, LinkInv
<1>5. QED BY <1>3, <1>4 DEF ChainInv

\* Every action but RenameBatch leaves the types and the ids in order, by the
\* small part of the state it touches; RenameBatch extends both ends at once.
LEMMA ChainNextInv ==
    ASSUME ChainInv, [Next]_vars PROVE ChainInv'
<1> USE ChainAssumption DEF ChainInv
<1>1. CASE New
  <2>1. TypeOK' /\ IdsInv'
    <3>1. CASE batchFiles(disk) = {} /\ nextBatchID' = 0 /\ prevHash' = ZeroHash
      BY <1>1, <3>1 DEF New, TypeOK, IdsInv, batchFiles, ghosts, Hash, ZeroHash
    <3>2. ASSUME NEW i \in batchFiles(disk), IsLast(disk, i), SeedFrom(i)
          PROVE  TypeOK' /\ IdsInv'
      <4>1. disk[i] \in BatchRecord /\ disk[i].id = i /\ i \in Nat
        BY DEF TypeOK, IdsInv
      <4>2. i = Len(written) - 1
        BY <3>2, <4>1 DEF TypeOK, IdsInv, IsLast
      <4>3. nextBatchID' = Len(written) /\ nextBatchID' \in Nat /\ prevHash' \in Hash
        BY <3>2, <4>1, <4>2, FileHashType DEF SeedFrom, TypeOK
      <4>4. QED
        BY <1>1, <4>3 DEF New, TypeOK, IdsInv, batchFiles, ghosts
    <3>3. QED
      BY <1>1, <3>1, <3>2 DEF New
  <2>2. LinkInv'
    <3>1. CASE batchFiles(disk) = {} /\ nextBatchID' = 0 /\ prevHash' = ZeroHash
      BY <1>1, <3>1 DEF New, TypeOK, IdsInv, LinkInv, TailHash, batchFiles, ghosts
    <3>2. ASSUME NEW i \in batchFiles(disk), IsLast(disk, i), SeedFrom(i)
          PROVE  LinkInv'
      <4>1. i = Len(written) - 1 /\ written # <<>> /\ i \in Nat
        BY <3>2 DEF TypeOK, IdsInv, IsLast
      <4>2. damage = 0 => prevHash' = TailHash
        BY <3>2, <4>1 DEF SeedFrom, LinkInv, TailHash, TypeOK
      <4>3. QED
        BY <1>1, <4>2 DEF New, LinkInv, TailHash, batchFiles, ghosts
    <3>3. QED
      BY <1>1, <3>1, <3>2 DEF New
  <2>3. QED BY <2>1, <2>2
<1>2. ASSUME NEW size \in Sizes, Add(size) PROVE ChainInv'
  <2>1. TypeOK'
    <3>1. current' \in Body /\ added' \in Nat
      BY <1>2 DEF Add, TypeOK, Body
    <3>2. bodyBytes' \in Nat /\ pc' \in {"idle", "write", "rotate"}
      BY <1>2 DEF Add, TypeOK
    <3>3. UNCHANGED <<up, nextBatchID, prevHash, doomed, disk, written, lost, rotFailed, writeFailed, damage>>
      BY <1>2 DEF Add
    <3>4. QED BY <3>1, <3>2, <3>3 DEF TypeOK, batchFiles
  <2>2. IdsInv'
    <3>1. current' # <<>> /\ up
      BY <1>2 DEF Add, TypeOK, Body
    <3>2. UNCHANGED <<up, nextBatchID, doomed, disk, written>>
      BY <1>2 DEF Add
    <3>3. QED BY <3>1, <3>2 DEF IdsInv, batchFiles
  <2>3. LinkInv'
    BY <1>2 DEF Add, LinkInv, TailHash, batchFiles
  <2>4. QED BY <2>1, <2>2, <2>3
<1>3. CASE Tick
  BY <1>3 DEF Tick, TypeOK, IdsInv, LinkInv, TailHash, batchFiles, ghosts
<1>4. CASE WriteFails
  BY <1>4 DEF WriteFails, TypeOK, IdsInv, LinkInv, TailHash, batchFiles
<1>5. CASE RenameBatch
  <2> DEFINE n == Len(written)
  <2>1. /\ n \in Nat /\ up /\ nextBatchID = n /\ SealedBatch \in BatchRecord
        /\ SealedBatch.id = n /\ SealedBatch.prev = prevHash
    BY <1>5, SealedType DEF RenameBatch, TypeOK, IdsInv, SealedBatch
  <2>2. /\ written' \in Seq(BatchRecord) /\ Len(written') = n + 1
        /\ written'[n + 1] = SealedBatch
        /\ \A k \in 1..n : written'[k] = written[k]
    BY <1>5, <2>1 DEF RenameBatch, TypeOK
  <2>3. /\ DOMAIN disk' = DOMAIN disk \cup {n}
        /\ disk'[n] = SealedBatch
        /\ \A i \in DOMAIN disk : i # n /\ disk'[i] = disk[i]
        /\ disk' = [i \in DOMAIN disk' |-> disk'[i]]
    BY <1>5, <2>1 DEF RenameBatch, TypeOK, IdsInv, batchFiles
  <2>4. \A i \in DOMAIN disk' : i \in Nat /\ i <= n
    BY <2>1, <2>3 DEF TypeOK, IdsInv, batchFiles
  <2>5. doomed' \subseteq DOMAIN disk' /\ \A i \in doomed' : i + 1 < n + 1
    <3>1. CASE UNCHANGED doomed
      BY <3>1, <2>1, <2>3, <2>4 DEF TypeOK, IdsInv, batchFiles
    <3>2. CASE doomed' = {}
      BY <3>2
    <3>3. CASE MaxBatches > 0 /\ doomed' = Excess(disk')
      <4>1. \A i \in Excess(disk') : i \in DOMAIN disk' /\ i < n
        BY <3>3, <2>1, <2>4, ExcessSparesTail
      <4>2. QED
        BY <3>3, <4>1, <2>1, <2>4
    <3>4. QED
      BY <1>5, <3>1, <3>2, <3>3, ChainAssumption DEF RenameBatch
  <2>6. TypeOK'
    <3>1. prevHash' \in Hash
      BY <1>5, <2>1, FileHashType DEF RenameBatch
    <3>2. \A i \in DOMAIN disk' : disk'[i] \in BatchRecord
      BY <2>1, <2>3 DEF TypeOK, batchFiles
    <3>3. pc' \in {"idle", "write", "rotate"} /\ rotFailed' \in BOOLEAN
      BY <1>5 DEF RenameBatch, TypeOK
    <3>4. QED
      BY <1>5, <2>1, <2>2, <2>3, <2>4, <2>5, <3>1, <3>2, <3>3
      DEF RenameBatch, TypeOK, batchFiles, Body
  <2>7. IdsInv'
    BY <1>5, <2>1, <2>2, <2>3, <2>4, <2>5 DEF RenameBatch, IdsInv, TypeOK, batchFiles
  <2>8. LinkInv'
    <3> SUFFICES ASSUME damage = 0 PROVE LinkInv'
      BY <1>5 DEF RenameBatch, LinkInv
    <3>1. ASSUME NEW i \in DOMAIN disk' PROVE disk'[i] = written'[i + 1]
      <4>1. CASE i = n
        BY <4>1, <2>2, <2>3
      <4>2. CASE i \in DOMAIN disk
        <5>1. i + 1 \in 1..n
          BY <4>2, <2>1 DEF TypeOK, IdsInv, batchFiles
        <5>2. QED BY <4>2, <5>1, <2>2, <2>3 DEF LinkInv, batchFiles
      <4>3. QED BY <4>1, <4>2, <2>3
    <3>2. ASSUME NEW k \in 1..(n + 1), k + 1 \in 1..(n + 1)
          PROVE  written'[k + 1].prev = FileHash(written'[k])
      <4>1. CASE k = n
        BY <4>1, <3>2, <2>1, <2>2 DEF LinkInv, TailHash, TypeOK
      <4>2. CASE k < n
        BY <4>2, <3>2, <2>1, <2>2 DEF LinkInv
      <4>3. QED BY <4>1, <4>2, <3>2, <2>1
    <3>3. prevHash' = TailHash'
      BY <1>5, <2>1, <2>2 DEF RenameBatch, TailHash
    <3>4. QED
      BY <3>1, <3>2, <3>3, <2>2 DEF LinkInv, batchFiles
  <2>9. QED BY <2>6, <2>7, <2>8
<1>6. CASE RemoveOldest
  <2>1. PICK i \in doomed :
          /\ doomed' = doomed \ {i}
          /\ \/ disk' = [j \in DOMAIN disk \ {i} |-> disk[j]] /\ UNCHANGED rotFailed
             \/ rotFailed' = TRUE /\ UNCHANGED disk
    BY <1>6 DEF RemoveOldest
  <2>2. /\ DOMAIN disk' \subseteq DOMAIN disk
        /\ doomed' \subseteq DOMAIN disk'
        /\ \A j \in DOMAIN disk' : disk'[j] = disk[j]
        /\ disk' = [j \in DOMAIN disk' |-> disk'[j]]
        /\ \A j \in DOMAIN disk : j # i => j \in DOMAIN disk'
        /\ rotFailed' \in BOOLEAN
    BY <2>1 DEF TypeOK, batchFiles
  <2>3. TypeOK'
    BY <1>6, <2>1, <2>2 DEF RemoveOldest, TypeOK, batchFiles
  <2>4. IdsInv'
    BY <1>6, <2>1, <2>2 DEF RemoveOldest, TypeOK, IdsInv, batchFiles
  <2>5. LinkInv'
    BY <1>6, <2>2 DEF RemoveOldest, LinkInv, TailHash, batchFiles
  <2>6. QED BY <2>3, <2>4, <2>5
<1>7. CASE RotateDone
  BY <1>7 DEF RotateDone, TypeOK, IdsInv, LinkInv, TailHash, batchFiles, ghosts
<1>8. CASE Crash
  <2>1. {current[k] : k \in DOMAIN current} \subseteq Nat
    BY DEF TypeOK, Body
  <2>2. TypeOK'
    BY <1>8, <2>1, EmptyTypes DEF Crash, TypeOK, batchFiles
  <2>3. IdsInv' /\ LinkInv'
    BY <1>8 DEF Crash, IdsInv, LinkInv, TailHash, batchFiles
  <2>4. QED BY <2>2, <2>3
<1>9. ASSUME NEW i \in batchFiles(disk), Damage(i) PROVE ChainInv'
  <2>1. PICK b \in DamagedForms(disk[i]) : disk' = [disk EXCEPT ![i] = b]
    BY <1>9 DEF Damage
  <2>2. b \in BatchRecord /\ b.id = disk[i].id
    BY <2>1, DamageType DEF TypeOK
  <2>3. /\ DOMAIN disk' = DOMAIN disk
        /\ disk' = [j \in DOMAIN disk' |-> disk'[j]]
        /\ \A j \in DOMAIN disk : disk'[j] \in BatchRecord /\ disk'[j].id = disk[j].id
    BY <2>1, <2>2 DEF TypeOK, batchFiles
  <2>4. damage' \in Nat /\ damage' # 0
    BY <1>9 DEF Damage, TypeOK
  <2>5. TypeOK'
    BY <1>9, <2>3, <2>4 DEF Damage, TypeOK, batchFiles, memory
  <2>6. IdsInv' /\ LinkInv'
    BY <1>9, <2>3, <2>4 DEF Damage, IdsInv, LinkInv, batchFiles, memory
  <2>7. QED BY <2>5, <2>6
<1>10. CASE UNCHANGED vars
  BY <1>10 DEF vars, memory, ghosts, TypeOK, IdsInv, LinkInv, TailHash, batchFiles
<1>11. QED
  BY <1>1, <1>2, <1>3, <1>4, <1>5, <1>6, <1>7, <1>8, <1>9, <1>10 DEF Next

\* The invariant holds of every execution.
THEOREM ChainInvariant == Spec => []ChainInv
<1>1. ChainInv /\ [Next]_vars => ChainInv'
  BY ChainNextInv
<1>2. QED
  BY <1>1, ChainInitInv, PTL DEF Spec

\* Types hold for ever.
THEOREM ChainTypes == Spec => []TypeOK
BY ChainInvariant, PTL DEF ChainInv

\* Neither rotation, with or without failing removals, nor a crash at any
\* point of a finalise takes away the newest batch.
THEOREM ChainTailSurvives == Spec => []TailSurvives
<1>1. ChainInv => TailSurvives
  BY DEF ChainInv, TypeOK, IdsInv, TailSurvives, IsLast, batchFiles
<1>2. QED BY <1>1, ChainInvariant, PTL

\* A daemon that resumed continues the numbering and the hash link exactly
\* where the one before it stopped.
THEOREM ChainResumesAtTail == Spec => []ResumesAtTail
<1>1. ChainInv => ResumesAtTail
  BY DEF ChainInv, IdsInv, LinkInv, TailHash, ResumesAtTail
<1>2. QED BY <1>1, ChainInvariant, PTL

\* Neighbouring files that survive rotation stay linked by hash.
THEOREM ChainSurvivorsLinked == Spec => []SurvivorsLinked
<1>1. ChainInv => SurvivorsLinked
  <2> SUFFICES ASSUME ChainInv, damage = 0, NEW i \in batchFiles(disk),
                      i + 1 \in batchFiles(disk)
               PROVE  disk[i + 1].prev = FileHash(disk[i])
    BY DEF SurvivorsLinked
  <2>1. i \in Nat /\ Len(written) \in Nat /\ i + 1 < Len(written)
    BY DEF ChainInv, TypeOK, IdsInv
  <2>2. disk[i] = written[i + 1] /\ disk[i + 1] = written[(i + 1) + 1]
    BY DEF ChainInv, LinkInv
  <2>3. QED BY <2>1, <2>2 DEF ChainInv, LinkInv
<1>2. QED BY <1>1, ChainInvariant, PTL

\* No daemon, first or resumed, ever replaces a published file.
THEOREM ChainNeverRewritten == Spec => NeverRewritten
<1> DEFINE Keeps == \A i \in DOMAIN disk \cap DOMAIN disk' :
                        damage' = damage => disk'[i] = disk[i]
<1>1. ASSUME ChainInv, [Next]_vars PROVE Keeps
  <2>1. CASE RenameBatch
    <3>1. \A i \in DOMAIN disk : i # nextBatchID
      BY <1>1, <2>1 DEF RenameBatch, ChainInv, TypeOK, IdsInv, batchFiles
    <3>2. QED BY <2>1, <3>1 DEF RenameBatch
  <2>2. CASE RemoveOldest
    BY <2>2 DEF RemoveOldest
  <2>3. ASSUME NEW i \in batchFiles(disk), Damage(i) PROVE Keeps
    BY <1>1, <2>3 DEF Damage, ChainInv, TypeOK
  <2>4. CASE UNCHANGED disk
    BY <2>4
  <2>5. QED
    BY <1>1, <2>1, <2>2, <2>3, <2>4
    DEF Next, New, Add, Tick, WriteFails, RotateDone, Crash, vars
<1>2. QED
  BY <1>1, ChainInvariant, PTL DEF Spec, NeverRewritten

\* The chain implements the append-only log of AuditLog: adding an event is
\* a Take, the rename is the Commit of the whole pending batch, a crash
\* loses exactly the pending events, and nothing else touches the log.
THEOREM ChainImplementsLog == Spec => ImplementsLog
<1>1. Init => Log!Init
  BY DEF Init, Log!Init
<1>2. ASSUME ChainInv, [Next]_vars PROVE [Log!Next]_(Log!logVars)
  <2>1. ASSUME NEW size \in Sizes, Add(size) PROVE Log!Take
    BY <2>1 DEF Add, Log!Take
  <2>2. CASE RenameBatch
    <3> DEFINE bodies == [b \in DOMAIN written |-> written[b].body]
    <3>1. written \in Seq(BatchRecord) /\ SealedBatch.body = current
      BY <1>2 DEF ChainInv, TypeOK, SealedBatch
    <3>2. bodies \in Seq(Body) /\ Len(bodies) = Len(written) /\ current \in Body
      <4>1. Len(written) \in Nat /\ DOMAIN written = 1..Len(written) /\ current \in Body
        BY <1>2, <3>1 DEF ChainInv, TypeOK
      <4>2. \A b \in DOMAIN written : written[b].body \in Body
        <5>1. \A b \in DOMAIN written : written[b] \in BatchRecord
          BY <3>1, <4>1
        <5>2. \A r \in BatchRecord : r.body \in Body
          BY DEF BatchRecord
        <5>3. QED BY <5>1, <5>2
      <4>3. bodies \in [1..Len(written) -> Body]
        BY <4>1, <4>2
      <4>4. bodies \in Seq(Body)
        BY <4>1, <4>3, SeqDef
      <4>5. QED BY <4>1, <4>3, <4>4
    <3>3. [b \in DOMAIN written' |-> written'[b].body] = Append(bodies, current)
      BY <2>2, <3>1, <3>2 DEF RenameBatch
    <3>4. current # <<>>
      BY <1>2, <2>2 DEF ChainInv, IdsInv, RenameBatch
    <3>5. QED BY <2>2, <3>3, <3>4 DEF RenameBatch, Log!Next, Log!Commit
  <2>3. CASE Crash
    BY <2>3 DEF Crash, Log!Next, Log!Lose
  <2>4. CASE UNCHANGED <<added, current, written, lost>>
    BY <2>4 DEF Log!logVars
  <2>5. QED
    BY <1>2, <2>1, <2>2, <2>3, <2>4
    DEF Next, New, Tick, WriteFails, RemoveOldest, RotateDone, Damage,
        vars, memory, ghosts, Log!Next
<1>3. QED
  BY <1>1, <1>2, ChainInvariant, PTL DEF Spec, ImplementsLog, Log!Spec

(***************************************************************************)
(* Rotation.  That a rotation without an error leaves MaxBatches files is  *)
(* about the moment it ends; it follows from what holds while it runs: the *)
(* files it will not remove are few enough already.                        *)
(***************************************************************************)
RotateInv ==
    /\ IsFiniteSet(batchFiles(disk))
    /\ pc = "rotate" /\ ~rotFailed => Cardinality(batchFiles(disk) \ doomed) <= MaxBatches

\* A nonempty set of numbers has a least one.
LEMMA LeastNat ==
    ASSUME NEW T \in SUBSET Nat, T # {}
    PROVE  \E x \in T : \A y \in T : x <= y
<1>1. PICK x \in T : \A y \in T : ~ (<<y, x>> \in OpToRel(<, Nat))
  BY WFMin, NatLessThanWellFounded
<1>2. \A y \in T : ~ (y < x)
  BY <1>1 DEF OpToRel
<1>3. QED BY <1>2

\* A nonempty bounded set of numbers has a greatest one.
LEMMA GreatestNat ==
    ASSUME NEW T \in SUBSET Nat, T # {}, NEW n \in Nat, \A x \in T : x <= n
    PROVE  \E x \in T : \A y \in T : y <= x
<1> DEFINE above == {m \in Nat : \A x \in T : x <= m}
<1>1. PICK m \in above : \A k \in above : m <= k
  <2>1. n \in above
    OBVIOUS
  <2>2. QED BY <2>1, LeastNat
<1>2. m \in T
  <2>1. SUFFICES ASSUME m \notin T PROVE FALSE
    OBVIOUS
  <2>2. \A x \in T : x < m
    BY <2>1
  <2>3. m # 0 /\ m - 1 \in Nat
    <3>1. PICK x \in T : x < m
      BY <2>2
    <3>2. QED BY <3>1
  <2>4. m - 1 \in above
    BY <2>2, <2>3
  <2>5. QED BY <2>3, <2>4, <1>1
<1>3. QED BY <1>2

\* rotateLocked lists enough files: what it does not list is within the
\* retention, because the oldest file it keeps has too few newer ones.
LEMMA ExcessIsEnough ==
    ASSUME MaxBatches > 0, NEW d, DOMAIN d \subseteq Nat, IsFiniteSet(DOMAIN d)
    PROVE  Cardinality(DOMAIN d \ Excess(d)) <= MaxBatches
<1> DEFINE kept == DOMAIN d \ Excess(d)
<1>1. IsFiniteSet(kept)
  BY FS_Difference
<1>2. CASE kept = {}
  BY <1>2, FS_EmptySet, ChainAssumption
<1>3. CASE kept # {}
  <2>1. PICK m \in kept : \A i \in kept : m <= i
    BY <1>3, LeastNat
  <2> DEFINE newer == {j \in DOMAIN d : j > m}
  <2>2. IsFiniteSet(newer) /\ Cardinality(newer) \in Nat
    BY FS_Subset, FS_CardinalityType
  <2>3. ~ (Cardinality(newer) >= MaxBatches)
    BY <2>1 DEF Excess, batchFiles
  <2>4. IsFiniteSet(newer \cup {m}) /\ Cardinality(newer \cup {m}) = Cardinality(newer) + 1
    <3>1. m \notin newer
      BY <2>1
    <3>2. QED BY <3>1, <2>2, FS_AddElement
  <2>5. kept \subseteq newer \cup {m}
    BY <2>1
  <2>6. Cardinality(kept) <= Cardinality(newer \cup {m}) /\ Cardinality(kept) \in Nat
        /\ Cardinality(newer \cup {m}) \in Nat
    BY <2>4, <2>5, <1>1, FS_Subset, FS_CardinalityType
  <2>7. QED BY <2>2, <2>3, <2>4, <2>6, ChainAssumption
<1>4. QED BY <1>2, <1>3

\* Only the rename and a removal change the set of files, and a removal takes
\* one off the list at the same time.
LEMMA RotateNextInv ==
    ASSUME ChainInv, RotateInv, [Next]_vars PROVE RotateInv'
<1>1. CASE RenameBatch
  <2>1. DOMAIN disk' = DOMAIN disk \cup {nextBatchID} /\ nextBatchID' \in Nat
    BY <1>1 DEF RenameBatch, ChainInv, TypeOK
  <2>2. IsFiniteSet(DOMAIN disk')
    BY <2>1, FS_AddElement DEF RotateInv, batchFiles
  <2>3. CASE MaxBatches = 0
    BY <1>1, <2>2, <2>3 DEF RenameBatch, RotateInv, batchFiles
  <2>4. CASE MaxBatches # 0 /\ rotFailed'
    BY <2>2, <2>4 DEF RotateInv, batchFiles
  <2>5. CASE MaxBatches # 0 /\ doomed' = Excess(disk')
    <3>1. DOMAIN disk' \subseteq Nat
      BY <2>1 DEF ChainInv, TypeOK, batchFiles
    <3>2. Cardinality(DOMAIN disk' \ Excess(disk')) <= MaxBatches
      BY <3>1, <2>2, <2>5, ExcessIsEnough, ChainAssumption
    <3>3. QED BY <3>2, <2>2, <2>5 DEF RotateInv, batchFiles
  <2>6. QED BY <1>1, <2>3, <2>4, <2>5 DEF RenameBatch
<1>2. CASE RemoveOldest
  <2>1. PICK i \in doomed :
          /\ doomed' = doomed \ {i}
          /\ \/ disk' = [j \in DOMAIN disk \ {i} |-> disk[j]] /\ UNCHANGED rotFailed
             \/ rotFailed' = TRUE /\ UNCHANGED disk
    BY <1>2 DEF RemoveOldest
  <2>2. CASE disk' = [j \in DOMAIN disk \ {i} |-> disk[j]] /\ UNCHANGED rotFailed
    <3>1. DOMAIN disk' = DOMAIN disk \ {i} /\ DOMAIN disk' \ doomed' = DOMAIN disk \ doomed
      BY <2>1, <2>2
    <3>2. IsFiniteSet(DOMAIN disk')
      BY <3>1, FS_Subset DEF RotateInv, batchFiles
    <3>3. QED BY <1>2, <2>2, <3>1, <3>2 DEF RemoveOldest, RotateInv, batchFiles
  <2>3. CASE rotFailed' = TRUE /\ UNCHANGED disk
    BY <2>3 DEF RotateInv, batchFiles
  <2>4. QED BY <2>1, <2>2, <2>3
<1>3. ASSUME NEW i \in batchFiles(disk), Damage(i) PROVE RotateInv'
  BY <1>3 DEF Damage, RotateInv, batchFiles, memory
<1>4. CASE UNCHANGED disk /\ pc' # "rotate"
  BY <1>4 DEF RotateInv, batchFiles
<1>5. CASE UNCHANGED <<disk, doomed, pc, rotFailed>>
  BY <1>5 DEF RotateInv, batchFiles
<1>6. QED
  BY <1>1, <1>2, <1>3, <1>4, <1>5
  DEF Next, New, Add, Tick, WriteFails, RotateDone, Crash, vars, memory, ghosts

\* A rotation that met no error leaves at most MaxBatches files, whatever the
\* rotations before it left behind.
THEOREM ChainRotationConverges == Spec => RotationConverges
<1>1. Init => RotateInv
  BY FS_EmptySet DEF Init, RotateInv, batchFiles
<1>2. ChainInv /\ RotateInv /\ [Next]_vars => RotateInv'
  BY RotateNextInv
<1>3. ASSUME RotateInv, ChainInv, [Next]_vars
      PROVE  [(pc = "rotate" /\ pc' = "idle" /\ up' /\ ~rotFailed)
                 => Cardinality(DOMAIN disk') <= MaxBatches]_vars
  <2>1. CASE RotateDone
    <3>1. doomed = {} /\ UNCHANGED disk /\ pc = "rotate"
      BY <2>1 DEF RotateDone
    <3>2. DOMAIN disk \ doomed = DOMAIN disk
      BY <3>1
    <3>3. QED BY <1>3, <3>1, <3>2 DEF RotateInv, batchFiles
  <2>2. CASE ~RotateDone
    BY <1>3, <2>2
    DEF Next, New, Add, Tick, WriteFails, RenameBatch, RemoveOldest, Crash, Damage, vars, memory
  <2>3. QED BY <2>1, <2>2
<1>4. QED
  BY <1>1, <1>2, <1>3, ChainInvariant, PTL DEF Spec, RotationConverges

(***************************************************************************)
(* The events.  EventsOnce compares positions of written batches; it is    *)
(* inductive once the batch in memory is told apart from what was lost and *)
(* is known to be newer than everything on disk.                           *)
(***************************************************************************)
Rising(s) == \A j, k \in DOMAIN s : j < k => s[j] < s[k]
Held == {current[k] : k \in DOMAIN current}
InBatch(b) == {written[b].body[k] : k \in DOMAIN written[b].body}
OnDisk == UNION {InBatch(b) : b \in DOMAIN written}

OnceInv ==
    /\ added <= MaxEvents
    /\ Len(current) <= added /\ Rising(current)
    /\ \A b \in DOMAIN written : Len(written[b].body) <= MaxEvents /\ Rising(written[b].body)
    /\ \A b, c \in DOMAIN written : b < c => \A x \in InBatch(b), y \in InBatch(c) : x < y
    /\ \A x \in OnDisk : x \notin lost /\ \A y \in Held : x < y
    /\ Held \cap lost = {}
    /\ OnDisk \cup Held \cup lost = 1..added

\* Add gives the next number, larger than all before it.
LEMMA AddOnce ==
    ASSUME ChainInv, OnceInv, NEW size \in Sizes, Add(size) PROVE OnceInv'
<1>1. /\ current \in Seq(Nat) /\ added \in Nat /\ MaxEvents \in Nat /\ added < MaxEvents
      /\ added' = added + 1 /\ current' = Append(current, added + 1)
      /\ UNCHANGED <<written, lost>>
  BY ChainAssumption DEF Add, ChainInv, TypeOK, Body
<1>2. /\ Len(current') = Len(current) + 1 /\ DOMAIN current' = DOMAIN current \cup {Len(current) + 1}
      /\ \A k \in DOMAIN current : k \in 1..Len(current) /\ current'[k] = current[k] /\ current[k] \in Held
      /\ current'[Len(current) + 1] = added + 1
  BY <1>1 DEF Held
<1>3. Held' = Held \cup {added + 1}
  BY <1>2 DEF Held
<1>4. OnDisk' = OnDisk /\ \A b \in DOMAIN written : InBatch(b)' = InBatch(b)
  BY <1>1 DEF OnDisk, InBatch
<1>5. \A x \in OnDisk \cup Held \cup lost : x \in 1..added
  BY DEF OnceInv
<1>6. Rising(current')
  <2> SUFFICES ASSUME NEW j \in DOMAIN current', NEW k \in DOMAIN current', j < k
               PROVE  current'[j] < current'[k]
    BY DEF Rising
  <2>1. CASE k = Len(current) + 1
    BY <2>1, <1>1, <1>2, <1>5
  <2>2. CASE k # Len(current) + 1
    BY <2>2, <1>1, <1>2 DEF OnceInv, Rising
  <2>3. QED BY <2>1, <2>2
<1>7. OnDisk' \cup Held' \cup lost' = 1..added'
  <2>1. OnDisk' \cup Held' \cup lost' = (1..added) \cup {added + 1}
    BY <1>1, <1>3, <1>4 DEF OnceInv
  <2>2. QED BY <2>1, <1>1
<1>8. Held' \cap lost' = {}
  BY <1>1, <1>3, <1>5 DEF OnceInv
<1>9. \A x \in OnDisk' : x \notin lost' /\ \A y \in Held' : x < y
  BY <1>1, <1>3, <1>4, <1>5 DEF OnceInv
<1>10. Len(current') <= added' /\ added' <= MaxEvents
  BY <1>1, <1>2 DEF OnceInv
<1>11. QED
  BY <1>1, <1>4, <1>6, <1>7, <1>8, <1>9, <1>10 DEF OnceInv

\* The rename moves the whole batch in memory to the disk.
LEMMA RenameOnce ==
    ASSUME ChainInv, OnceInv, RenameBatch PROVE OnceInv'
<1>0. PICK n \in Nat : n = Len(written)
  BY DEF ChainInv, TypeOK
<1>1. /\ n \in Nat /\ written \in Seq(BatchRecord) /\ current \in Seq(Nat) /\ added \in Nat /\ MaxEvents \in Nat
      /\ SealedBatch.body = current /\ SealedBatch \in BatchRecord
      /\ UNCHANGED <<added, lost>> /\ current' = <<>>
  BY <1>0, SealedType, ChainAssumption DEF RenameBatch, ChainInv, TypeOK, SealedBatch, Body
<1>2. /\ Len(written') = n + 1 /\ DOMAIN written' = (DOMAIN written) \cup {n + 1}
      /\ written'[n + 1].body = current /\ n + 1 \notin DOMAIN written
      /\ \A b \in DOMAIN written : b \in 1..n /\ written'[b] = written[b]
  BY <1>0, <1>1 DEF RenameBatch
<1>3. InBatch(n + 1)' = Held /\ \A b \in DOMAIN written : InBatch(b)' = InBatch(b) /\ InBatch(b) \subseteq OnDisk
  BY <1>2 DEF InBatch, Held, OnDisk
<1>4. OnDisk' = OnDisk \cup Held
  BY <1>2, <1>3 DEF OnDisk
<1>5. Held' = {} /\ Len(current') = 0 /\ Rising(current')
  BY <1>1 DEF Held, Rising
<1>6. \A b \in DOMAIN written' : Len(written'[b].body) <= MaxEvents /\ Rising(written'[b].body)
  BY <1>1, <1>2 DEF OnceInv, Rising
<1>7. ASSUME NEW b \in DOMAIN written', NEW c \in DOMAIN written', b < c,
             NEW x \in InBatch(b)', NEW y \in InBatch(c)'
      PROVE  x < y
  <2>1. b \in DOMAIN written
    BY <1>1, <1>2, <1>7
  <2>2. CASE c = n + 1
    BY <2>1, <2>2, <1>3, <1>7 DEF OnceInv
  <2>3. CASE c \in DOMAIN written
    BY <2>1, <2>3, <1>3, <1>7 DEF OnceInv
  <2>4. QED BY <2>2, <2>3, <1>2
<1>8. \A x \in OnDisk' : x \notin lost'
  BY <1>1, <1>4 DEF OnceInv
<1>9. OnDisk' \cup Held' \cup lost' = 1..added'
  BY <1>1, <1>4, <1>5 DEF OnceInv
<1>10. QED
  BY <1>1, <1>5, <1>6, <1>7, <1>8, <1>9 DEF OnceInv

\* A crash moves it to what is lost.
LEMMA CrashOnce ==
    ASSUME ChainInv, OnceInv, Crash PROVE OnceInv'
<1>1. /\ UNCHANGED <<added, written>> /\ lost' = lost \cup Held /\ current' = <<>> /\ added \in Nat
  BY DEF Crash, Held, ChainInv, TypeOK
<1>2. OnDisk' = OnDisk /\ \A b \in DOMAIN written : InBatch(b)' = InBatch(b)
  BY <1>1 DEF OnDisk, InBatch
<1>3. Held' = {} /\ Len(current') = 0 /\ Rising(current')
  BY <1>1 DEF Held, Rising
<1>4. \A x \in OnDisk : x \notin Held
  <2>1. \A x \in OnDisk \cup Held : x \in Nat
    BY <1>1 DEF OnceInv
  <2>2. QED BY <2>1 DEF OnceInv
<1>5. OnDisk' \cup Held' \cup lost' = 1..added' /\ Len(current') <= added'
  BY <1>1, <1>2, <1>3 DEF OnceInv
<1>6. \A x \in OnDisk' : x \notin lost'
  BY <1>1, <1>2, <1>4 DEF OnceInv
<1>7. \A b, c \in DOMAIN written' : b < c => \A x \in InBatch(b)', y \in InBatch(c)' : x < y
  BY <1>1, <1>2 DEF OnceInv
<1>8. /\ added' <= MaxEvents
      /\ \A b \in DOMAIN written' : Len(written'[b].body) <= MaxEvents /\ Rising(written'[b].body)
  BY <1>1 DEF OnceInv
<1>9. QED
  BY <1>3, <1>5, <1>6, <1>7, <1>8 DEF OnceInv

\* The other steps move no event.
LEMMA OnceNextInv ==
    ASSUME ChainInv, OnceInv, [Next]_vars PROVE OnceInv'
<1>1. CASE UNCHANGED <<added, current, written, lost>>
  <2>1. /\ UNCHANGED <<Held, OnDisk, added, current, written, lost>>
        /\ \A b \in DOMAIN written : InBatch(b)' = InBatch(b)
    BY <1>1 DEF Held, OnDisk, InBatch
  <2>2. \A b, c \in DOMAIN written' : b < c => \A x \in InBatch(b)', y \in InBatch(c)' : x < y
    BY <2>1 DEF OnceInv
  <2>3. QED BY <2>1, <2>2 DEF OnceInv
<1>2. QED
  BY <1>1, AddOnce, RenameOnce, CrashOnce
  DEF Next, New, Tick, WriteFails, RemoveOldest, RotateDone, Damage, vars, memory, ghosts

\* Nothing was added and nothing is anywhere.
LEMMA OnceInit == Init => OnceInv
<1> SUFFICES ASSUME Init PROVE OnceInv
  OBVIOUS
<1>1. current = <<>> /\ written = <<>> /\ lost = {} /\ added = 0 /\ MaxEvents \in Nat
  BY ChainAssumption DEF Init
<1>2. Held = {} /\ OnDisk = {} /\ DOMAIN written = {} /\ Len(current) = 0 /\ Rising(current)
  BY <1>1 DEF Held, OnDisk, Rising
<1>3. QED BY <1>1, <1>2 DEF OnceInv

\* Every event Add took is in one batch, in order, or in memory, or was there
\* when the daemon died; failed writes and retries change nothing.
THEOREM ChainEventsOnce == Spec => []EventsOnce
<1>1. ASSUME ChainInv, OnceInv PROVE EventsOnce
  <2> DEFINE pos == {p \in (1..Len(written)) \X (1..MaxEvents) : p[2] \in DOMAIN written[p[1]].body}
             at(p) == written[p[1]].body[p[2]]
             before(p, q) == p[1] < q[1] \/ (p[1] = q[1] /\ p[2] < q[2])
  <2>1. /\ DOMAIN written = 1..Len(written) /\ MaxEvents \in Nat
        /\ \A b \in DOMAIN written : written[b].body \in Seq(Nat)
    <3>1. \A r \in BatchRecord : r.body \in Seq(Nat)
      BY DEF BatchRecord, Body
    <3>2. QED BY <1>1, <3>1, ChainAssumption DEF ChainInv, TypeOK
  <2>2. \A p \in pos : p[1] \in DOMAIN written /\ at(p) \in InBatch(p[1]) /\ at(p) \in OnDisk
    BY <2>1 DEF InBatch, OnDisk
  <2>3. ASSUME NEW p \in pos, NEW q \in pos, before(p, q) PROVE at(p) < at(q)
    <3>1. CASE p[1] < q[1]
      BY <3>1, <2>2, <1>1 DEF OnceInv
    <3>2. CASE p[1] = q[1] /\ p[2] < q[2]
      BY <3>2, <2>2, <1>1 DEF OnceInv, Rising
    <3>3. QED BY <2>3, <3>1, <3>2
  <2>4. ASSUME NEW p \in pos, NEW e \in Held \cup lost PROVE at(p) # e
    <3>1. at(p) \in Nat
      BY <2>1, <2>2
    <3>2. QED BY <3>1, <2>2, <1>1 DEF OnceInv
  <2>5. {at(p) : p \in pos} = OnDisk
    <3>1. ASSUME NEW x \in OnDisk PROVE \E p \in pos : at(p) = x
      <4>1. PICK b \in DOMAIN written : \E k \in DOMAIN written[b].body : x = written[b].body[k]
        BY DEF OnDisk, InBatch
      <4>2. PICK k \in DOMAIN written[b].body : x = written[b].body[k]
        BY <4>1
      <4>3. k \in 1..MaxEvents /\ b \in 1..Len(written)
        BY <4>2, <2>1, <1>1 DEF OnceInv
      <4>4. <<b, k>> \in pos /\ at(<<b, k>>) = x
        BY <4>2, <4>3
      <4>5. QED BY <4>4
    <3>2. QED BY <3>1, <2>2
  <2>6. {at(p) : p \in pos} \cup Held \cup lost = 1..added
    BY <2>5, <1>1 DEF OnceInv
  <2>7. QED BY <2>3, <2>4, <2>6 DEF EventsOnce, Held
<1>2. ChainInv /\ OnceInv /\ [Next]_vars => OnceInv'
  BY OnceNextInv
<1>3. QED
  BY <1>1, <1>2, OnceInit, ChainInvariant, PTL DEF Spec

(***************************************************************************)
(* The verifier.  VerdictSound needs to know how far a file can be from    *)
(* what was written: every signed part is as written or garbage.  A daemon *)
(* may have resumed from such a file, so what was written after it is      *)
(* linked to the file as it was found, under the right id all the same.    *)
(***************************************************************************)
Sealed(b) == b.meta = "sealed" /\ b.bodyHash = b.body /\ b.body # Garbage /\ Signed(b)

AsWrittenOrGarbage(f, b) ==
    /\ f.prev \in {b.prev, GarbageHash} /\ f.bodyHash \in {b.bodyHash, Garbage}
    /\ f.body \in {b.body, Garbage}
    /\ f.sig \in {b.sig, [prev |-> GarbageHash, bodyHash |-> Garbage]}

\* h is the hash batch n has to carry, of whatever file n - 1 had become.
Follows(h, n) == IF n = 0 THEN h = ZeroHash ELSE h # <<>> /\ h[Len(h)].id = n - 1

SealInv ==
    /\ \A k \in DOMAIN written : /\ Sealed(written[k]) /\ written[k].id = k - 1
                                 /\ Follows(written[k].prev, k - 1)
    /\ \A i \in batchFiles(disk) : AsWrittenOrGarbage(disk[i], written[i + 1])
    /\ \A i \in batchFiles(disk) :
          disk[i] = written[i + 1] =>
              /\ i + 1 < Len(written) => written[i + 2].prev = FileHash(disk[i])
              /\ i + 1 = Len(written) /\ up => prevHash = FileHash(disk[i])
    /\ up => Follows(prevHash, Len(written))

\* The last entry of a file's hash is about the file itself.
LEMMA FileHashEnds ==
    ASSUME NEW b \in BatchRecord
    PROVE  /\ FileHash(b) # <<>>
           /\ FileHash(b)[Len(FileHash(b))].id = b.id
           /\ FileHash(b)[Len(FileHash(b))].signed = Signed(b)
<1> DEFINE link == [id |-> b.id, meta |-> b.meta, bodyHash |-> b.bodyHash,
                    body |-> b.body, signed |-> Signed(b)]
<1>1. b.prev \in Seq(Link) /\ link \in Link
  BY DEF BatchRecord, Hash, Link, Signed
<1>2. FileHash(b) = Append(b.prev, link)
  BY DEF FileHash
<1> HIDE DEF link
<1>3. FileHash(b) # <<>> /\ FileHash(b)[Len(FileHash(b))] = link
  BY <1>1, <1>2
<1>4. QED BY <1>3 DEF link

\* Damage leaves every part as written or garbage, and never makes a file
\* whole that was not.
LEMMA DamageShows ==
    ASSUME NEW b \in BatchRecord, NEW w \in BatchRecord, Sealed(w),
           AsWrittenOrGarbage(b, w), NEW c \in DamagedForms(b)
    PROVE  AsWrittenOrGarbage(c, w) /\ (c = w => c = b)
<1> USE DEF AsWrittenOrGarbage, Sealed, Signed, BatchRecord
<1>1. CASE c = [b EXCEPT !.meta = "changed"]
  BY <1>1
<1>2. CASE c = [b EXCEPT !.body = Garbage]
  BY <1>2
<1>3. CASE c = [b EXCEPT !.bodyHash = Garbage]
  BY <1>3
<1>4. CASE c = [b EXCEPT !.prev = GarbageHash]
  BY <1>4
<1>5. CASE c = [b EXCEPT !.sig = [prev |-> GarbageHash, bodyHash |-> Garbage]]
  BY <1>5
<1>6. QED
  BY <1>1, <1>2, <1>3, <1>4, <1>5 DEF DamagedForms

\* The rename adds a sealed batch that follows the tail.
LEMMA RenameSeal ==
    ASSUME ChainInv, OnceInv, SealInv, RenameBatch PROVE SealInv'
<1>0. PICK n \in Nat : n = Len(written)
  BY DEF ChainInv, TypeOK
<1>1. /\ up /\ up' /\ nextBatchID = n /\ SealedBatch \in BatchRecord /\ SealedBatch.id = n
      /\ SealedBatch.prev = prevHash /\ SealedBatch.body = current
      /\ prevHash' = FileHash(SealedBatch) /\ written \in Seq(BatchRecord)
  BY <1>0, SealedType DEF RenameBatch, ChainInv, TypeOK, IdsInv, SealedBatch
<1>2. Sealed(SealedBatch)
  <2>1. current # Garbage
    <3>1. \A k \in DOMAIN current : current[k] # 0
      BY DEF OnceInv, Held
    <3>2. QED BY <3>1 DEF Garbage
  <2>2. QED BY <2>1 DEF Sealed, Signed, SealedBatch
<1>3. /\ Len(written') = n + 1 /\ DOMAIN written' = (DOMAIN written) \cup {n + 1}
      /\ written'[n + 1] = SealedBatch
      /\ \A k \in DOMAIN written : k \in 1..n /\ written'[k] = written[k]
  BY <1>0, <1>1 DEF RenameBatch
<1>4. /\ DOMAIN disk' = DOMAIN disk \cup {n} /\ disk'[n] = SealedBatch
      /\ \A i \in DOMAIN disk : i \in 0..(n - 1) /\ disk'[i] = disk[i]
  BY <1>0, <1>1 DEF RenameBatch, ChainInv, TypeOK, IdsInv, batchFiles
<1>5. \A i \in DOMAIN disk : i + 1 \in DOMAIN written /\ written'[i + 1] = written[i + 1]
  BY <1>0, <1>1, <1>3, <1>4
<1>6. \A k \in DOMAIN written' : /\ Sealed(written'[k]) /\ written'[k].id = k - 1
                                 /\ Follows(written'[k].prev, k - 1)
  <2>1. Follows(SealedBatch.prev, n)
    BY <1>0, <1>1 DEF SealInv
  <2>2. QED BY <1>1, <1>2, <1>3, <2>1 DEF SealInv
<1>7. \A i \in DOMAIN disk' : AsWrittenOrGarbage(disk'[i], written'[i + 1])
  <2>1. AsWrittenOrGarbage(SealedBatch, SealedBatch)
    BY DEF AsWrittenOrGarbage
  <2>2. QED BY <2>1, <1>3, <1>4, <1>5 DEF SealInv, batchFiles
<1>8. ASSUME NEW i \in DOMAIN disk', disk'[i] = written'[i + 1]
      PROVE  /\ i + 1 < n + 1 => written'[i + 2].prev = FileHash(disk'[i])
             /\ i + 1 = n + 1 => prevHash' = FileHash(disk'[i])
  <2>1. CASE i = n
    BY <2>1, <1>1, <1>4
  <2>2. CASE i = n - 1
    BY <2>2, <1>0, <1>1, <1>3, <1>4, <1>5, <1>8 DEF SealInv, batchFiles
  <2>3. CASE i < n - 1 /\ i \in DOMAIN disk
    <3>1. i + 2 \in DOMAIN written /\ i + 1 < Len(written)
      BY <2>3, <1>0, <1>1, <1>4
    <3>2. QED BY <2>3, <3>1, <1>0, <1>3, <1>4, <1>5, <1>8 DEF SealInv, batchFiles
  <2>4. QED BY <2>1, <2>2, <2>3, <1>4
<1>9. Follows(prevHash', n + 1)
  BY <1>1, FileHashEnds DEF Follows
<1>10. QED
  BY <1>3, <1>6, <1>7, <1>8, <1>9 DEF SealInv, batchFiles

\* A resumed daemon takes its link from the newest file, as it found it.
LEMMA NewSeal ==
    ASSUME ChainInv, SealInv, New PROVE SealInv'
<1>1. UNCHANGED <<disk, written>> /\ Len(written) \in Nat
  BY DEF New, ghosts, ChainInv, TypeOK
<1>2. CASE batchFiles(disk) = {} /\ prevHash' = ZeroHash
  <2>1. Len(written) = 0
    BY <1>2 DEF ChainInv, TypeOK, IdsInv
  <2>2. QED BY <1>1, <1>2, <2>1 DEF SealInv, batchFiles, Follows
<1>3. ASSUME NEW i \in batchFiles(disk), IsLast(disk, i), SeedFrom(i) PROVE SealInv'
  <2>1. i \in Nat /\ Len(written) = i + 1 /\ disk[i] \in BatchRecord /\ disk[i].id = i
    BY <1>3 DEF ChainInv, TypeOK, IdsInv, IsLast
  <2>2. prevHash' = FileHash(disk[i])
    BY <1>3 DEF SeedFrom
  <2>3. Follows(prevHash', i + 1)
    BY <2>1, <2>2, FileHashEnds DEF Follows
  <2>4. \A j \in batchFiles(disk) : j \in Nat /\ (j + 1 = i + 1 => j = i)
    BY DEF ChainInv, TypeOK
  <2>5. QED BY <1>1, <2>1, <2>2, <2>3, <2>4 DEF SealInv, batchFiles
<1>4. QED BY <1>2, <1>3 DEF New

\* The other steps: a removal leaves the rest as it is, damage is visible.
LEMMA SealNextInv ==
    ASSUME ChainInv, OnceInv, SealInv, [Next]_vars PROVE SealInv'
<1>1. CASE RemoveOldest
  <2>1. /\ DOMAIN disk' \subseteq DOMAIN disk /\ \A j \in DOMAIN disk' : disk'[j] = disk[j]
        /\ UNCHANGED <<written, up, prevHash>>
    BY <1>1 DEF RemoveOldest, ChainInv, TypeOK
  <2>2. QED BY <2>1 DEF SealInv, batchFiles
<1>2. CASE Crash
  BY <1>2 DEF Crash, SealInv, batchFiles
<1>3. ASSUME NEW i \in batchFiles(disk), Damage(i) PROVE SealInv'
  <2>1. PICK c \in DamagedForms(disk[i]) : disk' = [disk EXCEPT ![i] = c]
    BY <1>3 DEF Damage
  <2>2. /\ i \in Nat /\ i + 1 \in DOMAIN written /\ UNCHANGED <<written, up, prevHash>>
        /\ disk[i] \in BatchRecord /\ written[i + 1] \in BatchRecord
    BY <1>3 DEF Damage, ChainInv, TypeOK, IdsInv, memory
  <2>3. AsWrittenOrGarbage(c, written[i + 1]) /\ (c = written[i + 1] => c = disk[i])
    BY <2>2, DamageShows DEF SealInv
  <2>4. /\ DOMAIN disk' = DOMAIN disk /\ disk'[i] = c
        /\ \A j \in DOMAIN disk : j # i => disk'[j] = disk[j]
    BY <2>1 DEF batchFiles, ChainInv, TypeOK
  <2>5. \A j \in DOMAIN disk : disk'[j] = written[j + 1] => disk'[j] = disk[j]
    BY <2>3, <2>4
  <2>6. QED BY <2>2, <2>3, <2>4, <2>5 DEF SealInv, batchFiles
<1>4. CASE UNCHANGED <<disk, written, up, prevHash>>
  BY <1>4 DEF SealInv, batchFiles
<1>5. QED
  BY <1>1, <1>2, <1>3, <1>4, RenameSeal, NewSeal
  DEF Next, Add, Tick, WriteFails, RotateDone, vars, memory, ghosts

\* Verify compares a header with the next older file, if there is one.
LEMMA ExpectedPrevIs ==
    ASSUME NEW d, DOMAIN d \subseteq Nat, NEW i \in Nat
    PROVE  \/ ExpectedPrev(d, i) = ZeroHash /\ \A k \in DOMAIN d : ~(k < i)
           \/ \E j \in DOMAIN d : /\ j < i /\ \A k \in DOMAIN d : k < i => k <= j
                                  /\ ExpectedPrev(d, i) = FileHash(d[j])
<1> DEFINE older == {j \in DOMAIN d : j < i}
           best(j) == j < i /\ \A k \in DOMAIN d : k < i => k <= j
<1>1. CASE older = {}
  BY <1>1 DEF ExpectedPrev, batchFiles
<1>2. CASE older # {}
  <2>1. PICK m \in older : \A k \in older : k <= m
    <3>1. older \in SUBSET Nat /\ \A k \in older : k <= i
      OBVIOUS
    <3>2. QED BY <3>1, <1>2, GreatestNat
  <2>2. best(m)
    BY <2>1
  <2> DEFINE j == CHOOSE j \in DOMAIN d : best(j)
  <2>3. j \in DOMAIN d /\ best(j)
    BY <2>1, <2>2
  <2>4. ExpectedPrev(d, i) = FileHash(d[j])
    BY <1>2 DEF ExpectedPrev, batchFiles
  <2>5. QED BY <2>3, <2>4
<1>3. QED BY <1>1, <1>2

\* A complete directory of untouched files verifies.
LEMMA WholeVerifies ==
    ASSUME ChainInv, SealInv, batchFiles(disk) = {k - 1 : k \in DOMAIN written},
           \A i \in batchFiles(disk) : disk[i] = written[i + 1]
    PROVE  Verify(disk)
<1> SUFFICES ASSUME NEW i \in batchFiles(disk) PROVE VerifiesBatch(disk, i)
  BY DEF Verify
<1>1. /\ DOMAIN disk \subseteq Nat /\ i \in Nat /\ i < Len(written) /\ Len(written) \in Nat
      /\ DOMAIN written = 1..Len(written)
  BY DEF ChainInv, TypeOK, IdsInv, batchFiles
<1>2. disk[i].body = disk[i].bodyHash /\ Signed(disk[i]) /\ Follows(disk[i].prev, i)
  <2>1. disk[i] = written[i + 1] /\ i + 1 \in DOMAIN written /\ (i + 1) - 1 = i
    BY <1>1
  <2>2. Sealed(written[i + 1]) /\ Follows(written[i + 1].prev, (i + 1) - 1)
    BY <2>1 DEF SealInv
  <2>3. QED BY <2>1, <2>2 DEF Sealed
<1>3. disk[i].prev = ExpectedPrev(disk, i)
  <2>1. CASE i = 0
    <3>1. disk[i].prev = ZeroHash
      BY <1>2, <2>1 DEF Follows
    <3>2. QED BY <3>1, <2>1, <1>1, ExpectedPrevIs
  <2>2. CASE i # 0
    <3>1. i - 1 \in DOMAIN disk /\ i - 1 < i
      BY <1>1, <2>2 DEF batchFiles
    <3>2. PICK j \in DOMAIN disk : /\ j < i /\ \A k \in DOMAIN disk : k < i => k <= j
                                   /\ ExpectedPrev(disk, i) = FileHash(disk[j])
      BY <3>1, <1>1, ExpectedPrevIs
    <3>3. j = i - 1
      BY <3>1, <3>2, <1>1
    <3>4. disk[i - 1] = written[(i - 1) + 1] /\ (i - 1) + 1 < Len(written) /\ (i - 1) + 2 = i + 1
      BY <3>1, <1>1 DEF batchFiles
    <3>5. written[(i - 1) + 2].prev = FileHash(disk[i - 1])
      BY <3>1, <3>4 DEF SealInv, batchFiles
    <3>6. QED BY <3>2, <3>3, <3>4, <3>5
  <2>3. QED BY <2>1, <2>2
<1>4. QED BY <1>2, <1>3 DEF VerifiesBatch

\* A directory that verifies has the signed parts of every file as written.
LEMMA VerifiedAsWritten ==
    ASSUME ChainInv, SealInv, Verify(disk), NEW i \in batchFiles(disk)
    PROVE  /\ disk[i].prev = written[i + 1].prev
           /\ disk[i] = [written[i + 1] EXCEPT !.meta = disk[i].meta]
<1>1. /\ DOMAIN disk \subseteq Nat /\ i \in Nat /\ i + 1 \in DOMAIN written
      /\ disk[i] \in BatchRecord /\ written[i + 1] \in BatchRecord /\ disk[i].id = i
      /\ \A j \in DOMAIN disk : disk[j] \in BatchRecord
  BY DEF ChainInv, TypeOK, IdsInv, batchFiles
<1>2. \A j \in DOMAIN disk : disk[j].prev = ExpectedPrev(disk, j) /\ disk[j].body = disk[j].bodyHash /\ Signed(disk[j])
  BY DEF Verify, VerifiesBatch, batchFiles
<1>3. GarbageHash # ZeroHash /\ GarbageHash[Len(GarbageHash)].signed = FALSE
  BY DEF GarbageHash, ZeroHash
<1>4. disk[i].prev # GarbageHash
  <2>1. CASE disk[i].prev = ZeroHash
    BY <2>1, <1>3
  <2>2. ASSUME NEW j \in DOMAIN disk, disk[i].prev = FileHash(disk[j]) PROVE disk[i].prev # GarbageHash
    BY <2>2, <1>1, <1>2, <1>3, FileHashEnds
  <2>3. QED BY <2>1, <2>2, <1>1, <1>2, ExpectedPrevIs DEF batchFiles
<1>5. AsWrittenOrGarbage(disk[i], written[i + 1]) /\ Sealed(written[i + 1])
  BY <1>1 DEF SealInv
<1>6. disk[i].prev = written[i + 1].prev /\ disk[i].sig = written[i + 1].sig
  <2>1. disk[i].sig.prev = disk[i].prev
    <3>1. Signed(disk[i])
      BY <1>2 DEF batchFiles
    <3>2. QED BY <3>1 DEF Signed
  <2>2. disk[i].sig # [prev |-> GarbageHash, bodyHash |-> Garbage]
    BY <2>1, <1>4
  <2>3. QED BY <2>2, <1>4, <1>5 DEF AsWrittenOrGarbage
<1>7. disk[i].bodyHash = written[i + 1].bodyHash /\ disk[i].body = written[i + 1].body
  <2>1. Signed(disk[i]) /\ disk[i].body = disk[i].bodyHash
    BY <1>2 DEF batchFiles
  <2>2. disk[i].bodyHash = disk[i].sig.bodyHash /\ written[i + 1].bodyHash = written[i + 1].sig.bodyHash
    BY <2>1, <1>5 DEF Signed, Sealed
  <2>3. QED BY <2>1, <2>2, <1>5, <1>6 DEF Sealed
<1>8. disk[i].id = written[i + 1].id
  BY <1>1 DEF SealInv
<1>9. QED BY <1>1, <1>6, <1>7, <1>8 DEF BatchRecord

\* A directory that verifies lacks no file: below a gap the id in the link
\* would not be that of the file before it.
LEMMA VerifiedIsComplete ==
    ASSUME ChainInv, SealInv, Verify(disk)
    PROVE  batchFiles(disk) = 0..(Len(written) - 1)
<1>1. /\ DOMAIN disk \subseteq Nat /\ Len(written) \in Nat /\ DOMAIN written = 1..Len(written)
      /\ \A j \in DOMAIN disk : disk[j] \in BatchRecord /\ disk[j].id = j /\ j < Len(written)
      /\ written # <<>> => Len(written) - 1 \in DOMAIN disk
  BY DEF ChainInv, TypeOK, IdsInv, batchFiles
<1>2. ASSUME NEW m \in 0..(Len(written) - 1), m \notin DOMAIN disk PROVE FALSE
  <2> DEFINE newer == {j \in DOMAIN disk : j > m}
  <2>1. Len(written) - 1 \in newer
    BY <1>1, <1>2
  <2>2. PICK i \in newer : \A j \in newer : i <= j
    <3>1. newer \in SUBSET Nat /\ newer # {}
      BY <1>1, <2>1
    <3>2. QED BY <3>1, LeastNat
  <2>3. i \in DOMAIN disk /\ i \in Nat /\ i > m /\ i # 0 /\ i + 1 \in DOMAIN written
    BY <2>2, <1>1, <1>2
  <2>4. Follows(disk[i].prev, i)
    <3>1. Follows(written[i + 1].prev, (i + 1) - 1)
      BY <2>3 DEF SealInv
    <3>2. QED BY <3>1, <2>3, VerifiedAsWritten DEF batchFiles
  <2>5. disk[i].prev # ZeroHash /\ disk[i].prev[Len(disk[i].prev)].id = i - 1
    BY <2>3, <2>4 DEF Follows, ZeroHash
  <2>6. disk[i].prev = ExpectedPrev(disk, i)
    BY <2>3 DEF Verify, VerifiesBatch, batchFiles
  <2>7. PICK j \in DOMAIN disk : j < i /\ disk[i].prev = FileHash(disk[j])
    BY <2>3, <2>5, <2>6, <1>1, ExpectedPrevIs
  <2>8. j = i - 1
    <3>1. FileHash(disk[j])[Len(FileHash(disk[j]))].id = j
      BY <1>1, FileHashEnds
    <3>2. QED BY <3>1, <2>5, <2>7
  <2>9. j \in newer
    BY <2>3, <2>7, <2>8, <1>1, <1>2
  <2>10. QED BY <2>2, <2>3, <2>7, <2>9, <1>1
<1>3. DOMAIN disk = 0..(Len(written) - 1)
  <2>1. \A j \in DOMAIN disk : j \in 0..(Len(written) - 1)
    BY <1>1
  <2>2. \A m \in 0..(Len(written) - 1) : m \in DOMAIN disk
    BY <1>2
  <2>3. QED BY <2>1, <2>2
<1>4. QED BY <1>3 DEF batchFiles

\* No file, no batch.
LEMMA SealInit == Init => SealInv
BY DEF Init, SealInv, batchFiles

\* xhelix-verify accepts a complete, unaltered history, and what it accepts is
\* an unbroken range up to the newest batch, as written in every signed part.
THEOREM ChainVerdictSound == Spec => []VerdictSound
<1>1. ASSUME ChainInv, SealInv PROVE VerdictSound
  <2>1. ASSUME Verify(disk), NEW i \in batchFiles(disk)
        PROVE  i..(Len(written) - 1) \subseteq batchFiles(disk)
    <3>1. batchFiles(disk) = 0..(Len(written) - 1) /\ Len(written) \in Nat
      BY <1>1, <2>1, VerifiedIsComplete DEF ChainInv, TypeOK
    <3>2. QED BY <3>1, <2>1
  <2>2. QED BY <1>1, <2>1, WholeVerifies, VerifiedAsWritten DEF VerdictSound
<1>2. ChainInv /\ OnceInv /\ SealInv /\ [Next]_vars => SealInv'
  BY SealNextInv
<1>3. ChainInv /\ OnceInv /\ [Next]_vars => OnceInv'
  BY OnceNextInv
<1>4. QED
  BY <1>1, <1>2, <1>3, SealInit, OnceInit, ChainInvariant, PTL DEF Spec
=============================================================================
