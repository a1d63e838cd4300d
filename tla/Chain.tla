------------------------------- MODULE Chain -------------------------------
(***************************************************************************)
(* The forensic hash chain of pkg/chain: every pipeline event is appended  *)
(* to an in-memory batch, a batch is finalised into one signed file that   *)
(* carries the hash of the file before it, old files are rotated away, a   *)
(* restart resumes from the newest file, and xhelix-verify walks the       *)
(* directory.  Add, Tick and Close run under c.mu, so one finalise is in   *)
(* progress at a time; `pc' says where it is, because the daemon may die   *)
(* (and Verify, another process, may look) between any two file-system     *)
(* calls of it.                                                            *)
(***************************************************************************)
EXTENDS Naturals, Sequences, FiniteSets

CONSTANTS
    BatchCap,    \* Chain.BatchCap: events per batch
    BodyCap,     \* Chain.BodyCap: body bytes per batch
    MaxBatches,  \* Chain.MaxBatches: files kept, 0 = never rotate
    Sizes,       \* encoded sizes an event may have
    MaxEvents,   \* bound: events offered to Add
    MaxDamage    \* bound: files the disk damages

ASSUME ChainAssumption ==
    /\ BatchCap \in Nat \ {0}
    /\ BodyCap \in Nat \ {0}
    /\ MaxBatches \in Nat
    /\ Sizes \subseteq Nat
    /\ MaxEvents \in Nat
    /\ MaxDamage \in Nat

VARIABLES
    up,           \* a daemon holds the directory open
    current,      \* Chain.current: events of the batch in progress
    bodyBytes,    \* Chain.bodyBytes
    nextBatchID,  \* Chain.nextBatchID
    prevHash,     \* Chain.prevHash
    pc,           \* where finaliseLocked is: "idle" (c.mu free), "write", "rotate"
    doomed,       \* files rotateLocked has still to remove
    disk,         \* batch files by id: the ids are the names, sorted by batchFiles
    \* The remaining variables only record what happened.
    added,        \* events Add has taken so far; event n is the n-th
    written,      \* batches as they were renamed into place, in that order
    lost,         \* events that were in memory when the daemon died
    rotFailed,    \* the last rotation met an error
    writeFailed,  \* some writeBatch failed
    damage        \* files damaged so far

memory == <<up, current, bodyBytes, nextBatchID, prevHash, pc, doomed>>
ghosts == <<added, written, lost, rotFailed, writeFailed, damage>>
vars == <<memory, disk, ghosts>>

(***************************************************************************)
(* Hashes.  SHA-256 is taken to be injective, so the hash of a body is the *)
(* body, and the hash of a file is the list of everything it commits to:   *)
(* its own header and body after all that its PrevHash commits to.  The    *)
(* zero hash commits to nothing.  meta stands for the header fields that   *)
(* no signature covers, the times, EventCount and HostKeyID.  Ed25519 is   *)
(* deterministic: of the signature a hash tells only whether it is the one *)
(* over the header's own PrevHash and BodyHash.                            *)
(***************************************************************************)
Body == Seq(Nat)
Meta == {"sealed", "changed"}
Link == [id : Nat, meta : Meta, bodyHash : Body, body : Body, signed : BOOLEAN]
Hash == Seq(Link)
ZeroHash == <<>>
BatchRecord == [id : Nat, meta : Meta, prev : Hash, bodyHash : Body, body : Body,
                sig : [prev : Hash, bodyHash : Body]]

Signed(b) == b.sig = [prev |-> b.prev, bodyHash |-> b.bodyHash]

FileHash(b) ==
    Append(b.prev, [id |-> b.id, meta |-> b.meta, bodyHash |-> b.bodyHash,
                    body |-> b.body, signed |-> Signed(b)])

SealedBatch ==
    [id |-> nextBatchID, meta |-> "sealed", prev |-> prevHash,
     bodyHash |-> current, body |-> current,
     sig |-> [prev |-> prevHash, bodyHash |-> current]]

\* An event number no Add ever produces, standing for flipped bits.
Garbage == <<0>>
GarbageHash ==
    <<[id |-> 0, meta |-> "changed", bodyHash |-> Garbage, body |-> Garbage, signed |-> FALSE]>>

\* Any part of a file but the BatchID, which resume takes on trust.
DamagedForms(b) ==
    {[b EXCEPT !.meta = "changed"],
     [b EXCEPT !.body = Garbage], [b EXCEPT !.bodyHash = Garbage],
     [b EXCEPT !.prev = GarbageHash],
     [b EXCEPT !.sig = [prev |-> GarbageHash, bodyHash |-> Garbage]]}

(***************************************************************************)
(* The directory.                                                          *)
(***************************************************************************)
batchFiles(d) == DOMAIN d

IsLast(d, i) == i \in batchFiles(d) /\ \A j \in batchFiles(d) : j <= i

\* Mutants of Excess: newest first; one file too few.
ExcessNewest(d) ==
    {i \in batchFiles(d) : Cardinality({j \in batchFiles(d) : j < i}) >= MaxBatches}
ExcessShort(d) ==
    {i \in batchFiles(d) : Cardinality({j \in batchFiles(d) : j > i}) > MaxBatches}

\* The files with at least MaxBatches newer ones: the `excess' oldest.
Excess(d) ==
    {i \in batchFiles(d) :
        Cardinality({j \in batchFiles(d) : j > i}) >= MaxBatches}

\* What Verify compares the header of file i with: the hash of the file
\* it read just before, the zero hash for the first.
ExpectedPrev(d, i) ==
    IF \E j \in batchFiles(d) : j < i
    THEN FileHash(d[CHOOSE j \in batchFiles(d) :
                        j < i /\ \A k \in batchFiles(d) : k < i => k <= j])
    ELSE ZeroHash

\* Mutant: the signature is not checked.
VerifiesUnsigned(d, i) ==
    /\ d[i].prev = ExpectedPrev(d, i)
    /\ d[i].body = d[i].bodyHash

VerifiesBatch(d, i) ==
    /\ d[i].prev = ExpectedPrev(d, i)
    /\ d[i].body = d[i].bodyHash
    /\ Signed(d[i])

Verify(d) == \A i \in batchFiles(d) : VerifiesBatch(d, i)

(***************************************************************************)
(* Actions.                                                                *)
(***************************************************************************)
Init ==
    /\ up = FALSE /\ current = <<>> /\ bodyBytes = 0
    /\ nextBatchID = 0 /\ prevHash = ZeroHash
    /\ pc = "idle" /\ doomed = {}
    /\ disk = <<>>
    /\ added = 0 /\ written = <<>> /\ lost = {}
    /\ rotFailed = FALSE /\ writeFailed = FALSE /\ damage = 0

\* Mutants of SeedFrom: the id is not advanced; the link is not restored.
SeedSameId(i) == nextBatchID' = disk[i].id /\ prevHash' = FileHash(disk[i])
SeedUnlinked(i) == nextBatchID' = disk[i].id + 1 /\ prevHash' = ZeroHash

\* What resume takes from the newest file.
SeedFrom(i) ==
    /\ nextBatchID' = disk[i].id + 1
    /\ prevHash' = FileHash(disk[i])

\* chain.New: an empty directory starts at genesis, otherwise resume seeds
\* the fields from the newest file, whatever its content has become.
New ==
    /\ ~up
    /\ up' = TRUE
    /\ \/ /\ batchFiles(disk) = {}
          /\ nextBatchID' = 0
          /\ prevHash' = ZeroHash
       \/ \E i \in batchFiles(disk) :
            /\ IsLast(disk, i)
            /\ SeedFrom(i)
    /\ UNCHANGED <<current, bodyBytes, pc, doomed, disk, ghosts>>

\* Add appends first and enters finaliseLocked when a cap is reached.
Add(size) ==
    /\ up /\ pc = "idle"
    /\ added < MaxEvents
    /\ added' = added + 1
    /\ current' = Append(current, added + 1)
    /\ bodyBytes' = bodyBytes + size + 1
    /\ pc' = IF Len(current') >= BatchCap \/ bodyBytes' >= BodyCap
             THEN "write" ELSE "idle"
    /\ UNCHANGED <<up, nextBatchID, prevHash, doomed, disk,
                   written, lost, rotFailed, writeFailed, damage>>

\* Mutant of Tick: only full batches are finalised.
TickFullOnly ==
    /\ up /\ pc = "idle"
    /\ Len(current) >= BatchCap
    /\ pc' = "write"
    /\ UNCHANGED <<up, current, bodyBytes, nextBatchID, prevHash, doomed, disk, ghosts>>

\* The interval ticker and Close.
Tick ==
    /\ up /\ pc = "idle"
    /\ current # <<>>
    /\ pc' = "write"
    /\ UNCHANGED <<up, current, bodyBytes, nextBatchID, prevHash, doomed, disk, ghosts>>

\* Mutant of WriteFails: the batch is cleared although it was not written.
WriteFailsCleared ==
    /\ up /\ pc = "write"
    /\ pc' = "idle"
    /\ current' = <<>> /\ bodyBytes' = 0
    /\ writeFailed' = TRUE
    /\ UNCHANGED <<up, nextBatchID, prevHash, doomed, disk,
                   added, written, lost, rotFailed, damage>>

\* writeBatch returns an error before the rename: finaliseLocked returns
\* it and keeps the batch for the next attempt.
WriteFails ==
    /\ up /\ pc = "write"
    /\ pc' = "idle"
    /\ writeFailed' = TRUE
    /\ UNCHANGED <<up, current, bodyBytes, nextBatchID, prevHash, doomed, disk,
                   added, written, lost, rotFailed, damage>>

\* The rename that publishes the file, the in-memory bookkeeping after it,
\* and rotateLocked's ReadDir, which may fail.
RenameBatch ==
    /\ up /\ pc = "write"
    /\ disk' = [i \in DOMAIN disk \cup {nextBatchID} |->
                  IF i = nextBatchID THEN SealedBatch ELSE disk[i]]
    /\ written' = Append(written, SealedBatch)
    /\ prevHash' = FileHash(SealedBatch)
    /\ nextBatchID' = nextBatchID + 1
    /\ current' = <<>>
    /\ bodyBytes' = 0
    /\ IF MaxBatches = 0 THEN pc' = "idle" /\ UNCHANGED <<doomed, rotFailed>>
       ELSE /\ pc' = "rotate"
            /\ \/ doomed' = Excess(disk') /\ rotFailed' = FALSE
               \/ doomed' = {} /\ rotFailed' = TRUE
    /\ UNCHANGED <<up, added, lost, writeFailed, damage>>

\* One os.Remove of rotateLocked, oldest first; an error is ignored.
RemoveOldest ==
    /\ up /\ pc = "rotate"
    /\ \E i \in doomed :
        /\ \A j \in doomed : i <= j
        /\ doomed' = doomed \ {i}
        /\ \/ disk' = [j \in DOMAIN disk \ {i} |-> disk[j]] /\ UNCHANGED rotFailed
           \/ rotFailed' = TRUE /\ UNCHANGED disk
    /\ UNCHANGED <<up, current, bodyBytes, nextBatchID, prevHash, pc,
                   added, written, lost, writeFailed, damage>>

RotateDone ==
    /\ up /\ pc = "rotate" /\ doomed = {}
    /\ pc' = "idle"
    /\ UNCHANGED <<up, current, bodyBytes, nextBatchID, prevHash, doomed, disk, ghosts>>

\* The daemon exits or is killed anywhere, also inside finaliseLocked.  A
\* temporary file it leaves behind is invisible to batchFiles.
Crash ==
    /\ up
    /\ up' = FALSE
    /\ lost' = lost \cup {current[k] : k \in DOMAIN current}
    /\ current' = <<>> /\ bodyBytes' = 0
    /\ nextBatchID' = 0 /\ prevHash' = ZeroHash
    /\ pc' = "idle" /\ doomed' = {}
    /\ UNCHANGED <<disk, added, written, rotFailed, writeFailed, damage>>

\* The disk flips bits of one file.
Damage(i) ==
    /\ damage < MaxDamage
    /\ damage' = damage + 1
    /\ \E b \in DamagedForms(disk[i]) : disk' = [disk EXCEPT ![i] = b]
    /\ UNCHANGED <<memory, added, written, lost, rotFailed, writeFailed>>

Next ==
    \/ New
    \/ \E size \in Sizes : Add(size)
    \/ Tick
    \/ WriteFails
    \/ RenameBatch
    \/ RemoveOldest
    \/ RotateDone
    \/ Crash
    \/ \E i \in batchFiles(disk) : Damage(i)

\* The ticker fires for ever and a finalise in progress runs on; a disk that
\* accepts a write infinitely often accepts the batch; a supervisor restarts.
Fairness ==
    /\ WF_vars(New) /\ WF_vars(Tick) /\ SF_vars(RenameBatch)
    /\ WF_vars(RemoveOldest) /\ WF_vars(RotateDone)

Spec == Init /\ [][Next]_vars
FairSpec == Spec /\ Fairness

(***************************************************************************)
(* Properties.                                                             *)
(***************************************************************************)
\* The state stays in its domain.
TypeOK ==
    /\ up \in BOOLEAN
    /\ current \in Body
    /\ bodyBytes \in Nat
    /\ nextBatchID \in Nat
    /\ prevHash \in Hash
    /\ pc \in {"idle", "write", "rotate"}
    /\ doomed \subseteq batchFiles(disk)
    /\ batchFiles(disk) \subseteq Nat
    /\ \A i \in batchFiles(disk) : disk[i] \in BatchRecord
    /\ disk = [i \in batchFiles(disk) |-> disk[i]]
    /\ added \in Nat
    /\ written \in Seq(BatchRecord)
    /\ lost \subseteq Nat
    /\ rotFailed \in BOOLEAN /\ writeFailed \in BOOLEAN
    /\ damage \in Nat

\* The newest finalised batch is always in the directory, under the id
\* resume relies on: neither rotation nor a crash may remove the tail, or a
\* restarted daemon would reuse ids and fork the chain.
TailSurvives ==
    written # <<>> => IsLast(disk, Len(written) - 1)

\* Between finalises a running daemon will write the id right after the
\* newest file and link to what that file said when it was written, unless
\* it resumed from a file the disk had damaged.
ResumesAtTail ==
    up => /\ nextBatchID = Len(written)
          /\ damage = 0 => prevHash = IF written = <<>> THEN ZeroHash
                                      ELSE FileHash(written[Len(written)])

\* Any two neighbouring files that survive rotation are linked by hash.
SurvivorsLinked ==
    damage = 0 =>
        \A i \in batchFiles(disk) :
            i + 1 \in batchFiles(disk) => disk[i + 1].prev = FileHash(disk[i])

\* xhelix-verify never rejects a history that is complete and unaltered,
\* across write errors, crashes and resumes; and what it accepts is a range
\* of batches without a gap, up to the newest, that differs from what was
\* written in nothing but the fields no signature covers.
VerdictSound ==
    /\ (/\ batchFiles(disk) = {k - 1 : k \in DOMAIN written}
        /\ \A i \in batchFiles(disk) : disk[i] = written[i + 1]) => Verify(disk)
    /\ Verify(disk) =>
          \A i \in batchFiles(disk) :
             /\ i..(Len(written) - 1) \subseteq batchFiles(disk)
             /\ disk[i] = [written[i + 1] EXCEPT !.meta = disk[i].meta]

\* An event reaches at most one file, in the order Add took the events, and
\* is missing only if it was in memory when the daemon died: a write that
\* fails and is retried neither repeats nor drops an event.
EventsOnce ==
    LET pos == {p \in (1..Len(written)) \X (1..MaxEvents) : p[2] \in DOMAIN written[p[1]].body}
        at(p) == written[p[1]].body[p[2]]
        before(p, q) == p[1] < q[1] \/ (p[1] = q[1] /\ p[2] < q[2])
        held == {current[k] : k \in DOMAIN current}
    IN  /\ \A p, q \in pos : before(p, q) => at(p) < at(q)
        /\ \A p \in pos : \A e \in held \cup lost : at(p) # e
        /\ {at(p) : p \in pos} \cup held \cup lost = 1..added

\* A published file is never rewritten: a step may remove it, or the disk
\* may damage it, but no daemon, old or resumed, replaces it.
NeverRewritten ==
    [][\A i \in DOMAIN disk \cap DOMAIN disk' :
          damage' = damage => disk'[i] = disk[i]]_vars

\* A rotation without an error leaves at most MaxBatches files, also when
\* earlier rotations failed or were cut short by a crash.
RotationConverges ==
    [][(pc = "rotate" /\ pc' = "idle" /\ up' /\ ~rotFailed)
          => Cardinality(DOMAIN disk') <= MaxBatches]_vars

\* Every event Add took is eventually in a file, or was lost with the daemon.
EventuallyDurable ==
    \A e \in 1..MaxEvents :
        (\E k \in DOMAIN current : current[k] = e)
            ~> (e \in lost \/ \E b \in DOMAIN written :
                                 \E k \in DOMAIN written[b].body : written[b].body[k] = e)

\* The chain implements the append-only log its callers rely on.
Log == INSTANCE AuditLog WITH
    accepted <- added, pending <- current, gone <- lost,
    durable <- [b \in DOMAIN written |-> written[b].body]

\* Every step of Add, Tick, finaliseLocked, rotateLocked, New and a crash is
\* a step of that log or invisible to it.
ImplementsLog == Log!Spec

(***************************************************************************)
(* What the comments of chain.go say and the code does not do.             *)
(***************************************************************************)
\* chain.go:61-63: after rotation the verifier still validates any
\* contiguous range from the oldest surviving batch forward.
RotatedRangeVerifies ==
    (/\ damage = 0
     /\ \A i, j \in batchFiles(disk) : \A k \in i..j : k \in batchFiles(disk))
        => Verify(disk)
=============================================================================
