----------------------------- MODULE ColdStore -----------------------------
(***************************************************************************)
(* The durable event store of pkg/coldstore: Submit puts a snapshot of the *)
(* event on a bounded queue, a flusher goroutine takes batches off it and  *)
(* writes them into one table per UTC day, a pruner drops old days, and    *)
(* Close flushes once in the caller's goroutine and closes the database.   *)
(* The queue has its own mutex, the name of the current table another, and *)
(* the database handle is a pool of one connection, so one statement or    *)
(* transaction of it is one step here and everything between two of them   *)
(* is an interleaving.                                                     *)
(***************************************************************************)
EXTENDS Naturals, Sequences, FiniteSets

CONSTANTS
    QueueSize,      \* Store.queueSize
    BatchSize,      \* Store.batchSize
    Days,           \* UTC days an event may carry
    Today,          \* the day New and DropOldDays run on
    RetentionDays,  \* Store.retentionDays
    MaxEvents,      \* bound: events the pipeline submits
    MaxErrors       \* bound: statements the disk refuses

ASSUME ColdAssumption ==
    /\ QueueSize \in Nat \ {0} /\ BatchSize \in Nat \ {0}
    /\ Days \subseteq Nat \ {0} /\ Today \in Days
    /\ RetentionDays \in Nat \ {0}
    /\ MaxEvents \in Nat /\ MaxErrors \in Nat

VARIABLES
    caller,        \* the pipeline goroutine: [pc, day] of the event in hand
    submitted,     \* Store.submitted; also the number of the event in hand
    queue,         \* Store.queue
    flusherUp,     \* runFlusher has not returned
    jobs,          \* where the flushOnce of the flusher and of Close are
    ctxDone,       \* the daemon's context is cancelled
    closePc,       \* where Close is; past "open", Store.closed is set
    currentTable,  \* Store.currentTable
    tables,        \* day tables in the database
    listed,        \* days the pruner has enumerated and not yet looked at
    victim,        \* the day it found not to be current, 0 for none
    fate,          \* what became of each event that left the queue
    errors         \* statements the disk has refused

dbVars == <<currentTable, tables>>
pruneVars == <<listed, victim>>
vars == <<caller, submitted, queue, flusherUp, jobs, ctxDone, closePc, dbVars,
          pruneVars, fate, errors>>

Workers == {"flusher", "closer"}

\* A queued event: its number, its day, and whether its tag map is still the
\* one the pipeline writes.
Item == [id : 1..MaxEvents, day : Days, shared : BOOLEAN]

Ids(s) == {s[k].id : k \in DOMAIN s}
Fates(ids, f) == [e \in 1..MaxEvents |-> IF e \in ids THEN f ELSE fate[e]]

closed == closePc # "open"
dbOpen == closePc # "closed"

\* New creates today's table.
Init ==
    /\ caller = [pc |-> "idle", day |-> Today] /\ submitted = 0
    /\ queue = <<>> /\ flusherUp = TRUE
    /\ jobs = [w \in Workers |-> [pc |-> "idle", batch |-> <<>>]]
    /\ ctxDone = FALSE /\ closePc = "open"
    /\ currentTable = Today /\ tables = {Today}
    /\ listed = {} /\ victim = 0
    /\ fate = [e \in 1..MaxEvents |-> "none"] /\ errors = 0

(***************************************************************************)
(* Submit, on the pipeline's goroutine.                                    *)
(***************************************************************************)
\* The check of closed, which is not repeated under the queue's lock.
Submit ==
    /\ caller.pc = "idle" /\ ~closed /\ submitted < MaxEvents
    /\ \E d \in Days : caller' = [pc |-> "enqueue", day |-> d]
    /\ submitted' = submitted + 1
    /\ UNCHANGED <<queue, flusherUp, jobs, ctxDone, closePc, dbVars, pruneVars, fate, errors>>

\* Mutant of Snapshot: the struct is copied, its map is not.
SnapshotShallow(item) == item

\* Submit's copy of the tag map, made on the goroutine that writes it.
Snapshot(item) == [item EXCEPT !.shared = FALSE]

InHand == [id |-> submitted, day |-> caller.day, shared |-> TRUE]

\* Mutant of Enqueue: a full queue refuses the newest.
EnqueueDropNewest ==
    /\ caller.pc = "enqueue"
    /\ IF Len(queue) >= QueueSize
       THEN fate' = Fates({submitted}, "dropped") /\ UNCHANGED queue
       ELSE queue' = Append(queue, Snapshot(InHand)) /\ UNCHANGED fate
    /\ caller' = [caller EXCEPT !.pc = "stamping"]
    /\ UNCHANGED <<submitted, flusherUp, jobs, ctxDone, closePc, dbVars, pruneVars, errors>>

\* The part under queueMu: a full queue drops its oldest entry.
Enqueue ==
    /\ caller.pc = "enqueue"
    /\ LET full == Len(queue) >= QueueSize IN
       /\ queue' = Append(IF full THEN Tail(queue) ELSE queue, Snapshot(InHand))
       /\ fate' = IF full THEN Fates({Head(queue).id}, "dropped") ELSE fate
    /\ caller' = [caller EXCEPT !.pc = "stamping"]
    /\ UNCHANGED <<submitted, flusherUp, jobs, ctxDone, closePc, dbVars, pruneVars, errors>>

\* The later stages of Handle, which go on stamping the event's map.
Stamp ==
    /\ caller.pc = "stamping"
    /\ caller' = [caller EXCEPT !.pc = "idle"]
    /\ UNCHANGED <<submitted, queue, flusherUp, jobs, ctxDone, closePc, dbVars, pruneVars, fate, errors>>

(***************************************************************************)
(* The flusher, and the flushOnce that Close runs beside it.               *)
(***************************************************************************)
BatchLen == IF Len(queue) < BatchSize THEN Len(queue) ELSE BatchSize

\* flushOnce under queueMu: at most one batch leaves the queue.
TakeBatch(w) ==
    /\ jobs[w].pc = "idle" /\ queue # <<>>
    /\ jobs' = [jobs EXCEPT ![w] = [pc |-> "table", batch |-> SubSeq(queue, 1, BatchLen)]]
    /\ queue' = SubSeq(queue, BatchLen + 1, Len(queue))

\* Mutant of FlushTick: a tick waits for a full batch.
FlushTickFull ==
    /\ flusherUp /\ Len(queue) >= BatchSize /\ TakeBatch("flusher")
    /\ UNCHANGED <<caller, submitted, flusherUp, ctxDone, closePc, dbVars, pruneVars, fate, errors>>

\* A tick of runFlusher: select may prefer it to a ready ctx.Done or done.
FlushTick ==
    /\ flusherUp /\ TakeBatch("flusher")
    /\ UNCHANGED <<caller, submitted, flusherUp, ctxDone, closePc, dbVars, pruneVars, fate, errors>>

\* The other two cases: a last flush when the context is done, none when Close
\* has closed the done channel.
FlusherEnds ==
    /\ flusherUp /\ jobs["flusher"].pc = "idle"
    /\ \/ ctxDone /\ IF queue = <<>> THEN UNCHANGED <<queue, jobs>> ELSE TakeBatch("flusher")
       \/ closed /\ UNCHANGED <<queue, jobs>>
    /\ flusherUp' = FALSE
    /\ UNCHANGED <<caller, submitted, ctxDone, closePc, dbVars, pruneVars, fate, errors>>

Day(w) == jobs[w].batch[1].day

\* The rows of a batch up to the first one of another day.
GroupLen(b) ==
    CHOOSE n \in 1..Len(b) :
        /\ \A k \in 1..n : b[k].day = b[1].day
        /\ n = Len(b) \/ b[n + 1].day # b[1].day

\* An error ends flushOnce: the group and the rest of the batch are gone.
GiveUp(w) ==
    /\ fate' = Fates(Ids(jobs[w].batch), "failed")
    /\ jobs' = [jobs EXCEPT ![w] = [pc |-> "idle", batch |-> <<>>]]

Refused == errors < MaxErrors /\ errors' = errors + 1

\* ensureTableForName: the cached name needs no statement, any other one a
\* CREATE TABLE IF NOT EXISTS before it is cached.
EnsureTable(w) ==
    /\ jobs[w].pc = "table"
    /\ \/ /\ currentTable = Day(w) \/ dbOpen
          /\ tables' = IF currentTable = Day(w) THEN tables ELSE tables \cup {Day(w)}
          /\ currentTable' = Day(w)
          /\ jobs' = [jobs EXCEPT ![w].pc = "write"]
          /\ UNCHANGED <<fate, errors>>
       \/ /\ currentTable # Day(w)
          /\ (~dbOpen /\ UNCHANGED errors) \/ Refused
          /\ GiveUp(w)
          /\ UNCHANGED dbVars
    /\ UNCHANGED <<caller, submitted, queue, flusherUp, ctxDone, closePc, pruneVars>>

\* Mutant of WriteBatch: flushOnce ends after its first group.
WriteBatchForgets(w) ==
    /\ jobs[w].pc = "write"
    /\ LET b == jobs[w].batch  n == GroupLen(b) IN
       /\ fate' = Fates(Ids(SubSeq(b, 1, n)), "written")
       /\ jobs' = [jobs EXCEPT ![w] = [pc |-> "idle", batch |-> <<>>]]
    /\ UNCHANGED <<caller, submitted, queue, flusherUp, ctxDone, closePc, dbVars, pruneVars, errors>>

\* writeBatch: one transaction for the group, all of it or nothing.
WriteBatch(w) ==
    /\ jobs[w].pc = "write"
    /\ LET b == jobs[w].batch  n == GroupLen(b)  there == dbOpen /\ Day(w) \in tables IN
       \/ /\ there
          /\ fate' = Fates(Ids(SubSeq(b, 1, n)), "written")
          /\ jobs' = [jobs EXCEPT ![w] =
                        [pc |-> IF n = Len(b) THEN "idle" ELSE "table",
                         batch |-> SubSeq(b, n + 1, Len(b))]]
          /\ UNCHANGED errors
       \/ /\ (~there /\ UNCHANGED errors) \/ Refused
          /\ GiveUp(w)
    /\ UNCHANGED <<caller, submitted, queue, flusherUp, ctxDone, closePc, dbVars, pruneVars>>

(***************************************************************************)
(* The pruner.                                                             *)
(***************************************************************************)
\* The enumeration of DropOldDays, which keeps the days within retention, or
\* of DropDaysOverSize, which goes through all of them when the file is too
\* large.
PruneList ==
    /\ dbOpen /\ listed = {} /\ victim = 0
    /\ listed' \in {{d \in tables : d + RetentionDays < Today}, tables} \ {{}}
    /\ UNCHANGED <<caller, submitted, queue, flusherUp, jobs, ctxDone, closePc, dbVars, victim, fate, errors>>

\* Table by table, in the order of their names or of their creation.  The look
\* at the current name and the DROP are two critical sections.
PruneCheck ==
    /\ victim = 0
    /\ \E d \in listed :
        /\ listed' = listed \ {d}
        /\ victim' = IF d = currentTable THEN 0 ELSE d
    /\ UNCHANGED <<caller, submitted, queue, flusherUp, jobs, ctxDone, closePc, dbVars, fate, errors>>

\* A failing DROP ends the pass; so does a file that is small enough again.
PruneDrop ==
    /\ victim # 0
    /\ victim' = 0
    /\ \/ dbOpen /\ tables' = tables \ {victim} /\ listed' \in {listed, {}} /\ UNCHANGED errors
       \/ ((~dbOpen /\ UNCHANGED errors) \/ Refused) /\ listed' = {} /\ UNCHANGED tables
    /\ UNCHANGED <<caller, submitted, queue, flusherUp, jobs, ctxDone, closePc, currentTable, fate>>

(***************************************************************************)
(* Shutdown.                                                               *)
(***************************************************************************)
Cancel ==
    /\ ~ctxDone
    /\ ctxDone' = TRUE
    /\ UNCHANGED <<caller, submitted, queue, flusherUp, jobs, closePc, dbVars, pruneVars, fate, errors>>

\* Close, called once the context is done: set closed, flush once, close the
\* handle.
Close ==
    /\ ctxDone
    /\ \/ closePc = "open" /\ closePc' = "flush" /\ UNCHANGED <<queue, jobs>>
       \/ closePc = "flush" /\ closePc' = "db"
          /\ IF queue = <<>> THEN UNCHANGED <<queue, jobs>> ELSE TakeBatch("closer")
       \/ closePc = "db" /\ jobs["closer"].pc = "idle" /\ closePc' = "closed" /\ UNCHANGED <<queue, jobs>>
    /\ UNCHANGED <<caller, submitted, flusherUp, ctxDone, dbVars, pruneVars, fate, errors>>

FlushStep == \E w \in Workers : EnsureTable(w) \/ WriteBatch(w)

Next ==
    \/ Submit \/ Enqueue \/ Stamp
    \/ FlushTick \/ FlusherEnds \/ FlushStep
    \/ PruneList \/ PruneCheck \/ PruneDrop
    \/ Cancel \/ Close

Spec == Init /\ [][Next]_vars

\* The pipeline's goroutine is scheduled; the flush ticker fires and its
\* flush runs to its end.
FairSpec == Spec /\ WF_vars(Enqueue \/ Stamp) /\ WF_vars(FlushTick) /\ WF_vars(FlushStep)

(***************************************************************************)
(* Properties.                                                             *)
(***************************************************************************)
\* The state stays in its domain.
TypeOK ==
    /\ caller \in [pc : {"idle", "enqueue", "stamping"}, day : Days]
    /\ submitted \in 0..MaxEvents
    /\ queue \in Seq(Item) /\ Len(queue) <= QueueSize
    /\ flusherUp \in BOOLEAN /\ ctxDone \in BOOLEAN
    /\ closePc \in {"open", "flush", "db", "closed"}
    /\ \A w \in Workers : /\ jobs[w].batch \in Seq(Item)
                          /\ jobs[w].pc \in {"idle", "table", "write"}
                          /\ jobs[w].pc = "idle" <=> jobs[w].batch = <<>>
    /\ currentTable \in Days /\ tables \subseteq Days
    /\ listed \subseteq Days /\ victim \in Days \cup {0}
    /\ fate \in [1..MaxEvents -> {"none", "dropped", "written", "failed"}]
    /\ errors \in 0..MaxErrors

\* No flush marshals a tag map that the pipeline is still stamping: the queue
\* holds snapshots (coldstore.go:188-200), so the runtime never aborts on a
\* concurrent map access and a row is the event as it was when submitted.
FlushNeverRaces ==
    \A w \in Workers : \A k \in DOMAIN jobs[w].batch :
        LET x == jobs[w].batch[k]
        IN  ~(jobs[w].pc = "write" /\ x.shared /\ caller.pc = "stamping" /\ x.id = submitted)

\* Every submitted event is in exactly one place - on its way to the queue,
\* queued, in the batch of one flush, or settled - through two concurrent
\* flushes, day changes inside a batch, failing statements and Close.
Accounted ==
    LET places(e) == Cardinality({k \in DOMAIN queue : queue[k].id = e})
                     + Cardinality({p \in Workers \X (1..BatchSize) :
                           p[2] \in DOMAIN jobs[p[1]].batch /\ jobs[p[1]].batch[p[2]].id = e})
                     + (IF caller.pc = "enqueue" /\ e = submitted THEN 1 ELSE 0)
                     + (IF fate[e] # "none" THEN 1 ELSE 0)
    IN  \A e \in 1..MaxEvents : places(e) = IF e <= submitted THEN 1 ELSE 0

\* A full queue sacrifices the oldest context, never the newest: whatever was
\* dropped is older than everything still queued (coldstore.go:12-14).
OldestDroppedFirst ==
    \A e \in 1..MaxEvents : fate[e] = "dropped" => \A k \in DOMAIN queue : e < queue[k].id

\* Every submitted event is eventually written, dropped by a full queue or
\* given up with a failed flush, unless the daemon stops first.
EventsSettle ==
    \A e \in 1..MaxEvents : (e <= submitted) ~> (ctxDone \/ fate[e] # "none")

(***************************************************************************)
(* What a comment says and the code does not do.                           *)
(***************************************************************************)
\* coldstore.go:580-582: pruning never drops the currently-active table.
CurrentTableKept == currentTable \in tables
=============================================================================
