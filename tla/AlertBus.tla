------------------------------ MODULE AlertBus ------------------------------
(***************************************************************************)
(* The alert bus of pkg/alert with the verdict router the daemon installs: *)
(* Send asks the router, snapshots the tags and enqueues without blocking; *)
(* Run pumps the queue into every sink; Close closes the sinks.            *)
(***************************************************************************)
EXTENDS Naturals, Sequences

CONSTANT BusCap  \* capacity of Bus.queue

ASSUME BusAssumption == BusCap \in Nat \ {0}

VARIABLES
    busQueue,     \* Bus.queue
    sending,      \* the alert Run is handing to the sinks, as a sequence of at most one
    pumping,      \* Run has not returned
    sinksClosed,  \* Close has closed the sinks
    busDropped,   \* Bus.dropped: alerts a full queue refused
    suppressed,   \* Bus.suppressed: alerts the router held back
    delivered,    \* alerts handed to open sinks
    undelivered   \* alerts handed to closed sinks

busVars == <<busQueue, sending, pumping, sinksClosed, busDropped, suppressed,
             delivered, undelivered>>

\* The alert of an event, or the verdict synthesised from several.  shared
\* says that its tag map is the one the pipeline goes on writing.
Alert == [id : Nat, synth : BOOLEAN, shared : BOOLEAN]

BusInit ==
    /\ busQueue = <<>> /\ sending = <<>> /\ pumping = TRUE /\ sinksClosed = FALSE
    /\ busDropped = {} /\ suppressed = {} /\ delivered = {} /\ undelivered = {}

\* Mutant of SnapshotTags: the queue keeps the caller's map.
ShareTags(a) == a

SnapshotTags(a) == [a EXCEPT !.shared = FALSE]

Fits == Len(busQueue) < BusCap

\* Mutant of EnqueueAlert: a refused alert is not counted.
EnqueueUncountedAlert(a) ==
    /\ busQueue' = IF Fits THEN Append(busQueue, SnapshotTags(a)) ELSE busQueue
    /\ UNCHANGED busDropped

\* enqueue: snapshot, then send or count the drop.
EnqueueAlert(a) ==
    IF Fits THEN busQueue' = Append(busQueue, SnapshotTags(a)) /\ UNCHANGED busDropped
            ELSE busDropped' = busDropped \cup {SnapshotTags(a)} /\ UNCHANGED busQueue

\* What the router may answer: hard-deny rules pass, facts are held back, a
\* weaker signal is held back and may complete a verdict that is emitted
\* instead of it.
Routes == {"emit", "hold", "verdict"}

Send(a, route) ==
    /\ CASE route = "emit" -> EnqueueAlert(a) /\ UNCHANGED suppressed
         [] route = "hold" -> suppressed' = suppressed \cup {a.id} /\ UNCHANGED <<busQueue, busDropped>>
         [] route = "verdict" -> EnqueueAlert([a EXCEPT !.synth = TRUE])
                                 /\ suppressed' = suppressed \cup {a.id}
    /\ UNCHANGED <<sending, pumping, sinksClosed, delivered, undelivered>>

\* Run takes an alert, hands it to the sinks, which marshal it, and returns
\* when the context is done.
PumpTake ==
    /\ pumping /\ sending = <<>> /\ busQueue # <<>>
    /\ sending' = <<Head(busQueue)>> /\ busQueue' = Tail(busQueue)
    /\ UNCHANGED <<pumping, sinksClosed, busDropped, suppressed, delivered, undelivered>>

PumpDeliver ==
    /\ sending # <<>>
    /\ sending' = <<>>
    /\ IF sinksClosed THEN undelivered' = undelivered \cup {sending[1]} /\ UNCHANGED delivered
                      ELSE delivered' = delivered \cup {sending[1]} /\ UNCHANGED undelivered
    /\ UNCHANGED <<busQueue, pumping, sinksClosed, busDropped, suppressed>>

PumpStop ==
    /\ pumping /\ sending = <<>>
    /\ pumping' = FALSE
    /\ UNCHANGED <<busQueue, sending, sinksClosed, busDropped, suppressed, delivered, undelivered>>

\* Bus.Close.
CloseSinks ==
    /\ sinksClosed' = TRUE
    /\ UNCHANGED <<busQueue, sending, pumping, busDropped, suppressed, delivered, undelivered>>
=============================================================================
