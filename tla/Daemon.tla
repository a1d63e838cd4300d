------------------------------- MODULE Daemon -------------------------------
(***************************************************************************)
(* The way of an event and its alert through the running daemon            *)
(* (cmd/xhelix/run.go and pkg/pipeline): sensors fill the events channel;  *)
(* the dispatch goroutine handles one event at a time, stamping its tag    *)
(* map before and after it hands it to the stores, the forensic chain and, *)
(* through emit, to the alert bus and the web server, which read it on     *)
(* goroutines of their own; a signal cancels the context and run() stops   *)
(* the parts one by one without waiting for the goroutines.  The chain is  *)
(* the append-only log that module Chain implements, encoded and written   *)
(* under its mutex; it and the web server keep the live tag map, and a     *)
(* read of it while Handle still stamps makes the Go runtime abort the     *)
(* process.  The cold store, which shares nothing with the rest, has       *)
(* module ColdStore.                                                       *)
(***************************************************************************)
EXTENDS AlertBus, FiniteSets

CONSTANT MaxEvents  \* bound: events the sensors produce

ASSUME DaemonAssumption == MaxEvents \in Nat

VARIABLES
    pipe,      \* the stage of the dispatch goroutine
    tickerUp,  \* the goroutine that ticks and closes the chain
    encoder,   \* the goroutine that holds Chain.mu and encodes the batch, or "none"
    web,       \* alerts the web server keeps
    webHeld,   \* alerts a request handler is marshalling
    ctxDone,   \* the context is cancelled
    mainPc,    \* where run() is in its shutdown sequence
    accepted, pending, durable, gone,  \* the forensic chain
    alerts,    \* alerts that reached the bus: [id, route]
    early,       \* events whose Handle returned before the context was cancelled
    closeFailed  \* run()'s Close of the chain could not write the batch

Log == INSTANCE AuditLog

logVars == <<accepted, pending, durable, gone>>
procVars == <<pipe, tickerUp, encoder, web, webHeld, ctxDone, mainPc>>
histVars == <<alerts, early, closeFailed>>
vars == <<busVars, logVars, procVars, histVars>>

Stages == {"idle", "persist", "alert", "verdict", "stopped"}
MainSteps == <<"serving", "chain", "bus", "exit", "exited">>

Init ==
    /\ BusInit /\ Log!Init
    /\ pipe = "idle" /\ tickerUp = TRUE /\ encoder = "none" /\ web = {} /\ webHeld = {}
    /\ ctxDone = FALSE /\ mainPc = "serving"
    /\ alerts = {} /\ early = {} /\ closeFailed = FALSE

Alive == mainPc \notin {"exited", "aborted"}

\* The event in hand is the one after those handled: Handle adds every event
\* to the chain, so the chain's count numbers them.
InHand == IF pipe \in {"alert", "verdict"} THEN accepted ELSE accepted + 1
Handling == pipe \notin {"idle", "stopped"}

\* The pipeline still stamps the tag map x refers to.
Live(x) == x.shared /\ Handling /\ x.id = InHand

(***************************************************************************)
(* Sensors and the dispatch goroutine.                                     *)
(***************************************************************************)
\* Run's select takes an event a sensor has put on the channel, also when the
\* context is done, and calls Handle.
Receive ==
    /\ Alive /\ pipe = "idle" /\ accepted < MaxEvents
    /\ pipe' = "persist"
    /\ UNCHANGED <<busVars, logVars, tickerUp, encoder, web, webHeld, ctxDone, mainPc, histVars>>

StopPipeline ==
    /\ Alive /\ pipe = "idle" /\ ctxDone
    /\ pipe' = "stopped"
    /\ UNCHANGED <<busVars, logVars, tickerUp, encoder, web, webHeld, ctxDone, mainPc, histVars>>

\* Chain.Add takes the mutex and keeps the event with its live tag map; one
\* that fills the batch encodes and writes it on this goroutine.
AddToChain ==
    /\ Alive /\ pipe = "persist" /\ encoder = "none"
    /\ Log!Take
    /\ encoder' \in {"none", "dispatch"}
    /\ pipe' = "alert"
    /\ UNCHANGED <<busVars, tickerUp, web, webHeld, ctxDone, mainPc, histVars>>

\* Rules and detectors that stay silent, or whose alert the fire-rate limit
\* or the baseline gate stops at the top of emit.
NoAlert ==
    /\ Alive /\ pipe = "alert" /\ encoder # "dispatch"
    /\ pipe' = "verdict"
    /\ UNCHANGED <<busVars, logVars, tickerUp, encoder, web, webHeld, ctxDone, mainPc, histVars>>

\* emit: the bus and the web server get the alert, the latter with the map
\* itself (a downgrade or an intelligence hit has stamped that map too).
Emit ==
    /\ Alive /\ pipe = "alert" /\ encoder # "dispatch"
    /\ \E route \in Routes :
        LET a == [id |-> InHand, synth |-> FALSE, shared |-> TRUE] IN
        /\ Send(a, route)
        /\ web' = web \cup {a}
        /\ alerts' = alerts \cup {[id |-> InHand, route |-> route]}
    /\ pipe' = "verdict"
    /\ UNCHANGED <<logVars, tickerUp, encoder, webHeld, ctxDone, mainPc, early, closeFailed>>

\* The last stamps, and the return of Handle.
Judge ==
    /\ Alive /\ pipe = "verdict"
    /\ pipe' = "idle"
    /\ early' = IF ctxDone THEN early ELSE early \cup {InHand}
    /\ UNCHANGED <<busVars, logVars, tickerUp, encoder, web, webHeld, ctxDone, mainPc,
                   alerts, closeFailed>>

(***************************************************************************)
(* The other goroutines.                                                   *)
(***************************************************************************)
\* Mutant of Pump: the pump of a bus whose context is live stops as well.
PumpMayQuit ==
    /\ Alive
    /\ PumpTake \/ PumpDeliver \/ PumpStop
    /\ UNCHANGED <<logVars, procVars, histVars>>

Pump ==
    /\ Alive
    /\ PumpTake \/ PumpDeliver \/ (ctxDone /\ PumpStop)
    /\ UNCHANGED <<logVars, procVars, histVars>>

\* The chain's ticker calls Tick, and Close when the context is done: both
\* take the mutex and, unless nothing is buffered, encode the batch.
ChainTick ==
    /\ Alive /\ tickerUp /\ encoder = "none"
    /\ encoder' = IF pending = <<>> THEN "none" ELSE "ticker"
    /\ tickerUp' \in (IF ctxDone THEN BOOLEAN ELSE {TRUE})
    /\ UNCHANGED <<busVars, logVars, pipe, web, webHeld, ctxDone, mainPc, histVars>>

\* The rest of finaliseLocked: the batch is written, or the write fails, the
\* buffer stays and the callers ignore or log the error; the mutex is released.
WriteBatch ==
    /\ Alive /\ encoder # "none"
    /\ \/ Log!Commit /\ UNCHANGED closeFailed
       \/ closeFailed' = (closeFailed \/ encoder = "main") /\ UNCHANGED logVars
    /\ encoder' = "none"
    /\ mainPc' = IF encoder = "main" THEN "bus" ELSE mainPc
    /\ UNCHANGED <<busVars, pipe, tickerUp, web, webHeld, ctxDone, alerts, early>>

\* A request handler copies the list under the lock and marshals the copy.
WebRequest ==
    /\ Alive /\ webHeld = {} /\ web # {}
    /\ webHeld' = web
    /\ UNCHANGED <<busVars, logVars, pipe, tickerUp, encoder, web, ctxDone, mainPc, histVars>>

WebReply ==
    /\ Alive /\ webHeld # {}
    /\ webHeld' = {}
    /\ UNCHANGED <<busVars, logVars, pipe, tickerUp, encoder, web, ctxDone, mainPc, histVars>>

\* A request, or the chain on another goroutine, reads a map Handle stamps.
Racing ==
    \/ \E x \in webHeld : Live(x)
    \/ /\ encoder \in {"ticker", "main"} /\ Handling
       /\ \E k \in DOMAIN pending : pending[k] = InHand

\* "fatal error: concurrent map iteration and map write": the runtime may
\* notice, and ends the process at once.
Abort ==
    /\ Alive /\ Racing
    /\ mainPc' = "aborted"
    /\ Log!Lose
    /\ UNCHANGED <<busVars, pipe, tickerUp, encoder, web, webHeld, ctxDone, histVars>>

(***************************************************************************)
(* run().                                                                  *)
(***************************************************************************)
Signal ==
    /\ Alive /\ ~ctxDone
    /\ ctxDone' = TRUE
    /\ UNCHANGED <<busVars, logVars, pipe, tickerUp, encoder, web, webHeld, mainPc, histVars>>

NextStep(s) == MainSteps[1 + CHOOSE i \in 1..Len(MainSteps) : MainSteps[i] = s]

Advance == mainPc' = NextStep(mainPc)
OthersHold == UNCHANGED <<pipe, tickerUp, web, webHeld, ctxDone, histVars>>

\* Past <-ctx.Done(): sensors, guards and the response engine are told to
\* stop, none of which touches what is modelled here.
BeginShutdown ==
    /\ mainPc = "serving" /\ ctxDone
    /\ Advance /\ OthersHold /\ UNCHANGED <<busVars, logVars, encoder>>

\* Mutant of CloseChain: only the ticker's Close is left.
CloseChainByTicker ==
    /\ mainPc = "chain"
    /\ Advance /\ OthersHold /\ UNCHANGED <<busVars, logVars, encoder>>

\* Close waits for the mutex; WriteBatch is its second half.
CloseChain ==
    /\ mainPc = "chain" /\ encoder = "none"
    /\ IF pending = <<>> THEN Advance /\ UNCHANGED encoder
                         ELSE encoder' = "main" /\ UNCHANGED mainPc
    /\ OthersHold /\ UNCHANGED <<busVars, logVars>>

CloseBus ==
    /\ mainPc = "bus"
    /\ CloseSinks
    /\ Advance /\ OthersHold /\ UNCHANGED <<logVars, encoder>>

\* foundation.Stop and the deferred calls touch nothing modelled here; the
\* return of run() ends the process.
Exit ==
    /\ mainPc = "exit"
    /\ Log!Lose
    /\ Advance /\ OthersHold /\ UNCHANGED <<busVars, encoder>>

Main == BeginShutdown \/ CloseChain \/ CloseBus \/ Exit

Dispatch ==
    \/ Receive \/ StopPipeline \/ AddToChain \/ NoAlert \/ Emit \/ Judge

Next ==
    \/ Dispatch
    \/ Pump \/ ChainTick \/ WriteBatch \/ WebRequest \/ WebReply
    \/ Signal \/ Main \/ Abort

\* The pump's goroutine is scheduled and the sinks return.  Nothing else is
\* needed: nothing makes an operator send the signal, or a write succeed.
Fairness == WF_vars(Pump)

Spec == Init /\ [][Next]_vars
FairSpec == Spec /\ Fairness

(***************************************************************************)
(* Properties.                                                             *)
(***************************************************************************)
\* The state stays in its domain.
TypeOK ==
    /\ busQueue \in Seq(Alert) /\ Len(busQueue) <= BusCap
    /\ sending \in Seq(Alert) /\ Len(sending) <= 1
    /\ pumping \in BOOLEAN /\ sinksClosed \in BOOLEAN
    /\ pipe \in Stages /\ tickerUp \in BOOLEAN /\ ctxDone \in BOOLEAN
    /\ encoder \in {"none", "dispatch", "ticker", "main"}
    /\ web \subseteq Alert /\ webHeld \subseteq web
    /\ mainPc = "aborted" \/ \E i \in DOMAIN MainSteps : mainPc = MainSteps[i]

\* No sink marshals a tag map that the pipeline is still stamping: the bus
\* queues snapshots (bus.go:58-70), so an alert is delivered as it was when it
\* was sent and the runtime never aborts on a concurrent map access there.
SinksNeverRace == \A k \in DOMAIN sending : ~Live(sending[k])

\* Every alert the router lets through is queued, being sent, delivered,
\* counted as dropped or lost to closed sinks, once; a held-back alert reaches
\* the sinks only as the verdict that replaced it.
AlertsAccounted ==
    LET queued == {busQueue[k] : k \in DOMAIN busQueue} \cup {sending[k] : k \in DOMAIN sending}
        all == queued \cup delivered \cup undelivered \cup busDropped
        ids(set) == {x.id : x \in set}
    IN  /\ ids({x \in all : ~x.synth}) = ids({x \in alerts : x.route = "emit"})
        /\ ids({x \in all : x.synth}) = ids({x \in alerts : x.route = "verdict"})
        /\ Cardinality(all) = Len(busQueue) + Len(sending) + Cardinality(delivered)
                                 + Cardinality(undelivered) + Cardinality(busDropped)
        /\ undelivered # {} => ctxDone

\* A clean stop loses no evidence, except when run()'s own Close, whose error
\* it ignores, cannot write the last batch: an event whose handling ended
\* before the signal is in the forensic chain on disk when run() has returned,
\* whatever failed before, although nothing waits for the dispatch goroutine
\* or the chain's ticker.
CleanStopKeepsEvidence ==
    mainPc = "exited" /\ ~closeFailed =>
        early \subseteq UNION {{durable[b][k] : k \in DOMAIN durable[b]} : b \in DOMAIN durable}

\* While the daemon serves, an alert that was let through reaches the sinks or
\* is counted as dropped.
AlertsSettle ==
    \A e \in 1..MaxEvents :
        (\E x \in alerts : x.id = e /\ x.route # "hold")
            ~> (ctxDone \/ ~Alive \/ \E x \in delivered \cup busDropped : x.id = e)

(***************************************************************************)
(* What bus.go and coldstore.go say, and Handle does not do elsewhere.     *)
(***************************************************************************)
\* bus.go:60-65, coldstore.go:188-194: whoever marshals an event on another
\* goroutine must work on a snapshot of its tags, because the pipeline goes on
\* writing the map; the chain and the web server keep the map itself.
TagsNeverRace == SinksNeverRace /\ ~Racing
=============================================================================
