---------------------------- MODULE DaemonProofs ----------------------------
(***************************************************************************)
(* Proofs about the running daemon for every bus capacity and any number   *)
(* of events, and every moment at which the signal to stop may come.       *)
(***************************************************************************)
EXTENDS Daemon, SequenceTheorems, FiniteSetTheorems, TLAPS

\* An alert as the bus queues it: with a tag map of its own.
Snap == [id : Nat, synth : BOOLEAN, shared : {FALSE}]

MainPcs == {"serving", "chain", "bus", "exit", "exited", "aborted"}

TypeInv ==
    /\ busQueue \in Seq(Snap) /\ Len(busQueue) <= BusCap
    /\ sending \in Seq(Snap) /\ Len(sending) <= 1
    /\ pumping \in BOOLEAN /\ sinksClosed \in BOOLEAN
    /\ delivered \subseteq Snap /\ undelivered \subseteq Snap /\ busDropped \subseteq Snap
    /\ pipe \in Stages /\ tickerUp \in BOOLEAN /\ ctxDone \in BOOLEAN /\ closeFailed \in BOOLEAN
    /\ encoder \in {"none", "dispatch", "ticker", "main"}
    /\ web \subseteq Alert /\ webHeld \subseteq web
    /\ mainPc \in MainPcs
    /\ accepted \in Nat /\ pending \in Seq(Nat) /\ durable \in Seq(Seq(Nat))
    /\ pipe \in {"alert", "verdict"} => accepted >= 1

\* The events in the blocks on disk, and those taken but not yet on disk.
Stored == UNION {{durable[b][k] : k \in DOMAIN durable[b]} : b \in DOMAIN durable}
Buffered == {pending[k] : k \in DOMAIN pending}

(***************************************************************************)
(* CleanStopKeepsEvidence is about the last moment only.  While the        *)
(* process lives, every event taken is on disk or in the buffer, failed    *)
(* writes included; the shutdown begins after the signal, so no event      *)
(* joins `early' from then on; run() holds the mutex only to close the     *)
(* chain; and once it has closed it, all of `early' is on disk unless that *)
(* write failed.                                                           *)
(***************************************************************************)
EvidenceInv ==
    /\ Alive => 1..accepted \subseteq Stored \cup Buffered
    /\ early \subseteq 1..accepted
    /\ mainPc \notin {"serving", "aborted"} => ctxDone
    /\ encoder = "main" => mainPc \in {"chain", "aborted"}
    /\ mainPc \in {"bus", "exit", "exited"} /\ ~closeFailed => early \subseteq Stored
    /\ sinksClosed => ctxDone
    /\ undelivered # {} => ctxDone

Queued == {busQueue[k] : k \in DOMAIN busQueue} \cup {sending[k] : k \in DOMAIN sending}
Known == Queued \cup delivered \cup undelivered \cup busDropped

(***************************************************************************)
(* AlertsAccounted counts alerts; that a step counts each one once needs   *)
(* their order: the bus is first in, first out, so what has been handed to *)
(* the sinks is older than what is being sent, and that is older than what *)
(* is queued, and an event in hand is newer than every alert so far.       *)
(***************************************************************************)
BusInv ==
    /\ \A i, j \in DOMAIN busQueue : i < j => busQueue[i].id < busQueue[j].id
    /\ \A i \in DOMAIN sending, j \in DOMAIN busQueue : sending[i].id < busQueue[j].id
    /\ \A x \in delivered \cup undelivered, y \in Queued : x.id < y.id
    /\ \A x \in Known : x.id <= accepted /\ (pipe = "alert" => x.id < accepted)
    /\ IsFiniteSet(delivered) /\ IsFiniteSet(undelivered) /\ IsFiniteSet(busDropped)
    /\ IsFiniteSet(Known)
    /\ Cardinality(Known) = Len(busQueue) + Len(sending) + Cardinality(delivered)
                              + Cardinality(undelivered) + Cardinality(busDropped)

\* Every alert let through is known once, under the form the router gave it.
RouteInv ==
    \A e : /\ (\E x \in Known : x.id = e /\ ~x.synth) <=> (\E a \in alerts : a.id = e /\ a.route = "emit")
           /\ (\E x \in Known : x.id = e /\ x.synth) <=> (\E a \in alerts : a.id = e /\ a.route = "verdict")

DaemonInv == TypeInv /\ EvidenceInv /\ BusInv /\ RouteInv

-----------------------------------------------------------------------------
\* The order of run()'s shutdown.
LEMMA NextStepIs ==
    /\ NextStep("serving") = "chain" /\ NextStep("chain") = "bus"
    /\ NextStep("bus") = "exit" /\ NextStep("exit") = "exited"
<1>1. /\ Len(MainSteps) = 5
      /\ MainSteps[1] = "serving" /\ MainSteps[2] = "chain" /\ MainSteps[3] = "bus"
      /\ MainSteps[4] = "exit" /\ MainSteps[5] = "exited"
  BY DEF MainSteps
<1> HIDE DEF MainSteps
<1>2. \A s : \A i \in 1..5 :
        (MainSteps[i] = s /\ \A j \in 1..5 : MainSteps[j] = s => j = i) => NextStep(s) = MainSteps[1 + i]
  BY <1>1 DEF NextStep
<1>3. \A i, j \in 1..5 : MainSteps[i] = MainSteps[j] => i = j
  BY <1>1
<1>4. QED
  BY <1>1, <1>2, <1>3

\* SnapshotTags gives the alert a map of its own.
LEMMA SnapshotIs ==
  ASSUME NEW a \in Alert
  PROVE  /\ SnapshotTags(a) \in Snap /\ SnapshotTags(a).id = a.id
         /\ SnapshotTags(a).synth = a.synth
BY DEF SnapshotTags, Alert, Snap

\* What is queued is a copy: an alert whose map the pipeline does not write.
LEMMA SnapFields ==
  ASSUME NEW x \in Snap
  PROVE  x.id \in Nat /\ x.synth \in BOOLEAN /\ ~x.shared /\ x \in Alert
<1>1. x.id \in Nat /\ x.synth \in BOOLEAN /\ x \in Alert
  BY DEF Snap, Alert
<1>2. x.shared \in {FALSE}
  BY DEF Snap
<1>3. ~x.shared
  BY <1>2, Zenon
<1>4. QED
  BY <1>1, <1>3

-----------------------------------------------------------------------------
\* The chain as the daemon sees it.
LEMMA TakeIs ==
  ASSUME TypeInv, Log!Take
  PROVE  /\ accepted' = accepted + 1 /\ accepted' \in Nat
         /\ pending' \in Seq(Nat) /\ durable' = durable
         /\ Stored' = Stored /\ Buffered' = Buffered \cup {accepted + 1}
<1>1. accepted' = accepted + 1 /\ pending' = Append(pending, accepted + 1) /\ durable' = durable
  BY DEF Log!Take
<1>2. accepted + 1 \in Nat /\ pending \in Seq(Nat)
  BY DEF TypeInv
<1>3. pending' \in Seq(Nat)
  BY <1>1, <1>2
<1>4. Stored' = Stored
  BY <1>1 DEF Stored
<1>5. Buffered' = Buffered \cup {accepted + 1}
  <2>1. /\ DOMAIN pending' = 1..(Len(pending) + 1) /\ DOMAIN pending = 1..Len(pending)
        /\ \A k \in 1..Len(pending) : pending'[k] = pending[k]
        /\ pending'[Len(pending) + 1] = accepted + 1
    BY <1>1, <1>2
  <2>2. Len(pending) \in Nat
    BY <1>2
  <2>3. ASSUME NEW k \in 1..(Len(pending) + 1)
        PROVE  pending'[k] \in Buffered \cup {accepted + 1}
    <3>1. CASE k = Len(pending) + 1
      BY <3>1, <2>1
    <3>2. CASE k # Len(pending) + 1
      BY <3>2, <2>1, <2>2 DEF Buffered
    <3>3. QED
      BY <3>1, <3>2
  <2>4. Buffered' \subseteq Buffered \cup {accepted + 1}
    BY <2>1, <2>3 DEF Buffered
  <2>5. Buffered \subseteq Buffered' /\ accepted + 1 \in Buffered'
    BY <2>1, <2>2 DEF Buffered
  <2>6. QED
    BY <2>4, <2>5
<1>6. QED
  BY <1>1, <1>2, <1>3, <1>4, <1>5

\* A commit moves the buffer into a block of its own and loses no event.
LEMMA CommitIs ==
  ASSUME TypeInv, Log!Commit
  PROVE  /\ accepted' = accepted /\ pending' = <<>> /\ durable' \in Seq(Seq(Nat))
         /\ Stored' = Stored \cup Buffered
<1>1. accepted' = accepted /\ durable' = Append(durable, pending) /\ pending' = <<>>
  BY DEF Log!Commit
<1>2. pending \in Seq(Nat) /\ durable \in Seq(Seq(Nat)) /\ Len(durable) \in Nat
  BY DEF TypeInv
<1>3. durable' \in Seq(Seq(Nat))
  BY <1>1, <1>2
<1>4. /\ DOMAIN durable' = 1..(Len(durable) + 1) /\ DOMAIN durable = 1..Len(durable)
      /\ \A b \in 1..Len(durable) : durable'[b] = durable[b]
      /\ durable'[Len(durable) + 1] = pending
  BY <1>1, <1>2
<1> DEFINE Block(d, b) == {d[b][k] : k \in DOMAIN d[b]}
<1>5. /\ \A b \in 1..Len(durable) : Block(durable', b) = Block(durable, b)
      /\ Block(durable', Len(durable) + 1) = Buffered
  BY <1>4 DEF Buffered
<1>6. /\ Stored = UNION {Block(durable, b) : b \in DOMAIN durable}
      /\ Stored' = UNION {Block(durable', b) : b \in DOMAIN durable'}
  BY DEF Stored
<1> HIDE DEF Block
<1>7. Stored' \subseteq Stored \cup Buffered
  <2> SUFFICES ASSUME NEW b \in 1..(Len(durable) + 1)
               PROVE  Block(durable', b) \subseteq Stored \cup Buffered
    BY <1>4, <1>6
  <2>1. CASE b = Len(durable) + 1
    BY <2>1, <1>5
  <2>2. CASE b # Len(durable) + 1
    <3>1. b \in 1..Len(durable)
      BY <2>2, <1>2
    <3>2. QED
      BY <3>1, <1>4, <1>5, <1>6
  <2>3. QED
    BY <2>1, <2>2
<1>8. Stored \subseteq Stored' /\ Buffered \subseteq Stored'
  <2>1. 1..Len(durable) \subseteq 1..(Len(durable) + 1) /\ Len(durable) + 1 \in 1..(Len(durable) + 1)
    BY <1>2
  <2>2. QED
    BY <2>1, <1>4, <1>5, <1>6
<1>9. QED
  BY <1>1, <1>3, <1>7, <1>8

-----------------------------------------------------------------------------
\* Steps that leave the bus alone and take no alert back.
LEMMA BusFrame ==
  ASSUME DaemonInv, UNCHANGED <<busVars, alerts>>, accepted' \in Nat,
         accepted' >= accepted,
         pipe' = "alert" => accepted' > accepted \/ (pipe = "alert" /\ accepted' = accepted)
  PROVE  BusInv' /\ RouteInv'
<1>1. UNCHANGED <<busQueue, sending, delivered, undelivered, busDropped, alerts>>
  BY DEF busVars
<1>2. Queued' = Queued /\ Known' = Known
  BY <1>1 DEF Queued, Known
<1>3. RouteInv'
  BY <1>1, <1>2 DEF DaemonInv, RouteInv
<1>4. \A x \in Known : x.id \in Nat
  <2>1. Queued \subseteq Snap
    BY DEF DaemonInv, TypeInv, Queued
  <2>2. Known \subseteq Snap
    BY <2>1 DEF DaemonInv, TypeInv, Known
  <2>3. QED
    BY <2>2, SnapFields
<1>5. accepted \in Nat
  BY DEF DaemonInv, TypeInv
<1>6. \A x \in Known : x.id <= accepted' /\ (pipe' = "alert" => x.id < accepted')
  BY <1>4, <1>5 DEF DaemonInv, BusInv
<1>7. BusInv'
  BY <1>1, <1>2, <1>6 DEF DaemonInv, BusInv
<1>8. QED
  BY <1>3, <1>7

\* Steps that leave the chain and run() alone.
LEMMA EvidenceFrame ==
  ASSUME DaemonInv, UNCHANGED <<logVars, encoder, early, closeFailed, mainPc, sinksClosed>>,
         undelivered' # {} => undelivered # {} \/ sinksClosed, ctxDone => ctxDone'
  PROVE  EvidenceInv'
<1>1. Stored' = Stored /\ Buffered' = Buffered /\ accepted' = accepted
  BY DEF Stored, Buffered, logVars
<1>2. QED
  BY <1>1 DEF DaemonInv, EvidenceInv, Alive

\* A daemon that has just started satisfies the invariant.
LEMMA InitDaemon == Init => DaemonInv
<1> SUFFICES ASSUME Init PROVE DaemonInv
  OBVIOUS
<1>1. /\ busQueue = <<>> /\ sending = <<>> /\ pumping = TRUE /\ sinksClosed = FALSE
      /\ busDropped = {} /\ delivered = {} /\ undelivered = {}
      /\ accepted = 0 /\ pending = <<>> /\ durable = <<>>
      /\ pipe = "idle" /\ tickerUp = TRUE /\ encoder = "none" /\ web = {} /\ webHeld = {}
      /\ ctxDone = FALSE /\ mainPc = "serving" /\ alerts = {} /\ early = {} /\ closeFailed = FALSE
  BY DEF Init, BusInit, Log!Init
<1>2. TypeInv
  <2>1. busQueue \in Seq(Snap) /\ Len(busQueue) <= BusCap /\ sending \in Seq(Snap) /\ Len(sending) <= 1
    BY <1>1, BusAssumption
  <2>2. pipe \in Stages /\ mainPc \in MainPcs /\ encoder \in {"none", "dispatch", "ticker", "main"}
    BY <1>1 DEF Stages, MainPcs
  <2>3. {pumping, sinksClosed, tickerUp, ctxDone, closeFailed} \subseteq BOOLEAN
    BY <1>1
  <2>4. pending \in Seq(Nat) /\ durable \in Seq(Seq(Nat)) /\ accepted \in Nat
    BY <1>1
  <2>5. pipe \notin {"alert", "verdict"}
    BY <1>1
  <2>6. delivered = {} /\ undelivered = {} /\ busDropped = {} /\ web = {} /\ webHeld = {}
    BY <1>1
  <2>7. QED
    BY <2>1, <2>2, <2>3, <2>4, <2>5, <2>6 DEF TypeInv
<1>3. 1..accepted = {}
  BY <1>1
<1>4. EvidenceInv
  BY <1>1, <1>3 DEF EvidenceInv
<1>5. Queued = {} /\ Known = {}
  BY <1>1 DEF Queued, Known
<1>6. BusInv
  <2>1. Len(busQueue) = 0 /\ Len(sending) = 0 /\ DOMAIN busQueue = {} /\ DOMAIN sending = {}
    BY <1>1
  <2>2. IsFiniteSet({}) /\ Cardinality({}) = 0
    BY FS_EmptySet
  <2>3. QED
    BY <1>1, <1>5, <2>1, <2>2 DEF BusInv
<1>7. RouteInv
  BY <1>1, <1>5 DEF RouteInv
<1>8. QED
  BY <1>2, <1>4, <1>6, <1>7 DEF DaemonInv

\* The dispatch goroutine between the chain and the bus.
LEMMA DispatchDaemon ==
  ASSUME DaemonInv, Receive \/ StopPipeline \/ NoAlert
  PROVE  DaemonInv'
<1>1. UNCHANGED <<busVars, logVars, tickerUp, encoder, web, webHeld, ctxDone, mainPc, histVars>>
  BY DEF Receive, StopPipeline, NoAlert
<1>2. /\ pipe' \in {"persist", "stopped", "verdict"}
      /\ pipe' = "verdict" => pipe = "alert"
  BY DEF Receive, StopPipeline, NoAlert
<1>3. TypeInv'
  BY <1>1, <1>2 DEF DaemonInv, TypeInv, busVars, logVars, histVars, Stages
<1>4. BusInv' /\ RouteInv'
  <2>1. accepted' = accepted /\ accepted \in Nat
    BY <1>1 DEF logVars, DaemonInv, TypeInv
  <2>2. UNCHANGED <<busVars, alerts>>
    BY <1>1 DEF histVars
  <2>3. QED
    BY <1>2, <2>1, <2>2, BusFrame
<1>5. EvidenceInv'
  BY <1>1, EvidenceFrame DEF histVars, busVars
<1>6. QED
  BY <1>3, <1>4, <1>5 DEF DaemonInv

\* Add puts the event in hand into the buffer, with a new number.
LEMMA AddToChainDaemon ==
  ASSUME DaemonInv, AddToChain
  PROVE  DaemonInv'
<1>1. /\ Log!Take /\ pipe' = "alert" /\ encoder = "none" /\ encoder' \in {"none", "dispatch"}
      /\ UNCHANGED <<busVars, tickerUp, web, webHeld, ctxDone, mainPc, histVars>>
  BY DEF AddToChain
<1>2. /\ accepted' = accepted + 1 /\ accepted' \in Nat
      /\ pending' \in Seq(Nat) /\ durable' = durable
      /\ Stored' = Stored /\ Buffered' = Buffered \cup {accepted + 1}
  BY <1>1, TakeIs DEF DaemonInv
<1>3. accepted \in Nat /\ accepted' >= 1 /\ accepted' > accepted
  BY <1>2 DEF DaemonInv, TypeInv
<1>4. TypeInv'
  BY <1>1, <1>2, <1>3 DEF DaemonInv, TypeInv, busVars, histVars, Stages
<1>5. BusInv' /\ RouteInv'
  BY <1>1, <1>2, <1>3, BusFrame DEF histVars
<1>6. 1..accepted' = (1..accepted) \cup {accepted + 1}
  BY <1>2, <1>3
<1>7. EvidenceInv'
  BY <1>1, <1>2, <1>3, <1>6 DEF DaemonInv, EvidenceInv, Alive, busVars, histVars
<1>8. QED
  BY <1>4, <1>5, <1>7 DEF DaemonInv

\* When Handle returns, its event counts as early unless the signal has come.
LEMMA JudgeDaemon ==
  ASSUME DaemonInv, Judge
  PROVE  DaemonInv'
<1>1. /\ Alive /\ pipe = "verdict" /\ pipe' = "idle"
      /\ early' = IF ctxDone THEN early ELSE early \cup {InHand}
      /\ UNCHANGED <<busVars, logVars, tickerUp, encoder, web, webHeld, ctxDone, mainPc, alerts, closeFailed>>
  BY DEF Judge
<1>2. InHand = accepted /\ accepted \in 1..accepted /\ accepted \in Nat
  BY <1>1 DEF InHand, DaemonInv, TypeInv
<1>3. TypeInv'
  BY <1>1 DEF DaemonInv, TypeInv, busVars, logVars, Stages
<1>4. BusInv' /\ RouteInv'
  BY <1>1, <1>2, BusFrame DEF logVars
<1>5. Stored' = Stored /\ Buffered' = Buffered /\ accepted' = accepted
  BY <1>1 DEF Stored, Buffered, logVars
<1>6. EvidenceInv'
  <2>1. CASE ctxDone
    BY <2>1, <1>1, <1>5 DEF DaemonInv, EvidenceInv, Alive, busVars
  <2>2. CASE ~ctxDone
    <3>1. mainPc = "serving"
      BY <1>1, <2>2 DEF DaemonInv, EvidenceInv, Alive
    <3>2. QED
      BY <2>2, <3>1, <1>1, <1>2, <1>5 DEF DaemonInv, EvidenceInv, Alive, busVars
  <2>3. QED
    BY <2>1, <2>2
<1>7. QED
  BY <1>3, <1>4, <1>6 DEF DaemonInv

\* The chain's ticker, the web server and the signal.
LEMMA BackgroundDaemon ==
  ASSUME DaemonInv, ChainTick \/ WebRequest \/ WebReply \/ Signal
  PROVE  DaemonInv'
<1>0. UNCHANGED <<busVars, logVars, pipe, web, mainPc, histVars>>
  BY DEF ChainTick, WebRequest, WebReply, Signal
<1>1. ctxDone => ctxDone'
  BY DEF ChainTick, WebRequest, WebReply, Signal
<1>2. /\ tickerUp' \in BOOLEAN /\ ctxDone' \in BOOLEAN /\ webHeld' \subseteq web
      /\ encoder' \in {"none", "dispatch", "ticker", "main"} /\ (encoder' = "main" => encoder = "main")
  BY DEF DaemonInv, TypeInv, ChainTick, WebRequest, WebReply, Signal
<1>3. TypeInv'
  BY <1>0, <1>1, <1>2 DEF DaemonInv, TypeInv, busVars, logVars, histVars
<1>4. BusInv' /\ RouteInv'
  <2>1. accepted' = accepted /\ accepted \in Nat
    BY <1>0 DEF logVars, DaemonInv, TypeInv
  <2>2. QED
    BY <1>0, <2>1, BusFrame DEF histVars
<1>5. EvidenceInv'
  <2>1. Stored' = Stored /\ Buffered' = Buffered /\ accepted' = accepted
    BY <1>0 DEF Stored, Buffered, logVars
  <2>2. QED
    BY <1>0, <1>1, <1>2, <2>1 DEF DaemonInv, EvidenceInv, Alive, busVars, histVars
<1>6. QED
  BY <1>3, <1>4, <1>5 DEF DaemonInv

\* The second half of Add, Tick and Close: a write that fails leaves every
\* event in the buffer, and only run()'s own write ends its Close.
LEMMA WriteBatchDaemon ==
  ASSUME DaemonInv, WriteBatch
  PROVE  DaemonInv'
<1>1. /\ Alive /\ encoder' = "none" /\ mainPc' = IF encoder = "main" THEN "bus" ELSE mainPc
      /\ UNCHANGED <<busVars, pipe, tickerUp, web, webHeld, ctxDone, alerts, early>>
  BY DEF WriteBatch
<1>2. \/ Log!Commit /\ UNCHANGED closeFailed
      \/ closeFailed' = (closeFailed \/ encoder = "main") /\ UNCHANGED logVars
  BY DEF WriteBatch
<1>3. /\ accepted' = accepted /\ pending' \in Seq(Nat) /\ durable' \in Seq(Seq(Nat))
      /\ closeFailed' \in BOOLEAN /\ (~closeFailed' => ~closeFailed)
      /\ Stored \subseteq Stored' /\ Stored' \cup Buffered' = Stored \cup Buffered
      /\ encoder = "main" /\ ~closeFailed' => Stored' = Stored \cup Buffered
  <2>1. CASE Log!Commit /\ UNCHANGED closeFailed
    <3>1. /\ accepted' = accepted /\ pending' = <<>> /\ durable' \in Seq(Seq(Nat))
          /\ Stored' = Stored \cup Buffered
      BY <2>1, CommitIs DEF DaemonInv
    <3>2. Buffered' = {} /\ pending' \in Seq(Nat)
      BY <3>1 DEF Buffered
    <3>3. closeFailed' \in BOOLEAN /\ (~closeFailed' => ~closeFailed)
      BY <2>1 DEF DaemonInv, TypeInv
    <3>4. QED
      BY <3>1, <3>2, <3>3
  <2>2. CASE closeFailed' = (closeFailed \/ encoder = "main") /\ UNCHANGED logVars
    <3>1. Stored' = Stored /\ Buffered' = Buffered /\ UNCHANGED <<accepted, pending, durable>>
      BY <2>2 DEF Stored, Buffered, logVars
    <3>2. pending \in Seq(Nat) /\ durable \in Seq(Seq(Nat))
      BY DEF DaemonInv, TypeInv
    <3>3. /\ closeFailed' \in BOOLEAN /\ (~closeFailed' => ~closeFailed)
          /\ (encoder = "main" => closeFailed')
      BY <2>2 DEF DaemonInv, TypeInv
    <3>4. QED
      BY <3>1, <3>2, <3>3
  <2>3. QED
    BY <1>2, <2>1, <2>2
<1>4. encoder = "main" => mainPc = "chain"
  BY <1>1 DEF DaemonInv, EvidenceInv, Alive
<1>5. mainPc' \in MainPcs
  BY <1>1 DEF DaemonInv, TypeInv, MainPcs
<1>6. TypeInv'
  BY <1>1, <1>3, <1>5 DEF DaemonInv, TypeInv, busVars
<1>7. BusInv' /\ RouteInv'
  <2>1. accepted \in Nat
    BY DEF DaemonInv, TypeInv
  <2>2. QED
    BY <1>1, <1>3, <2>1, BusFrame
<1>8. EvidenceInv'
  <2>1. 1..accepted \subseteq Stored \cup Buffered /\ early \subseteq 1..accepted
    BY <1>1 DEF DaemonInv, EvidenceInv
  <2>2. ASSUME mainPc' \in {"bus", "exit", "exited"}, ~closeFailed'
        PROVE  early \subseteq Stored'
    <3>1. CASE encoder = "main"
      BY <1>3, <2>1, <2>2, <3>1
    <3>2. CASE encoder # "main"
      BY <1>1, <1>3, <2>2, <3>2 DEF DaemonInv, EvidenceInv
    <3>3. QED
      BY <3>1, <3>2
  <2>3. mainPc' \notin {"serving", "aborted"} => ctxDone'
    BY <1>1, <1>4 DEF DaemonInv, EvidenceInv
  <2>4. QED
    BY <1>1, <1>3, <2>1, <2>2, <2>3 DEF DaemonInv, EvidenceInv, busVars
<1>9. QED
  BY <1>6, <1>7, <1>8 DEF DaemonInv

\* run()'s shutdown, and the end of the process by the Go runtime.
LEMMA MainDaemon ==
  ASSUME DaemonInv, Main \/ Abort
  PROVE  DaemonInv'
<1>1. UNCHANGED <<busQueue, sending, pumping, busDropped, delivered, undelivered>>
  BY DEF Main, BeginShutdown, CloseChain, CloseBus, Exit, CloseSinks, Abort, busVars
<1>2. UNCHANGED <<pipe, tickerUp, web, webHeld, ctxDone, alerts, early, closeFailed, accepted, durable>>
  BY DEF Main, BeginShutdown, CloseChain, CloseBus, Exit, Abort, OthersHold, histVars, logVars,
         Log!Lose
<1>3. \/ /\ mainPc = "serving" /\ mainPc' = "chain" /\ ctxDone
         /\ UNCHANGED <<sinksClosed, pending, encoder>>
      \/ /\ mainPc = "chain" /\ UNCHANGED <<sinksClosed, pending>> /\ encoder = "none"
         /\ \/ pending = <<>> /\ mainPc' = "bus" /\ UNCHANGED encoder
            \/ pending # <<>> /\ mainPc' = mainPc /\ encoder' = "main"
      \/ /\ mainPc = "bus" /\ mainPc' = "exit" /\ sinksClosed' = TRUE
         /\ UNCHANGED <<pending, encoder>>
      \/ /\ mainPc = "exit" /\ mainPc' = "exited" /\ pending' = <<>>
         /\ UNCHANGED <<sinksClosed, encoder>>
      \/ mainPc' = "aborted" /\ pending' = <<>> /\ UNCHANGED <<sinksClosed, encoder>>
  <2>1. CASE BeginShutdown
    BY <2>1, NextStepIs DEF BeginShutdown, Advance, busVars, logVars
  <2>2. CASE CloseChain
    BY <2>2, NextStepIs DEF CloseChain, Advance, busVars, logVars
  <2>3. CASE CloseBus
    BY <2>3, NextStepIs DEF CloseBus, CloseSinks, Advance, logVars
  <2>4. CASE Exit
    BY <2>4, NextStepIs DEF Exit, Log!Lose, Advance, busVars
  <2>5. CASE Abort
    BY <2>5 DEF Abort, Log!Lose, busVars
  <2>6. QED
    BY <2>1, <2>2, <2>3, <2>4, <2>5 DEF Main
<1>4. Stored' = Stored /\ (pending' = pending => Buffered' = Buffered)
  BY <1>2 DEF Stored, Buffered
<1>5. BusInv' /\ RouteInv'
  <2>1. Queued' = Queued /\ Known' = Known
    BY <1>1 DEF Queued, Known
  <2>2. QED
    BY <1>1, <1>2, <2>1 DEF DaemonInv, BusInv, RouteInv
<1>6. TypeInv'
  <2>1. /\ mainPc' \in MainPcs /\ encoder' \in {"none", "dispatch", "ticker", "main"}
        /\ sinksClosed' \in BOOLEAN
    BY <1>3 DEF DaemonInv, TypeInv, MainPcs
  <2>2. pending' \in Seq(Nat)
    <3>1. pending' = pending \/ pending' = <<>>
      BY <1>3
    <3>2. pending \in Seq(Nat) /\ <<>> \in Seq(Nat)
      BY DEF DaemonInv, TypeInv
    <3>3. QED
      BY <3>1, <3>2
  <2>3. QED
    BY <1>1, <1>2, <2>1, <2>2 DEF DaemonInv, TypeInv
<1>7. EvidenceInv'
  <2>1. CASE mainPc = "serving" /\ mainPc' = "chain" /\ ctxDone /\ UNCHANGED <<sinksClosed, pending, encoder>>
    BY <1>1, <1>2, <1>4, <2>1 DEF DaemonInv, EvidenceInv, Alive
  <2>2. CASE /\ mainPc = "chain" /\ UNCHANGED <<sinksClosed, pending>>
             /\ pending = <<>> /\ mainPc' = "bus" /\ UNCHANGED encoder /\ encoder = "none"
    <3>1. Buffered = {}
      BY <2>2 DEF Buffered
    <3>2. QED
      BY <1>1, <1>2, <1>4, <2>2, <3>1 DEF DaemonInv, EvidenceInv, Alive
  <2>3. CASE mainPc = "chain" /\ UNCHANGED <<sinksClosed, pending>> /\ mainPc' = mainPc /\ encoder' = "main"
    BY <1>1, <1>2, <1>4, <2>3 DEF DaemonInv, EvidenceInv, Alive
  <2>4. CASE mainPc = "bus" /\ mainPc' = "exit" /\ sinksClosed' = TRUE /\ UNCHANGED <<pending, encoder>>
    BY <1>1, <1>2, <1>4, <2>4 DEF DaemonInv, EvidenceInv, Alive
  <2>5. CASE mainPc = "exit" /\ mainPc' = "exited" /\ UNCHANGED <<sinksClosed, encoder>>
    BY <1>1, <1>2, <1>4, <2>5 DEF DaemonInv, EvidenceInv, Alive
  <2>6. CASE mainPc' = "aborted" /\ UNCHANGED <<sinksClosed, encoder>>
    BY <1>1, <1>2, <1>4, <2>6 DEF DaemonInv, EvidenceInv, Alive
  <2>7. QED
    BY <1>3, <2>1, <2>2, <2>3, <2>4, <2>5, <2>6
<1>8. QED
  BY <1>5, <1>6, <1>7 DEF DaemonInv

-----------------------------------------------------------------------------
\* Everything the bus has seen is a snapshot.
LEMMA KnownAreSnaps ==
  ASSUME TypeInv
  PROVE  /\ Queued \subseteq Snap /\ Known \subseteq Snap
         /\ \A x \in Known : x.id \in Nat
<1>1. Queued \subseteq Snap
  BY DEF TypeInv, Queued
<1>2. Known \subseteq Snap
  BY <1>1 DEF TypeInv, Known
<1>3. QED
  BY <1>1, <1>2, SnapFields

\* Run takes the oldest queued alert.
LEMMA PumpTakeDaemon ==
  ASSUME DaemonInv, PumpTake, UNCHANGED <<logVars, procVars, histVars>>
  PROVE  DaemonInv'
<1>1. /\ sending = <<>> /\ busQueue # <<>>
      /\ sending' = <<Head(busQueue)>> /\ busQueue' = Tail(busQueue)
      /\ UNCHANGED <<pumping, sinksClosed, busDropped, delivered, undelivered>>
      /\ UNCHANGED <<pipe, tickerUp, encoder, web, webHeld, ctxDone, mainPc, accepted, pending, durable,
                     alerts, early, closeFailed>>
  BY DEF PumpTake, logVars, procVars, histVars
<1>2. busQueue \in Seq(Snap) /\ Len(busQueue) \in Nat /\ Len(busQueue) >= 1 /\ Len(busQueue) <= BusCap
  BY <1>1 DEF DaemonInv, TypeInv
<1>3. /\ busQueue' \in Seq(Snap) /\ Len(busQueue') = Len(busQueue) - 1
      /\ DOMAIN busQueue' = 1..(Len(busQueue) - 1) /\ DOMAIN busQueue = 1..Len(busQueue)
      /\ \A i \in 1..(Len(busQueue) - 1) : busQueue'[i] = busQueue[i + 1]
  BY <1>1, <1>2
<1>4. /\ sending' \in Seq(Snap) /\ Len(sending') = 1 /\ DOMAIN sending' = {1}
      /\ sending'[1] = busQueue[1]
  <2>1. Head(busQueue) = busQueue[1] /\ busQueue[1] \in Snap
    BY <1>1, <1>2, <1>3
  <2>2. QED
    BY <1>1, <2>1
<1>5. Len(sending) = 0 /\ DOMAIN sending = {}
  BY <1>1
<1>6. Queued' = Queued
  <2>1. Queued = {busQueue[k] : k \in 1..Len(busQueue)}
    BY <1>3, <1>5 DEF Queued
  <2>2. Queued' = {busQueue'[k] : k \in 1..(Len(busQueue) - 1)} \cup {busQueue[1]}
    BY <1>3, <1>4 DEF Queued
  <2>3. \A k \in 1..(Len(busQueue) - 1) : busQueue'[k] \in Queued
    <3>1. \A k \in 1..(Len(busQueue) - 1) : k + 1 \in 1..Len(busQueue)
      BY <1>2
    <3>2. QED
      BY <1>3, <2>1, <3>1
  <2>4. \A k \in 1..Len(busQueue) : busQueue[k] \in Queued'
    <3>1. ASSUME NEW k \in 1..Len(busQueue), k # 1
          PROVE  busQueue[k] \in Queued'
      <4>1. k - 1 \in 1..(Len(busQueue) - 1) /\ (k - 1) + 1 = k
        BY <3>1, <1>2
      <4>2. busQueue'[k - 1] = busQueue[k]
        BY <4>1, <1>3
      <4>3. QED
        BY <4>1, <4>2, <2>2
    <3>2. QED
      BY <3>1, <2>2
  <2>5. 1 \in 1..Len(busQueue)
    BY <1>2
  <2>6. Queued' \subseteq Queued
    BY <2>1, <2>2, <2>3, <2>5
  <2>7. Queued \subseteq Queued'
    BY <2>1, <2>4
  <2>8. QED
    BY <2>6, <2>7
<1>7. Known' = Known
  BY <1>1, <1>6 DEF Known
<1>8. TypeInv'
  <2>1. Len(busQueue') <= BusCap /\ Len(sending') <= 1
    BY <1>2, <1>3, <1>4, BusAssumption
  <2>2. QED
    BY <1>1, <1>3, <1>4, <2>1 DEF DaemonInv, TypeInv
<1>9. EvidenceInv'
  BY <1>1, EvidenceFrame DEF logVars, histVars
<1>10. RouteInv'
  <2>1. alerts' = alerts
    BY <1>1
  <2>2. QED
    BY <1>7, <2>1 DEF DaemonInv, RouteInv
<1>11. BusInv'
  <2>1. \A i, j \in DOMAIN busQueue : i < j => busQueue[i].id < busQueue[j].id
    BY DEF DaemonInv, BusInv
  <2>2. ASSUME NEW i \in DOMAIN busQueue', NEW j \in DOMAIN busQueue', i < j
        PROVE  busQueue'[i].id < busQueue'[j].id
    <3>1. i + 1 \in DOMAIN busQueue /\ j + 1 \in DOMAIN busQueue /\ i + 1 < j + 1
      BY <2>2, <1>2, <1>3
    <3>2. QED
      BY <2>1, <3>1, <1>3
  <2>3. ASSUME NEW j \in DOMAIN busQueue'
        PROVE  sending'[1].id < busQueue'[j].id
    <3>1. 1 \in DOMAIN busQueue /\ j + 1 \in DOMAIN busQueue /\ 1 < j + 1
      BY <1>2, <1>3
    <3>2. QED
      BY <2>1, <3>1, <1>3, <1>4
  <2>4. \A x \in (delivered \cup undelivered)', y \in Queued' : x.id < y.id
    BY <1>1, <1>6 DEF DaemonInv, BusInv
  <2>5. \A x \in Known' : x.id <= accepted' /\ (pipe' = "alert" => x.id < accepted')
    BY <1>1, <1>7 DEF DaemonInv, BusInv
  <2>6. /\ IsFiniteSet(delivered') /\ IsFiniteSet(undelivered') /\ IsFiniteSet(busDropped')
        /\ IsFiniteSet(Known')
    BY <1>1, <1>7 DEF DaemonInv, BusInv
  <2>7. Len(busQueue') + Len(sending') = Len(busQueue) + Len(sending)
    BY <1>2, <1>3, <1>4, <1>5
  <2>8. Cardinality(Known') = Len(busQueue') + Len(sending') + Cardinality(delivered')
                                + Cardinality(undelivered') + Cardinality(busDropped')
    BY <1>1, <1>7, <2>7 DEF DaemonInv, BusInv
  <2>9. QED
    BY <1>4, <2>2, <2>3, <2>4, <2>5, <2>6, <2>8 DEF BusInv
<1>12. QED
  BY <1>8, <1>9, <1>10, <1>11 DEF DaemonInv

\* The sum over the places of an alert when one of them grows and the pump's
\* hand is emptied.
LEMMA OneMoves ==
    ASSUME NEW q \in Nat, NEW d \in Nat, NEW u \in Nat, NEW b \in Nat,
           NEW m \in Nat, NEW n \in Nat, m + n = u + d + 1
    PROVE  q + 1 + d + u + b = q + 0 + n + m + b
OBVIOUS

\* The alert being sent reaches the sinks, open or closed.
LEMMA PumpDeliverDaemon ==
  ASSUME DaemonInv, PumpDeliver, UNCHANGED <<logVars, procVars, histVars>>
  PROVE  DaemonInv'
<1> DEFINE x == sending[1]
           more == IF sinksClosed THEN undelivered \cup {x} ELSE undelivered
           done == IF sinksClosed THEN delivered ELSE delivered \cup {x}
<1>1. /\ sending # <<>> /\ sending' = <<>> /\ undelivered' = more /\ delivered' = done
      /\ UNCHANGED <<busQueue, pumping, sinksClosed, busDropped>>
      /\ UNCHANGED <<pipe, tickerUp, encoder, web, webHeld, ctxDone, mainPc, accepted, pending, durable,
                     alerts, early, closeFailed>>
  BY DEF PumpDeliver, logVars, procVars, histVars
<1>2. /\ sending \in Seq(Snap) /\ Len(sending) = 1 /\ DOMAIN sending = {1} /\ x \in Snap
      /\ Len(sending') = 0 /\ DOMAIN sending' = {} /\ sending' \in Seq(Snap)
  <2>1. sending \in Seq(Snap) /\ Len(sending) <= 1 /\ Len(sending) \in Nat
    BY DEF DaemonInv, TypeInv
  <2>2. Len(sending) # 0
    BY <1>1, <2>1, EmptySeq
  <2>3. Len(sending) = 1
    <3>1. \A n \in Nat : n <= 1 /\ n # 0 => n = 1
      OBVIOUS
    <3>2. QED
      BY <2>1, <2>2, <3>1, Zenon
  <2>4. DOMAIN sending = 1..1 /\ 1..1 = {1}
    BY <2>1, <2>3
  <2>5. x \in Snap
    BY <2>1, <2>4
  <2>6. QED
    BY <1>1, <2>1, <2>3, <2>4, <2>5
<1>3. x \in Queued /\ x \in Known
  BY <1>2 DEF Queued, Known
<1>4. Queued \subseteq Snap /\ Known \subseteq Snap /\ \A y \in Known : y.id \in Nat
  BY KnownAreSnaps DEF DaemonInv
<1>5. Queued' \subseteq Queued /\ Queued = Queued' \cup {x}
  BY <1>1, <1>2 DEF Queued
<1>6. more \cup done = delivered \cup undelivered \cup {x}
  OBVIOUS
<1>7. Known' = Known
  BY <1>1, <1>5, <1>6 DEF Known
<1>8. x \notin delivered /\ x \notin undelivered
  <2>1. \A y \in delivered \cup undelivered : y.id < x.id
    BY <1>3 DEF DaemonInv, BusInv
  <2>2. QED
    BY <2>1, <1>3, <1>4
<1>9. TypeInv'
  BY <1>1, <1>2 DEF DaemonInv, TypeInv
<1>10. EvidenceInv'
  BY <1>1, EvidenceFrame DEF logVars, histVars
<1>11. RouteInv'
  BY <1>1, <1>7 DEF DaemonInv, RouteInv
<1>12. BusInv'
  <2>1. \A i, j \in DOMAIN busQueue' : i < j => busQueue'[i].id < busQueue'[j].id
    BY <1>1 DEF DaemonInv, BusInv
  <2>2. ASSUME NEW y \in delivered' \cup undelivered', NEW z \in Queued'
        PROVE  y.id < z.id
    <3>1. CASE y = x
      <4>1. PICK j \in DOMAIN busQueue : z = busQueue[j]
        BY <1>1, <1>2 DEF Queued
      <4>2. QED
        BY <3>1, <4>1, <1>2 DEF DaemonInv, BusInv
    <3>2. CASE y # x
      BY <3>2, <1>1, <1>5, <1>6 DEF DaemonInv, BusInv
    <3>3. QED
      BY <3>1, <3>2
  <2>3. \A y \in Known' : y.id <= accepted' /\ (pipe' = "alert" => y.id < accepted')
    BY <1>1, <1>7 DEF DaemonInv, BusInv
  <2>4. IsFiniteSet(delivered) /\ IsFiniteSet(undelivered) /\ IsFiniteSet(busDropped) /\ IsFiniteSet(Known)
    BY DEF DaemonInv, BusInv
  <2>5. /\ IsFiniteSet(more) /\ IsFiniteSet(done)
        /\ Cardinality(more) + Cardinality(done) = Cardinality(undelivered) + Cardinality(delivered) + 1
    <3>1. Cardinality(delivered) \in Nat /\ Cardinality(undelivered) \in Nat
      BY <2>4, FS_CardinalityType
    <3>2. /\ IsFiniteSet(delivered \cup {x}) /\ Cardinality(delivered \cup {x}) = Cardinality(delivered) + 1
          /\ IsFiniteSet(undelivered \cup {x}) /\ Cardinality(undelivered \cup {x}) = Cardinality(undelivered) + 1
      BY <2>4, <1>8, FS_AddElement
    <3>3. QED
      BY <2>4, <3>1, <3>2
  <2>6. /\ Cardinality(delivered) \in Nat /\ Cardinality(undelivered) \in Nat
        /\ Cardinality(busDropped) \in Nat /\ Len(busQueue) \in Nat
        /\ Cardinality(more) \in Nat /\ Cardinality(done) \in Nat
    BY <2>4, <2>5, FS_CardinalityType DEF DaemonInv, TypeInv
  <2> HIDE DEF more, done, x
  <2>7. Cardinality(Known) = Len(busQueue) + Len(sending) + Cardinality(delivered)
                                + Cardinality(undelivered) + Cardinality(busDropped)
    BY DEF DaemonInv, BusInv
  <2>8. Cardinality(Known') = Len(busQueue') + Len(sending') + Cardinality(delivered')
                                + Cardinality(undelivered') + Cardinality(busDropped')
    <3>1. /\ Cardinality(delivered') = Cardinality(done) /\ Cardinality(undelivered') = Cardinality(more)
          /\ Cardinality(busDropped') = Cardinality(busDropped) /\ Len(busQueue') = Len(busQueue)
          /\ Cardinality(Known') = Cardinality(Known)
      BY <1>1, <1>7
    <3>2. Len(sending) = 1 /\ Len(sending') = 0
      BY <1>2
    <3>3. Len(busQueue) + 1 + Cardinality(delivered) + Cardinality(undelivered) + Cardinality(busDropped)
            = Len(busQueue) + 0 + Cardinality(done) + Cardinality(more) + Cardinality(busDropped)
      BY <2>5, <2>6, OneMoves
    <3>4. QED
      BY <3>1, <3>2, <3>3, <2>7
  <2>9. QED
    BY <1>1, <1>2, <1>7, <2>1, <2>2, <2>3, <2>4, <2>5, <2>8 DEF BusInv
<1>13. QED
  BY <1>9, <1>10, <1>11, <1>12 DEF DaemonInv

\* The pump stops between two alerts and leaves the queue as it is.
LEMMA PumpStopDaemon ==
  ASSUME DaemonInv, PumpStop, UNCHANGED <<logVars, procVars, histVars>>
  PROVE  DaemonInv'
<1>1. /\ pumping' = FALSE
      /\ UNCHANGED <<busQueue, sending, sinksClosed, busDropped, delivered, undelivered>>
      /\ UNCHANGED <<pipe, tickerUp, encoder, web, webHeld, ctxDone, mainPc, accepted, pending, durable,
                     alerts, early, closeFailed>>
  BY DEF PumpStop, logVars, procVars, histVars
<1>2. TypeInv'
  BY <1>1 DEF DaemonInv, TypeInv
<1>3. EvidenceInv'
  BY <1>1, EvidenceFrame DEF logVars, histVars
<1>4. Queued' = Queued /\ Known' = Known
  BY <1>1 DEF Queued, Known
<1>5. BusInv' /\ RouteInv'
  BY <1>1, <1>4 DEF DaemonInv, BusInv, RouteInv
<1>6. QED
  BY <1>2, <1>3, <1>5 DEF DaemonInv

\* An alert that is newer than all before joins the queue or the count of
\* dropped ones.
LEMMA EnqueueAlertIs ==
  ASSUME DaemonInv, NEW a \in Alert, a.id = accepted, pipe = "alert", EnqueueAlert(a),
         UNCHANGED <<sending, delivered, undelivered>>
  PROVE  /\ busQueue' \in Seq(Snap) /\ Len(busQueue') <= BusCap /\ busDropped' \subseteq Snap
         /\ Known' = Known \cup {SnapshotTags(a)}
         /\ \A x \in Known' : x.id <= accepted
         /\ \A i, j \in DOMAIN busQueue' : i < j => busQueue'[i].id < busQueue'[j].id
         /\ \A i \in DOMAIN sending, j \in DOMAIN busQueue' : sending[i].id < busQueue'[j].id
         /\ \A x \in delivered \cup undelivered, y \in Queued' : x.id < y.id
         /\ IsFiniteSet(busDropped') /\ IsFiniteSet(Known')
         /\ Cardinality(Known') = Len(busQueue') + Len(sending) + Cardinality(delivered)
                                    + Cardinality(undelivered) + Cardinality(busDropped')
<1> DEFINE x == SnapshotTags(a)
<1>1. x \in Snap /\ x.id = accepted
  BY SnapshotIs
<1> HIDE DEF x
<1>2. Queued \subseteq Snap /\ Known \subseteq Snap /\ \A y \in Known : y.id \in Nat
  BY KnownAreSnaps DEF DaemonInv
<1>3. \A y \in Known : y.id < accepted
  BY DEF DaemonInv, BusInv
<1>4. x \notin Known /\ x \notin busDropped
  BY <1>1, <1>2, <1>3 DEF Known
<1>5. /\ busQueue \in Seq(Snap) /\ Len(busQueue) \in Nat /\ Len(busQueue) <= BusCap /\ BusCap \in Nat
      /\ Len(sending) \in Nat
  BY BusAssumption DEF DaemonInv, TypeInv
<1>6. /\ IsFiniteSet(delivered) /\ IsFiniteSet(undelivered) /\ IsFiniteSet(busDropped) /\ IsFiniteSet(Known)
      /\ Cardinality(Known) = Len(busQueue) + Len(sending) + Cardinality(delivered)
                                + Cardinality(undelivered) + Cardinality(busDropped)
  BY DEF DaemonInv, BusInv
<1>7. /\ Cardinality(delivered) \in Nat /\ Cardinality(undelivered) \in Nat
      /\ Cardinality(busDropped) \in Nat
  BY <1>6, FS_CardinalityType
<1>8. /\ IsFiniteSet(Known \cup {x}) /\ Cardinality(Known \cup {x}) = Cardinality(Known) + 1
      /\ IsFiniteSet(busDropped \cup {x}) /\ Cardinality(busDropped \cup {x}) = Cardinality(busDropped) + 1
  BY <1>4, <1>6, FS_AddElement
<1>9. accepted \in Nat
  BY DEF DaemonInv, TypeInv
<1>10. \A y \in Known \cup {x} : y.id <= accepted
  BY <1>1, <1>2, <1>3, <1>9
<1>11. CASE Fits
  <2>1. busQueue' = Append(busQueue, x) /\ busDropped' = busDropped
    BY <1>11 DEF EnqueueAlert, x
  <2>2. /\ busQueue' \in Seq(Snap) /\ Len(busQueue') = Len(busQueue) + 1
        /\ DOMAIN busQueue' = 1..(Len(busQueue) + 1) /\ DOMAIN busQueue = 1..Len(busQueue)
        /\ \A i \in 1..Len(busQueue) : busQueue'[i] = busQueue[i]
        /\ busQueue'[Len(busQueue) + 1] = x
    BY <1>1, <1>5, <2>1
  <2>3. \A j \in DOMAIN busQueue' : j \in DOMAIN busQueue \/ j = Len(busQueue) + 1
    BY <1>5, <2>2
  <2>4. Queued' = Queued \cup {x}
    <3>1. \A j \in DOMAIN busQueue' : busQueue'[j] \in Queued \cup {x}
      BY <2>2, <2>3 DEF Queued
    <3>2. \A j \in DOMAIN busQueue : j \in DOMAIN busQueue' /\ busQueue'[j] = busQueue[j]
      BY <1>5, <2>2
    <3>3. Len(busQueue) + 1 \in DOMAIN busQueue'
      BY <1>5, <2>2
    <3>4. Queued' \subseteq Queued \cup {x}
      BY <3>1 DEF Queued
    <3>5. Queued \cup {x} \subseteq Queued'
      BY <2>2, <3>2, <3>3 DEF Queued
    <3>6. QED
      BY <3>4, <3>5
  <2>5. Known' = Known \cup {x}
    BY <2>1, <2>4 DEF Known
  <2>6. \A y \in Queued \cup delivered \cup undelivered : y.id < x.id
    BY <1>1, <1>3 DEF Known
  <2>7. ASSUME NEW i \in DOMAIN busQueue', NEW j \in DOMAIN busQueue', i < j
        PROVE  busQueue'[i].id < busQueue'[j].id
    <3>1. i \in DOMAIN busQueue
      BY <2>2, <2>7, <1>5
    <3>2. busQueue'[i] = busQueue[i] /\ busQueue[i] \in Queued
      BY <3>1, <2>2 DEF Queued
    <3>3. CASE j = Len(busQueue) + 1
      BY <3>2, <3>3, <2>2, <2>6
    <3>4. CASE j \in DOMAIN busQueue
      BY <3>1, <3>2, <3>4, <2>2, <2>7 DEF DaemonInv, BusInv
    <3>5. QED
      BY <2>3, <3>3, <3>4
  <2>8. ASSUME NEW i \in DOMAIN sending, NEW j \in DOMAIN busQueue'
        PROVE  sending[i].id < busQueue'[j].id
    <3>1. sending[i] \in Queued
      BY DEF Queued
    <3>2. CASE j = Len(busQueue) + 1
      BY <3>1, <3>2, <2>2, <2>6
    <3>3. CASE j \in DOMAIN busQueue
      BY <3>3, <2>2 DEF DaemonInv, BusInv
    <3>4. QED
      BY <2>3, <3>2, <3>3
  <2>9. ASSUME NEW y \in delivered \cup undelivered, NEW z \in Queued'
        PROVE  y.id < z.id
    <3>1. CASE z = x
      BY <3>1, <2>6
    <3>2. CASE z \in Queued
      BY <3>2 DEF DaemonInv, BusInv
    <3>3. QED
      BY <2>4, <3>1, <3>2
  <2>10. Len(busQueue') <= BusCap
    BY <1>5, <1>11, <2>2 DEF Fits
  <2>11. Cardinality(Known') = Len(busQueue') + Len(sending) + Cardinality(delivered)
                                 + Cardinality(undelivered) + Cardinality(busDropped')
    BY <1>5, <1>6, <1>7, <1>8, <2>1, <2>2, <2>5
  <2>12. busDropped' \subseteq Snap /\ IsFiniteSet(busDropped')
    BY <1>6, <2>1 DEF DaemonInv, TypeInv
  <2>13. QED
    BY <1>8, <1>10, <2>2, <2>5, <2>7, <2>8, <2>9, <2>10, <2>11, <2>12 DEF x
<1>12. CASE ~Fits
  <2>1. busDropped' = busDropped \cup {x} /\ busQueue' = busQueue
    BY <1>12 DEF EnqueueAlert, x
  <2>2. Queued' = Queued /\ Known' = Known \cup {x}
    BY <2>1 DEF Queued, Known
  <2>3. Cardinality(Known') = Len(busQueue') + Len(sending) + Cardinality(delivered)
                                + Cardinality(undelivered) + Cardinality(busDropped')
    BY <1>5, <1>6, <1>7, <1>8, <2>1, <2>2
  <2>4. busDropped' \subseteq Snap /\ IsFiniteSet(busDropped')
    BY <1>1, <1>8, <2>1 DEF DaemonInv, TypeInv
  <2>5. /\ \A i, j \in DOMAIN busQueue' : i < j => busQueue'[i].id < busQueue'[j].id
        /\ \A i \in DOMAIN sending, j \in DOMAIN busQueue' : sending[i].id < busQueue'[j].id
        /\ \A y \in delivered \cup undelivered, z \in Queued' : y.id < z.id
    BY <2>1, <2>2 DEF DaemonInv, BusInv
  <2>6. QED
    BY <1>5, <1>8, <1>10, <2>1, <2>2, <2>3, <2>4, <2>5 DEF x
<1>13. QED
  BY <1>11, <1>12

\* The alert of emit, and the verdict that may replace it.
LEMMA AlertForms ==
  ASSUME NEW i \in Nat
  PROVE  LET a == [id |-> i, synth |-> FALSE, shared |-> TRUE]
             v == [a EXCEPT !.synth = TRUE]
         IN  a \in Alert /\ a.id = i /\ ~a.synth /\ v \in Alert /\ v.id = i /\ v.synth
<1> DEFINE a == [id |-> i, synth |-> FALSE, shared |-> TRUE]
           v == [a EXCEPT !.synth = TRUE]
<1>1. a \in Alert /\ a.id = i
  BY DEF Alert
<1>2. a.synth = FALSE
  OBVIOUS
<1> HIDE DEF a
<1>3. [a EXCEPT !.synth = TRUE] \in Alert /\ [a EXCEPT !.synth = TRUE].id = a.id
  BY <1>1 DEF Alert
<1>4. [a EXCEPT !.synth = TRUE].synth = TRUE
  BY <1>1 DEF Alert
<1>5. QED
  BY <1>1, <1>2, <1>3, <1>4 DEF a

\* emit is the first to raise an alert about the event in hand.
LEMMA EmitDaemon ==
  ASSUME DaemonInv, Emit
  PROVE  DaemonInv'
<1> DEFINE a == [id |-> InHand, synth |-> FALSE, shared |-> TRUE]
           v == [a EXCEPT !.synth = TRUE]
<1>1. /\ pipe = "alert" /\ pipe' = "verdict"
      /\ UNCHANGED <<logVars, tickerUp, encoder, webHeld, ctxDone, mainPc, early, closeFailed>>
  BY DEF Emit
<1>2. PICK route \in Routes :
        Send(a, route) /\ web' = web \cup {a} /\ alerts' = alerts \cup {[id |-> InHand, route |-> route]}
  BY DEF Emit
<1>3. InHand = accepted /\ accepted \in Nat /\ accepted >= 1
  BY <1>1 DEF InHand, DaemonInv, TypeInv
<1>4. a \in Alert /\ a.id = accepted /\ ~a.synth /\ v \in Alert /\ v.id = accepted /\ v.synth
  BY <1>3, AlertForms
<1> HIDE DEF a, v
<1>5. UNCHANGED <<sending, pumping, sinksClosed, delivered, undelivered>>
  BY <1>2 DEF Send
<1>6. \/ route = "emit" /\ EnqueueAlert(a)
      \/ route = "hold" /\ UNCHANGED <<busQueue, busDropped>>
      \/ route = "verdict" /\ EnqueueAlert(v)
  BY <1>2 DEF Send, Routes, v
<1>7. web' \subseteq Alert /\ webHeld' \subseteq web'
  BY <1>1, <1>2, <1>4 DEF DaemonInv, TypeInv
<1>8. EvidenceInv'
  BY <1>1, <1>5, EvidenceFrame
<1>9. UNCHANGED <<accepted, pending, durable>>
  BY <1>1 DEF logVars
<1> DEFINE r == [id |-> InHand, route |-> route]
<1>10. r.id = accepted /\ r.route = route /\ alerts' = alerts \cup {r}
  BY <1>2, <1>3
<1> HIDE DEF r
<1>11. ASSUME NEW b \in Alert, b.id = accepted, EnqueueAlert(b),
              \/ route = "emit" /\ ~b.synth
              \/ route = "verdict" /\ b.synth
       PROVE  DaemonInv'
  <2>1. /\ busQueue' \in Seq(Snap) /\ Len(busQueue') <= BusCap /\ busDropped' \subseteq Snap
        /\ Known' = Known \cup {SnapshotTags(b)}
        /\ \A x \in Known' : x.id <= accepted
        /\ \A i, j \in DOMAIN busQueue' : i < j => busQueue'[i].id < busQueue'[j].id
        /\ \A i \in DOMAIN sending, j \in DOMAIN busQueue' : sending[i].id < busQueue'[j].id
        /\ \A x \in delivered \cup undelivered, y \in Queued' : x.id < y.id
        /\ IsFiniteSet(busDropped') /\ IsFiniteSet(Known')
        /\ Cardinality(Known') = Len(busQueue') + Len(sending) + Cardinality(delivered)
                                   + Cardinality(undelivered) + Cardinality(busDropped')
    BY <1>1, <1>5, <1>11, EnqueueAlertIs
  <2>2. TypeInv'
    BY <1>1, <1>3, <1>5, <1>7, <1>9, <2>1 DEF DaemonInv, TypeInv, Stages
  <2>3. BusInv'
    <3>1. IsFiniteSet(delivered') /\ IsFiniteSet(undelivered')
      BY <1>5 DEF DaemonInv, BusInv
    <3>2. \A x \in Known' : x.id <= accepted' /\ (pipe' = "alert" => x.id < accepted')
      BY <1>1, <1>9, <2>1
    <3>3. QED
      BY <1>5, <2>1, <3>1, <3>2 DEF BusInv
  <2>4. RouteInv'
    <3> DEFINE y == SnapshotTags(b)
    <3>1. y.id = accepted /\ y.synth = b.synth
      BY <1>11, SnapshotIs
    <3> HIDE DEF y
    <3>2. Known' = Known \cup {y}
      BY <2>1 DEF y
    <3> SUFFICES ASSUME NEW e
                 PROVE  /\ (\E x \in Known' : x.id = e /\ ~x.synth)
                              <=> (\E x \in alerts' : x.id = e /\ x.route = "emit")
                        /\ (\E x \in Known' : x.id = e /\ x.synth)
                              <=> (\E x \in alerts' : x.id = e /\ x.route = "verdict")
      BY DEF RouteInv
    <3>3. /\ (\E x \in Known : x.id = e /\ ~x.synth) <=> (\E x \in alerts : x.id = e /\ x.route = "emit")
          /\ (\E x \in Known : x.id = e /\ x.synth) <=> (\E x \in alerts : x.id = e /\ x.route = "verdict")
      BY DEF DaemonInv, RouteInv
    <3>4. CASE route = "emit" /\ ~b.synth
      BY <3>1, <3>2, <3>3, <3>4, <1>10
    <3>5. CASE route = "verdict" /\ b.synth
      BY <3>1, <3>2, <3>3, <3>5, <1>10
    <3>6. QED
      BY <1>11, <3>4, <3>5
  <2>5. QED
    BY <1>8, <2>2, <2>3, <2>4 DEF DaemonInv
<1>12. CASE route = "hold" /\ UNCHANGED <<busQueue, busDropped>>
  <2>1. Queued' = Queued /\ Known' = Known
    BY <1>5, <1>12 DEF Queued, Known
  <2>2. TypeInv'
    BY <1>1, <1>3, <1>5, <1>7, <1>9, <1>12 DEF DaemonInv, TypeInv, Stages
  <2>3. BusInv'
    BY <1>1, <1>5, <1>9, <1>12, <2>1 DEF DaemonInv, BusInv
  <2>4. RouteInv'
    <3>1. \A x \in alerts' : x \in alerts \/ (x = r /\ x.route = "hold")
      BY <1>10, <1>12
    <3>2. \A e : /\ (\E x \in alerts' : x.id = e /\ x.route = "emit") <=> (\E x \in alerts : x.id = e /\ x.route = "emit")
                 /\ (\E x \in alerts' : x.id = e /\ x.route = "verdict") <=> (\E x \in alerts : x.id = e /\ x.route = "verdict")
      BY <1>10, <3>1
    <3>3. QED
      BY <2>1, <3>2 DEF DaemonInv, RouteInv
  <2>5. QED
    BY <1>8, <2>2, <2>3, <2>4 DEF DaemonInv
<1>13. CASE route = "emit" /\ EnqueueAlert(a)
  BY <1>4, <1>11, <1>13
<1>14. CASE route = "verdict" /\ EnqueueAlert(v)
  BY <1>4, <1>11, <1>14
<1>15. QED
  BY <1>6, <1>12, <1>13, <1>14

\* Every step keeps the invariant.
LEMMA DaemonInductive == DaemonInv /\ [Next]_vars => DaemonInv'
<1> SUFFICES ASSUME DaemonInv, [Next]_vars
             PROVE  DaemonInv'
  OBVIOUS
<1>1. CASE UNCHANGED vars
  <2>1. UNCHANGED <<busVars, logVars, pipe, tickerUp, encoder, web, webHeld, ctxDone, mainPc,
                    alerts, early, closeFailed>>
    BY <1>1 DEF vars, procVars, histVars
  <2>2. TypeInv'
    BY <2>1 DEF DaemonInv, TypeInv, busVars, logVars
  <2>3. accepted' = accepted /\ accepted \in Nat
    BY <2>1 DEF logVars, DaemonInv, TypeInv
  <2>4. BusInv' /\ RouteInv'
    BY <2>1, <2>3, BusFrame
  <2>5. EvidenceInv'
    BY <2>1, EvidenceFrame DEF busVars
  <2>6. QED
    BY <2>2, <2>4, <2>5 DEF DaemonInv
<1>2. CASE Dispatch
  BY <1>2, DispatchDaemon, AddToChainDaemon, EmitDaemon, JudgeDaemon DEF Dispatch
<1>3. CASE Pump
  BY <1>3, PumpTakeDaemon, PumpDeliverDaemon, PumpStopDaemon DEF Pump
<1>4. CASE ChainTick \/ WebRequest \/ WebReply \/ Signal
  BY <1>4, BackgroundDaemon
<1>5. CASE WriteBatch
  BY <1>5, WriteBatchDaemon
<1>6. CASE Main \/ Abort
  BY <1>6, MainDaemon
<1>7. QED
  BY <1>1, <1>2, <1>3, <1>4, <1>5, <1>6 DEF Next

\* The invariant holds in every behaviour.
LEMMA DaemonInvariant == Spec => []DaemonInv
BY InitDaemon, DaemonInductive, PTL DEF Spec

-----------------------------------------------------------------------------
\* No sink ever marshals a map that Handle still stamps, whatever the capacity
\* of the bus and however long an alert waits: all it queues are snapshots.
THEOREM SinksOwnTheirMaps == Spec => []SinksNeverRace
<1>1. DaemonInv => SinksNeverRace
  <2> SUFFICES ASSUME DaemonInv, NEW k \in DOMAIN sending
               PROVE  ~sending[k].shared
    BY DEF SinksNeverRace, Live
  <2>1. sending[k] \in Snap
    BY DEF DaemonInv, TypeInv
  <2>2. QED
    BY <2>1, SnapFields
<1>2. QED
  BY <1>1, DaemonInvariant, PTL

\* Whatever the bus capacity and the router's answers, every alert let through
\* is queued, being sent, delivered, counted as dropped or lost to closed
\* sinks, and in one of these places only.
THEOREM AlertsNeverVanish == Spec => []AlertsAccounted
<1>1. DaemonInv => AlertsAccounted
  <2> SUFFICES ASSUME DaemonInv PROVE AlertsAccounted
    OBVIOUS
  <2> DEFINE ids(set) == {x.id : x \in set}
  <2>1. ids({x \in Known : ~x.synth}) = ids({x \in alerts : x.route = "emit"})
    BY DEF DaemonInv, RouteInv
  <2>2. ids({x \in Known : x.synth}) = ids({x \in alerts : x.route = "verdict"})
    BY DEF DaemonInv, RouteInv
  <2>3. /\ Cardinality(Known) = Len(busQueue) + Len(sending) + Cardinality(delivered)
                                  + Cardinality(undelivered) + Cardinality(busDropped)
        /\ undelivered # {} => ctxDone
    BY DEF DaemonInv, BusInv, EvidenceInv
  <2>4. Known = ({busQueue[k] : k \in DOMAIN busQueue} \cup {sending[k] : k \in DOMAIN sending})
                  \cup delivered \cup undelivered \cup busDropped
    BY DEF Known, Queued
  <2>5. QED
    BY <2>1, <2>2, <2>3, <2>4 DEF AlertsAccounted
<1>2. QED
  BY <1>1, DaemonInvariant, PTL

\* Whenever the signal comes, whatever the dispatch goroutine and the chain's
\* ticker are doing and whichever of their writes failed, every event handled
\* before it is on disk when run() has returned, unless run()'s own last write
\* failed.
THEOREM EvidenceSurvivesStop == Spec => []CleanStopKeepsEvidence
<1>1. DaemonInv => CleanStopKeepsEvidence
  BY DEF DaemonInv, EvidenceInv, CleanStopKeepsEvidence, Stored
<1>2. QED
  BY <1>1, DaemonInvariant, PTL

\* The state stays in its domain; the queue never outgrows its capacity.
THEOREM DaemonTypes == Spec => []TypeOK
<1>1. DaemonInv => TypeOK
  <2> SUFFICES ASSUME DaemonInv PROVE TypeOK
    OBVIOUS
  <2>1. \A s \in Seq(Snap) : s \in Seq(Alert)
    <3>1. \A x \in Snap : x \in Alert
      BY SnapFields
    <3>2. QED
      BY <3>1
  <2>2. mainPc = "aborted" \/ \E i \in DOMAIN MainSteps : mainPc = MainSteps[i]
    BY DEF DaemonInv, TypeInv, MainPcs, MainSteps
  <2>3. QED
    BY <2>1, <2>2 DEF DaemonInv, TypeInv, TypeOK
<1>2. QED
  BY <1>1, DaemonInvariant, PTL
=============================================================================
