---------------------------- MODULE AutoBaseline ----------------------------
(***************************************************************************)
(* The self-configuring baseline: for an observation window the manager    *)
(* records what each binary does, then the record is sealed and behaviour  *)
(* in it is tagged as known.  The record is flushed to SQLite on a ticker  *)
(* and the window is counted from the first start of the daemon.           *)
(* ForceSeal and Close are left out: the daemon calls neither.             *)
(***************************************************************************)
EXTENDS Naturals, FiniteSets

CONSTANTS
    Images,          \* binaries, as ImageKey names them
    Behaviors,       \* what EventToBehavior makes of an event
    NeverLearnable,  \* the dangerous ones
    Field,           \* image -> the first field of its name
    Window,          \* Options.Observation
    MaxErrors        \* bound: database errors

ASSUME BaselineAssumption ==
    /\ IsFiniteSet(Images) /\ IsFiniteSet(Behaviors) /\ NeverLearnable \subseteq Behaviors
    /\ Field \in [Images -> Images] /\ Window \in Nat \ {0} /\ MaxErrors \in Nat

VARIABLES
    mode,       \* Manager.mode; "off" when New failed
    memory,     \* the keys of memCache
    fresh,      \* those counted since the last flush
    dirty,      \* Manager.dirty
    profile,    \* the profile table
    sealed,     \* whether sealed_at is in the state table
    elapsed,    \* time since start_at, up to Window
    inHand,     \* the event for which Handle has read the mode
    learned,    \* what was recorded while the window was open
    errors      \* database errors so far

vars == <<mode, memory, fresh, dirty, profile, sealed, elapsed, inHand, learned, errors>>

Pairs == Images \X Behaviors
NoEvent == <<>>

\* The first start on a fresh host.
Init ==
    /\ mode = "observe" /\ memory = {} /\ fresh = {} /\ dirty = FALSE
    /\ profile = {} /\ sealed = FALSE /\ elapsed = 0
    /\ inHand = NoEvent /\ learned = {} /\ errors = 0

MayFail == errors < MaxErrors /\ errors' = errors + 1

(***************************************************************************)
(* The pipeline.                                                           *)
(***************************************************************************)
\* Handle asks for the mode and then calls Observe, two critical sections.
ReadMode(e) ==
    /\ mode = "observe" /\ inHand = NoEvent
    /\ inHand' = e
    /\ UNCHANGED <<mode, memory, fresh, dirty, profile, sealed, elapsed, learned, errors>>

Record(pair) ==
    /\ memory' = memory \cup {pair} /\ fresh' = fresh \cup {pair} /\ dirty' = TRUE
    /\ learned' = IF mode = "observe" THEN learned \cup {pair} ELSE learned

\* Mutant of Observe: it trusts the mode Handle has read.
ObserveUnchecked ==
    /\ inHand # NoEvent
    /\ inHand' = NoEvent
    /\ IF inHand[2] \notin NeverLearnable THEN Record(<<Field[inHand[1]], inHand[2]>>)
       ELSE UNCHANGED <<memory, fresh, dirty, learned>>
    /\ UNCHANGED <<mode, profile, sealed, elapsed, errors>>

Observe ==
    /\ inHand # NoEvent
    /\ inHand' = NoEvent
    /\ IF mode = "observe" /\ inHand[2] \notin NeverLearnable
       THEN Record(<<Field[inHand[1]], inHand[2]>>)
       ELSE UNCHANGED <<memory, fresh, dirty, learned>>
    /\ UNCHANGED <<mode, profile, sealed, elapsed, errors>>

\* IsKnown looks an image up by its whole name.
IsKnown(e) == mode = "detect" /\ e \in memory

(***************************************************************************)
(* Tick: flush, then seal when the window is over.                         *)
(***************************************************************************)
Flushed == profile' = profile \cup fresh /\ fresh' = {} /\ dirty' = FALSE

\* A transaction that fails has zeroed the counts it got to.
FlushFails ==
    /\ mode # "off" /\ dirty /\ MayFail
    /\ \E done \in SUBSET fresh : fresh' = fresh \ done
    /\ UNCHANGED <<mode, memory, dirty, profile, sealed, elapsed, inHand, learned>>

\* The mode changes before the seal is saved.
Seal ==
    /\ mode' = "detect"
    /\ \/ sealed' = TRUE /\ UNCHANGED errors
       \/ MayFail /\ UNCHANGED sealed

Tick ==
    /\ mode # "off"
    /\ IF dirty THEN Flushed ELSE UNCHANGED <<profile, fresh, dirty>>
    /\ IF mode = "observe" /\ elapsed >= Window THEN Seal ELSE UNCHANGED <<mode, sealed, errors>>
    /\ UNCHANGED <<memory, elapsed, inHand, learned>>

Time ==
    /\ elapsed < Window
    /\ elapsed' = elapsed + 1
    /\ UNCHANGED <<mode, memory, fresh, dirty, profile, sealed, inHand, learned, errors>>

(***************************************************************************)
(* The daemon stops, cleanly or not, without Close, and New runs again.    *)
(***************************************************************************)
\* Mutant of Restart: each start opens a window of its own.
RestartAnew ==
    /\ mode' = IF sealed THEN "detect" ELSE "observe"
    /\ memory' = IF sealed THEN profile ELSE {}
    /\ elapsed' = 0
    /\ fresh' = {} /\ dirty' = FALSE /\ inHand' = NoEvent
    /\ UNCHANGED <<profile, sealed, learned, errors>>

\* The profile is loaded only when it is sealed.
Restart ==
    /\ \/ /\ mode' = IF sealed THEN "detect" ELSE "observe"
          /\ memory' = IF sealed THEN profile ELSE {}
          /\ UNCHANGED errors
       \/ MayFail /\ mode' = "off" /\ memory' = {}
    /\ fresh' = {} /\ dirty' = FALSE /\ inHand' = NoEvent
    /\ UNCHANGED <<profile, sealed, elapsed, learned>>

Next ==
    \/ \E e \in Pairs : ReadMode(e)
    \/ Observe \/ FlushFails \/ Tick \/ Time \/ Restart

Spec == Init /\ [][Next]_vars

\* Time passes, and however often the daemon is restarted, it stays up for a
\* tick again and again.  A daemon whose New failed runs on without a manager:
\* nothing promises another start.
FairSpec == Spec /\ WF_vars(Time) /\ SF_vars(Tick)

(***************************************************************************)
(* Properties.                                                             *)
(***************************************************************************)
\* The state stays in its domain.
TypeOK ==
    /\ mode \in {"observe", "detect", "off"} /\ dirty \in BOOLEAN /\ sealed \in BOOLEAN
    /\ memory \subseteq Pairs /\ fresh \subseteq memory /\ profile \subseteq Pairs
    /\ learned \subseteq Pairs /\ inHand \in Pairs \cup {NoEvent}
    /\ elapsed \in 0..Window /\ errors \in 0..MaxErrors

\* Behaviour is known only if it was recorded while the window was open, also
\* when the window closes between Handle's look at the mode and Observe, when a
\* flush fails, and when the profile comes back from disk; dangerous behaviour
\* never is.
KnownWasLearned ==
    \A e \in Pairs : IsKnown(e) => e \in learned /\ e[2] \notin NeverLearnable

\* The window closes for good, however often the daemon restarts in it and
\* whichever seal is not saved: from some point on nothing is learned any more.
WindowCloses == <>[](mode # "observe")

=============================================================================
