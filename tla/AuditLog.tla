------------------------------ MODULE AuditLog ------------------------------
(***************************************************************************)
(* What the forensic chain promises its caller: events are taken in order  *)
(* and buffered; the buffer becomes durable as one block appended to the   *)
(* log, whole and unaltered, or is lost, whole, with the process.  Nothing *)
(* durable is ever changed, and nothing disappears unrecorded.             *)
(***************************************************************************)
EXTENDS Naturals, Sequences

VARIABLES
    accepted,  \* number of events taken
    pending,   \* events taken and not yet durable
    durable,   \* the blocks of events made durable
    gone       \* events lost with the process

logVars == <<accepted, pending, durable, gone>>

Init == accepted = 0 /\ pending = <<>> /\ durable = <<>> /\ gone = {}

Take ==
    /\ accepted' = accepted + 1
    /\ pending' = Append(pending, accepted + 1)
    /\ UNCHANGED <<durable, gone>>

Commit ==
    /\ pending # <<>>
    /\ durable' = Append(durable, pending)
    /\ pending' = <<>>
    /\ UNCHANGED <<accepted, gone>>

Lose ==
    /\ gone' = gone \cup {pending[k] : k \in DOMAIN pending}
    /\ pending' = <<>>
    /\ UNCHANGED <<accepted, durable>>

Next == Take \/ Commit \/ Lose

Spec == Init /\ [][Next]_logVars
=============================================================================
