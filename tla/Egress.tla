------------------------------- MODULE Egress -------------------------------
(***************************************************************************)
(* Egress control of one host: for every connect the pipeline asks the     *)
(* signed policies, then the trust zones, then the egress guard, and the   *)
(* guard turns a deny into an nftables element with a timeout.             *)
(***************************************************************************)
EXTENDS PolicyStore, TrustZone, Integers

CONSTANTS
    Flows,        \* connects that happen, each a pair of program and destination
    Lineages,     \* program -> ids of its processes: high half, low half as an int32
    Protected,    \* programs of a protected role
    Named,        \* destinations reached through a DNS name or SNI
    Declared,     \* program -> the upstream hosts of its profile, {} if none
    AlwaysAllow,  \* destinations on the safety net's always_allow list
    Enforcing,    \* whether the mode is enforce: otherwise a deny is only logged
    SafetyNetWired, \* whether the daemon called SetSafetyNet: it does not
    TTL,          \* ticks a deny lasts
    CacheCap,     \* denyCache.maxEntries
    MaxErrors     \* bound: nft failures

ASSUME EgressAssumption ==
    /\ Flows \subseteq Subjects \X Dests /\ Binaries \subseteq Subjects
    /\ Lineages \in [Subjects -> SUBSET (Nat \X Int)]
    /\ Protected \subseteq Subjects /\ Declared \in [Subjects -> SUBSET Dests]
    /\ Named \cup AlwaysAllow \cup SafeDests \cup Internal \subseteq Dests
    /\ SafetyNetWired \in BOOLEAN /\ Enforcing \in BOOLEAN
    /\ TTL \in Nat \ {0} /\ CacheCap \in Nat \ {0} /\ MaxErrors \in Nat

VARIABLES
    cache,    \* denyCache: key -> ticks left, 0 for an expired entry
    drops,    \* destination -> ticks left in the nft set, 0 for none
    table,    \* "absent", "ready", or "failed" for good (sync.Once)
    errors    \* nft failures so far

guardVars == <<cache, drops, table, errors>>
vars == <<storeVars, edits, zoneVars, guardVars>>

Init ==
    /\ StoreInit /\ ZoneInit
    /\ cache = [k \in {} |-> 0] /\ drops = [d \in Dests |-> 0]
    /\ table = "absent" /\ errors = 0

(***************************************************************************)
(* The decision.                                                           *)
(***************************************************************************)
\* guard.Decide.  Rule (3), secret taint, has no effect: nothing in the daemon
\* promotes a lineage to the states it denies.
GuardDecide(b, d, policy, zone) ==
    CASE policy \in {"deny", "allow", "verify"} -> policy
      [] policy \notin {"deny", "allow", "verify"} ->
         IF zone \in {"deny", "tor_require"} THEN "deny"
         ELSE IF zone = "verify" THEN "verify"
         ELSE IF d \in Internal THEN "allow"
         ELSE IF b \in Protected /\ d \notin Named THEN "deny"
         ELSE IF Declared[b] # {} /\ d \notin Declared[b] THEN "verify"
         ELSE "allow"

\* The zone is asked only where no policy stamped its id.
Verdict(f) ==
    LET b == f[1]
        d == f[2]
        policy == Decide(b, d)
    IN  GuardDecide(b, d, policy.action, IF policy.id THEN "" ELSE ZoneDecide(b, d))

(***************************************************************************)
(* ApplyDeny.                                                              *)
(***************************************************************************)
Vetoed(d) == SafetyNetWired /\ d \in AlwaysAllow

\* string(rune(id)): the low half of the id, and the replacement character for
\* all that are no code point.
Rune(l) ==
    IF l[2] \in 0..1114111 /\ l[2] \notin 55296..57343 THEN l[2] ELSE 65533
cacheKey(l, d) == <<Rune(l), d>>

\* Mutant of Has: an entry suppresses for as long as it is in the map.
HasAnyAge(k) == k \in DOMAIN cache

Has(k) == k \in DOMAIN cache /\ cache[k] > 0

\* has deleted an expired entry of k; add: at the cap expired entries make
\* room, then random ones, until a tenth of the map is free.
Added(k) ==
    LET present == DOMAIN cache \ {k}
        live == {g \in present : cache[g] > 0}
        room == (CacheCap * 9) \div 10
        with(kept) == [g \in kept \cup {k} |-> IF g = k THEN TTL ELSE cache[g]]
    IN  IF Cardinality(present) < CacheCap THEN {with(present)}
        ELSE {with(kept) : kept \in {q \in SUBSET present :
                /\ Cardinality(q) = IF room = 0 THEN 0 ELSE room - 1
                /\ q \subseteq live \/ live \subseteq q}}

\* nft: the set is created once, and one failure is remembered for good; an
\* element that is already there keeps its timeout or gets a new one, as the
\* kernel has it.
Push(d) ==
    \/ /\ table # "failed"
       /\ table' = "ready"
       /\ drops' \in {[drops EXCEPT ![d] = TTL], [drops EXCEPT ![d] = IF @ = 0 THEN TTL ELSE @]}
       /\ UNCHANGED errors
    \/ /\ table # "failed" /\ errors < MaxErrors
       /\ errors' = errors + 1
       /\ table' = IF table = "absent" THEN "failed" ELSE table
       /\ UNCHANGED drops
    \/ /\ table = "failed"
       /\ UNCHANGED <<drops, table, errors>>

\* The entry is in the cache before the push is tried.
ApplyDeny(l, d) ==
    LET k == cacheKey(l, d) IN
    IF Vetoed(d) \/ Has(k) THEN UNCHANGED guardVars
    ELSE /\ cache' \in Added(k)
         /\ IF Enforcing THEN Push(d) ELSE UNCHANGED <<drops, table, errors>>

\* A process of lineage l connects.
Connect(f, l) ==
    /\ l \in Lineages[f[1]]
    /\ IF Verdict(f) = "deny" THEN ApplyDeny(l, f[2]) ELSE UNCHANGED guardVars
    /\ UNCHANGED <<storeVars, edits, zoneVars>>

Tick ==
    /\ (\E k \in DOMAIN cache : cache[k] > 0) \/ (\E d \in Dests : drops[d] > 0)
    /\ cache' = [k \in DOMAIN cache |-> IF cache[k] = 0 THEN 0 ELSE cache[k] - 1]
    /\ drops' = [d \in Dests |-> IF drops[d] = 0 THEN 0 ELSE drops[d] - 1]
    /\ UNCHANGED <<storeVars, edits, zoneVars, table, errors>>

\* The nft set outlives the daemon.
Restart ==
    /\ MayEdit
    /\ StoreRestart /\ ZoneRestart
    /\ cache' = [k \in {} |-> 0] /\ table' = "absent"
    /\ UNCHANGED <<drops, errors>>

Retry(f) == \E l \in Lineages[f[1]] : Connect(f, l)

Next ==
    \/ StoreStep /\ UNCHANGED <<zoneVars, guardVars>>
    \/ ZoneStep /\ UNCHANGED <<storeVars, edits, guardVars>>
    \/ \E f \in Flows : Retry(f)
    \/ Tick \/ Restart

Spec == Init /\ [][Next]_vars

\* The goroutines are scheduled, tickers fire and time passes.  That a program
\* keeps trying to connect is an assumption about the programs.
Others == UNCHANGED <<zoneVars, guardVars>>
WatcherStep == ScanBegin("watcher") \/ ScanEnd("watcher") \/ \E b \in Binaries : ScanFile("watcher", b)
HandlerStep ==
    \/ ReloadRefused \/ InstallWrite \/ Cache
    \/ ScanBegin("handler") \/ ScanEnd("handler") \/ \E b \in Binaries : ScanFile("handler", b)
Fairness ==
    /\ WF_vars(WatcherStep /\ Others) /\ WF_vars(HandlerStep /\ Others)
    /\ WF_vars(Tick) /\ \A f \in Flows : WF_vars(Retry(f))

FairSpec == Spec /\ Fairness

(***************************************************************************)
(* Properties.                                                             *)
(***************************************************************************)
\* The state stays in its domain.
TypeOK ==
    /\ file \in [Binaries -> Policies \cup {NoPolicy, Bad}]
    /\ policies \in [Binaries -> Policies \cup {NoPolicy}]
    /\ handler.pc \in {"idle", "write", "cache", "reload"} /\ edits \in 0..MaxEdits
    /\ ZoneTypeOK /\ Cardinality(DOMAIN cache) <= CacheCap
    /\ \A k \in DOMAIN cache : cache[k] \in 0..TTL
    /\ drops \in [Dests -> 0..TTL] /\ table \in {"absent", "ready", "failed"}

\* Once edits stop, what decides a connect is what verifies on disk, and it
\* stays so: neither a scan that began before an edit and ends after it, nor a
\* handler's own change of the map, nor a deletion, a torn file or a crash
\* leaves a difference behind.
DecisionsFollowDisk == <>[](policies = Loadable)

\* A connect that stays denied and is tried again and again is dropped again
\* and again, as long as nft could be set up: an expired element, a push that
\* failed after its entry was cached, an entry another lineage renewed or an
\* evicted one only delay it.
DeniedStaysDropped ==
    \A f \in Flows :
        <>[](Enforcing /\ Verdict(f) = "deny" /\ ~Vetoed(f[2]) /\ table # "failed")
            => []<>(drops[f[2]] > 0)

=============================================================================
