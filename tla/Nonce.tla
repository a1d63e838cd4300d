------------------------------- MODULE Nonce -------------------------------
(***************************************************************************)
(* pkg/nonce: single-use signed nonces.  Requests run concurrently on the  *)
(* local API: Consume checks signature, scope and expiry before it takes   *)
(* s.mu, so any number of other requests, sweeps and evictions may come    *)
(* between the check and the burn.  The key is kept across restarts, the   *)
(* issued and consumed maps are not.                                       *)
(***************************************************************************)
EXTENDS Integers, Sequences, FiniteSets

CONSTANTS
    Clients,     \* concurrent nonce.consume requests
    Scopes,
    Ttls,        \* ttl arguments Issue is called with (0 and below = default)
    DefaultTTL,
    MaxTTL,
    MaxSize,     \* Store.maxSize
    MaxIssue,    \* bound: nonces minted
    MaxTime      \* bound: clock

ASSUME NonceAssumption ==
    /\ Ttls \subseteq Int
    /\ DefaultTTL \in Nat \ {0} /\ MaxTTL \in Nat /\ DefaultTTL <= MaxTTL
    /\ MaxSize \in Nat \ {0}
    /\ MaxIssue \in Nat /\ MaxTime \in Nat

VARIABLES
    now,
    issued,    \* ids not yet redeemed
    consumed,  \* id -> time it was redeemed
    holding,   \* per request: the id that passed the unlocked checks, 0 if none
    result,    \* what the last finished Consume returned
    minted,    \* what was signed for id n: scope and expiry (newID never repeats)
    okCount,   \* id -> successful redemptions
    forgotten  \* redeemed ids whose consumed entry was evicted or lost in a restart

vars == <<now, issued, consumed, holding, result, minted, okCount, forgotten>>

Ids == DOMAIN minted

ClampTTL(ttl) == IF ttl <= 0 THEN DefaultTTL ELSE IF ttl > MaxTTL THEN MaxTTL ELSE ttl

Without(f, S) == [x \in DOMAIN f \ S |-> f[x]]

Init ==
    /\ now = 0 /\ issued = {} /\ consumed = <<>>
    /\ holding = [c \in Clients |-> 0]
    /\ result = "none"
    /\ minted = <<>> /\ okCount = <<>> /\ forgotten = {}

\* Mutant: eviction starts one entry too late.
FullLate == Cardinality(issued) + Cardinality(DOMAIN consumed) > MaxSize

Full == Cardinality(issued) + Cardinality(DOMAIN consumed) >= MaxSize

EarliestIssued == {i \in issued : \A j \in issued : minted[i].exp <= minted[j].exp}
OldestConsumed == {i \in DOMAIN consumed : \A j \in DOMAIN consumed : consumed[i] <= consumed[j]}

\* evictOldestLocked: an issued nonce if there is one, else a consumed entry.
Evictable(i) ==
    \/ i \in EarliestIssued
    \/ issued = {} /\ i \in OldestConsumed

Issue(scope, ttl) ==
    LET id == Len(minted) + 1 IN
    /\ id <= MaxIssue
    /\ \/ /\ ~Full
          /\ issued' = issued \cup {id}
          /\ UNCHANGED <<consumed, forgotten>>
       \/ /\ Full
          /\ \E i \in issued \cup DOMAIN consumed :
                /\ Evictable(i)
                /\ issued' = (issued \ {i}) \cup {id}
                /\ consumed' = Without(consumed, {i})
                /\ forgotten' = forgotten \cup ({i} \cap DOMAIN consumed)
    /\ minted' = Append(minted, [scope |-> scope, exp |-> now + ClampTTL(ttl)])
    /\ okCount' = Append(okCount, 0)
    /\ UNCHANGED <<now, holding, result>>

\* The checks before the lock that end the request.
ConsumeRejected(c, id, scope) ==
    /\ holding[c] = 0
    /\ \/ result' = "bad_signature"
       \/ /\ minted[id].scope # scope
          /\ result' = "invalid_scope"
       \/ /\ minted[id].scope = scope
          /\ now > minted[id].exp
          /\ result' = "expired"
    /\ UNCHANGED <<now, issued, consumed, holding, minted, okCount, forgotten>>

\* The checks before the lock pass.
ConsumeChecked(c, id, scope) ==
    /\ holding[c] = 0
    /\ minted[id].scope = scope
    /\ now <= minted[id].exp
    /\ holding' = [holding EXCEPT ![c] = id]
    /\ UNCHANGED <<now, issued, consumed, result, minted, okCount, forgotten>>

\* Mutant of Burn: the nonce stays redeemable.
BurnKeeps(id) ==
    /\ UNCHANGED issued
    /\ consumed' = [i \in DOMAIN consumed \cup {id} |-> IF i = id THEN now ELSE consumed[i]]

\* The two map updates of a successful redemption.
Burn(id) ==
    /\ issued' = issued \ {id}
    /\ consumed' = [i \in DOMAIN consumed \cup {id} |-> IF i = id THEN now ELSE consumed[i]]

\* Mutant of Redeemable: a signed nonce the store does not know is accepted.
RedeemableUnlessConsumed(id) == id \notin DOMAIN consumed

Redeemable(id) == id \notin DOMAIN consumed /\ id \in issued

\* The locked half of Consume.
ConsumeLocked(c) ==
    /\ holding[c] # 0
    /\ LET id == holding[c] IN
       \/ /\ id \in DOMAIN consumed
          /\ result' = "replayed"
          /\ UNCHANGED <<issued, consumed, okCount>>
       \/ /\ id \notin DOMAIN consumed /\ ~Redeemable(id)
          /\ result' = "not_issued"
          /\ UNCHANGED <<issued, consumed, okCount>>
       \/ /\ Redeemable(id)
          /\ Burn(id)
          /\ okCount' = [okCount EXCEPT ![id] = @ + 1]
          /\ result' = "ok"
    /\ holding' = [holding EXCEPT ![c] = 0]
    /\ UNCHANGED <<now, minted, forgotten>>

\* Mutant of Stale: consumed entries are dropped after the default TTL.
StaleByDefault(id) == consumed[id] + DefaultTTL < now

\* Sweep drops a consumed entry MaxTTL after the redemption.
Stale(id) == consumed[id] + MaxTTL < now

Sweep ==
    /\ issued' = {i \in issued : ~(now > minted[i].exp)}
    /\ consumed' = Without(consumed, {i \in DOMAIN consumed : Stale(i)})
    /\ <<issued', consumed'>> # <<issued, consumed>>
    /\ UNCHANGED <<now, holding, result, minted, okCount, forgotten>>

\* The daemon restarts with the same key and empty maps.
Restart ==
    /\ issued # {} \/ DOMAIN consumed # {}
    /\ issued' = {} /\ consumed' = <<>>
    /\ forgotten' = forgotten \cup DOMAIN consumed
    /\ holding' = [c \in Clients |-> 0]
    /\ UNCHANGED <<now, result, minted, okCount>>

Clock == now < MaxTime /\ now' = now + 1
         /\ UNCHANGED <<issued, consumed, holding, result, minted, okCount, forgotten>>

Next ==
    \/ \E scope \in Scopes, ttl \in Ttls : Issue(scope, ttl)
    \/ \E c \in Clients, id \in Ids, scope \in Scopes :
          ConsumeRejected(c, id, scope) \/ ConsumeChecked(c, id, scope)
    \/ \E c \in Clients : ConsumeLocked(c)
    \/ Sweep
    \/ Restart
    \/ Clock

Spec == Init /\ [][Next]_vars

-----------------------------------------------------------------------------
\* The state stays in its domain.
TypeOK ==
    /\ now \in Nat
    /\ issued \subseteq Ids
    /\ DOMAIN consumed \subseteq Ids
    /\ \A i \in DOMAIN consumed : consumed[i] \in Nat
    /\ holding \in [Clients -> Ids \cup {0}]
    /\ result \in {"none", "ok", "replayed", "expired", "invalid_scope",
                  "bad_signature", "not_issued"}
    /\ minted \in Seq([scope : Scopes, exp : Nat])
    /\ okCount \in Seq(Nat) /\ Len(okCount) = Len(minted)
    /\ forgotten \subseteq Ids

\* A nonce is redeemed at most once, whatever concurrent requests, sweeps,
\* evictions and restarts do between the unlocked check and the burn.
SingleUse == \A i \in Ids : okCount[i] <= 1

\* No false replay alarm: the store only calls a nonce consumed that it
\* redeemed, and never keeps it redeemable as well.
ConsumedWasRedeemed ==
    \A i \in DOMAIN consumed : okCount[i] = 1 /\ i \notin issued

\* A redeemed nonce is recognised as a replay for as long as it would pass
\* the expiry check, unless memory pressure or a restart took the record:
\* the sweep's coarse cutoff is never too early.
ReplayRemembered ==
    \A i \in Ids :
        (okCount[i] > 0 /\ now <= minted[i].exp /\ i \notin forgotten)
            => i \in DOMAIN consumed

\* The two maps together never exceed maxSize.
StoreBounded == Cardinality(issued) + Cardinality(DOMAIN consumed) <= MaxSize
=============================================================================
