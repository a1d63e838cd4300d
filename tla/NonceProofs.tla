---------------------------- MODULE NonceProofs ----------------------------
(***************************************************************************)
(* Single use and replay memory of the nonce store, for any number of      *)
(* concurrent requests, nonces, scopes and TTLs, any store size and any    *)
(* placement of sweeps, evictions and restarts.                            *)
(***************************************************************************)
EXTENDS Nonce, FiniteSetTheorems, TLAPS

\* SingleUse is not inductive: a burn needs to know that what is still in
\* the issued map was never redeemed.
UseInv ==
    /\ \A i \in issued : okCount[i] = 0
    /\ \A i \in Ids : okCount[i] <= 1
    /\ \A i \in DOMAIN consumed : okCount[i] = 1

\* ReplayRemembered needs that no nonce outlives MaxTTL from now on, nor
\* MaxTTL from its redemption, which is what makes the sweep's cutoff safe.
TimeInv ==
    /\ \A i \in Ids : minted[i].exp <= now + MaxTTL
    /\ \A i \in DOMAIN consumed : consumed[i] <= now /\ minted[i].exp <= consumed[i] + MaxTTL
    /\ ReplayRemembered

\* The maps are finite, so their sizes mean something.
SizeInv ==
    /\ IsFiniteSet(issued) /\ IsFiniteSet(DOMAIN consumed)
    /\ StoreBounded

NonceInv == TypeOK /\ UseInv /\ TimeInv /\ SizeInv

\* The clamped TTL is positive and at most MaxTTL.
LEMMA ClampBounds ==
    ASSUME NEW ttl \in Ttls PROVE ClampTTL(ttl) \in Nat /\ ClampTTL(ttl) <= MaxTTL
BY NonceAssumption DEF ClampTTL

\* Dropping entries from a map leaves the others as they were.
LEMMA WithoutMap ==
    ASSUME NEW f, NEW S
    PROVE  /\ DOMAIN Without(f, S) = DOMAIN f \ S
           /\ \A x \in DOMAIN f \ S : Without(f, S)[x] = f[x]
BY DEF Without

\* Every action preserves types, single use and the time bounds.
LEMMA NonceNextUse ==
    ASSUME NonceInv, [Next]_vars PROVE TypeOK' /\ UseInv' /\ TimeInv'
<1> USE NonceAssumption DEF NonceInv, Ids
<1>0. /\ Len(minted) \in Nat /\ Ids = 1..Len(minted) /\ DOMAIN okCount = Ids
      /\ \A i \in Ids : okCount[i] \in Nat /\ minted[i].exp \in Nat
  <2>1. /\ Len(minted) \in Nat /\ Ids = 1..Len(minted)
        /\ DOMAIN okCount = 1..Len(minted)
    BY DEF TypeOK
  <2>2. \A i \in Ids : okCount[i] \in Nat
    BY <2>1 DEF TypeOK
  <2>3. \A i \in Ids : minted[i] \in [scope : Scopes, exp : Nat]
    <3> DEFINE Minted == [scope : Scopes, exp : Nat]
    <3>1. minted \in Seq(Minted)
      BY DEF TypeOK
    <3> HIDE DEF Minted
    <3>2. \A i \in 1..Len(minted) : minted[i] \in Minted
      BY <3>1
    <3>3. QED BY <2>1, <3>2 DEF Minted
  <2>4. QED BY <2>1, <2>2, <2>3
<1>1. ASSUME NEW scope \in Scopes, NEW ttl \in Ttls, Issue(scope, ttl)
      PROVE  TypeOK' /\ UseInv' /\ TimeInv'
  <2> DEFINE id == Len(minted) + 1
             new == [scope |-> scope, exp |-> now + ClampTTL(ttl)]
  <2>1. new \in [scope : Scopes, exp : Nat] /\ new.exp <= now + MaxTTL
    BY ClampBounds DEF TypeOK
  <2>2. /\ minted' = Append(minted, new) /\ okCount' = Append(okCount, 0)
        /\ now' = now /\ holding' = holding /\ result' = result
    BY <1>1 DEF Issue
  <2>3. /\ minted' \in Seq([scope : Scopes, exp : Nat])
        /\ okCount' \in Seq(Nat) /\ Len(okCount') = Len(minted')
        /\ Ids' = Ids \cup {id} /\ id \notin Ids /\ id # 0
        /\ minted'[id] = new /\ okCount'[id] = 0
        /\ \A i \in Ids : minted'[i] = minted[i] /\ okCount'[i] = okCount[i]
    BY <1>0, <2>1, <2>2 DEF TypeOK
  <2>4. /\ issued' \subseteq issued \cup {id}
        /\ DOMAIN consumed' \subseteq DOMAIN consumed
        /\ \A i \in DOMAIN consumed' : consumed'[i] = consumed[i]
        /\ \A i \in DOMAIN consumed : i \in DOMAIN consumed' \/ i \in forgotten'
        /\ forgotten \subseteq forgotten' /\ forgotten' \subseteq forgotten \cup DOMAIN consumed
    <3>1. CASE ~Full
      BY <1>1, <3>1 DEF Issue
    <3>2. CASE Full
      <4>1. PICK i \in issued \cup DOMAIN consumed :
              /\ issued' = (issued \ {i}) \cup {id}
              /\ consumed' = Without(consumed, {i})
              /\ forgotten' = forgotten \cup ({i} \cap DOMAIN consumed)
        BY <1>1, <3>2 DEF Issue
      <4>2. /\ DOMAIN consumed' = DOMAIN consumed \ {i}
            /\ \A x \in DOMAIN consumed \ {i} : consumed'[x] = consumed[x]
        BY <4>1 DEF Without
      <4>3. QED BY <4>1, <4>2
    <3>3. QED BY <3>1, <3>2
  <2>5. TypeOK'
    BY <1>0, <2>2, <2>3, <2>4 DEF TypeOK
  <2>6. UseInv'
    BY <1>0, <2>3, <2>4 DEF UseInv, TypeOK
  <2>7. TimeInv'
    <3>1. \A i \in Ids' : minted'[i].exp <= now' + MaxTTL
      BY <2>1, <2>2, <2>3 DEF TimeInv
    <3>2. \A i \in DOMAIN consumed' :
             consumed'[i] <= now' /\ minted'[i].exp <= consumed'[i] + MaxTTL
      BY <2>2, <2>3, <2>4 DEF TimeInv, TypeOK
    <3>3. ReplayRemembered'
      BY <2>2, <2>3, <2>4 DEF TimeInv, ReplayRemembered
    <3>4. QED BY <3>1, <3>2, <3>3 DEF TimeInv
  <2>8. QED BY <2>5, <2>6, <2>7
<1>2. ASSUME NEW c \in Clients, NEW id \in Ids, NEW scope \in Scopes,
             ConsumeRejected(c, id, scope)
      PROVE  TypeOK' /\ UseInv' /\ TimeInv'
  BY <1>2 DEF ConsumeRejected, TypeOK, UseInv, TimeInv, ReplayRemembered
<1>3. ASSUME NEW c \in Clients, NEW id \in Ids, NEW scope \in Scopes,
             ConsumeChecked(c, id, scope)
      PROVE  TypeOK' /\ UseInv' /\ TimeInv'
  BY <1>3 DEF ConsumeChecked, TypeOK, UseInv, TimeInv, ReplayRemembered
<1>4. ASSUME NEW c \in Clients, ConsumeLocked(c) PROVE TypeOK' /\ UseInv' /\ TimeInv'
  <2> DEFINE id == holding[c]
  <2>1. id \in Ids
    BY <1>4 DEF ConsumeLocked, TypeOK
  <2>2. holding' \in [Clients -> Ids \cup {0}] /\ now' = now /\ minted' = minted
        /\ forgotten' = forgotten
    BY <1>4 DEF ConsumeLocked, TypeOK
  <2>3. CASE UNCHANGED <<issued, consumed, okCount>>
    <3>1. result' \in {"none", "ok", "replayed", "expired", "invalid_scope",
                       "bad_signature", "not_issued"}
      BY <1>4 DEF ConsumeLocked
    <3>2. QED BY <2>2, <2>3, <3>1 DEF TypeOK, UseInv, TimeInv, ReplayRemembered
  <2>4. CASE /\ Redeemable(id) /\ Burn(id) /\ result' = "ok"
             /\ okCount' = [okCount EXCEPT ![id] = @ + 1]
    <3>1. /\ id \in issued /\ id \notin DOMAIN consumed /\ okCount[id] = 0
          /\ issued' = issued \ {id} /\ DOMAIN consumed' = DOMAIN consumed \cup {id}
          /\ consumed'[id] = now
          /\ \A i \in DOMAIN consumed : consumed'[i] = consumed[i]
      BY <2>4 DEF Redeemable, Burn, UseInv
    <3>2. /\ okCount' \in Seq(Nat) /\ Len(okCount') = Len(okCount)
          /\ okCount'[id] = 1 /\ \A i \in Ids : i # id => okCount'[i] = okCount[i]
      BY <1>0, <2>1, <2>4, <3>1 DEF TypeOK
    <3>3. TypeOK'
      BY <1>0, <2>1, <2>2, <2>4, <3>1, <3>2 DEF TypeOK
    <3>4. UseInv'
      <4>1. issued \subseteq Ids /\ DOMAIN consumed \subseteq Ids /\ Ids' = Ids
        BY <2>2 DEF TypeOK
      <4>2. \A i \in issued' : okCount'[i] = 0
        BY <3>1, <3>2, <4>1 DEF UseInv
      <4>3. \A i \in Ids' : okCount'[i] <= 1
        BY <3>2, <4>1 DEF UseInv
      <4>4. \A i \in DOMAIN consumed' : okCount'[i] = 1
        BY <3>1, <3>2, <4>1 DEF UseInv
      <4>5. QED BY <4>2, <4>3, <4>4 DEF UseInv
    <3>5. TimeInv'
      BY <1>0, <2>1, <2>2, <3>1, <3>2 DEF TimeInv, ReplayRemembered, TypeOK
    <3>6. QED BY <3>3, <3>4, <3>5
  <2>5. QED
    BY <1>4, <2>3, <2>4 DEF ConsumeLocked
<1>5. CASE Sweep
  <2>1. /\ issued' \subseteq issued
        /\ consumed' = Without(consumed, {i \in DOMAIN consumed : Stale(i)})
        /\ UNCHANGED <<now, holding, result, minted, okCount, forgotten>>
    BY <1>5 DEF Sweep
  <2>2. /\ DOMAIN consumed' \subseteq DOMAIN consumed
        /\ \A i \in DOMAIN consumed' : consumed'[i] = consumed[i]
        /\ \A i \in DOMAIN consumed : i \in DOMAIN consumed' \/ consumed[i] + MaxTTL < now
    <3> DEFINE old == {i \in DOMAIN consumed : Stale(i)}
    <3>1. DOMAIN consumed' = DOMAIN consumed \ old
      BY <2>1 DEF Without
    <3>2. \A x \in DOMAIN consumed \ old : consumed'[x] = consumed[x]
      BY <2>1 DEF Without
    <3>3. QED BY <3>1, <3>2 DEF Stale
  <2>3. TypeOK' /\ UseInv'
    BY <2>1, <2>2 DEF TypeOK, UseInv
  <2>4. TimeInv'
    <3>1. ReplayRemembered'
      <4> SUFFICES ASSUME NEW i \in Ids, okCount[i] > 0, now <= minted[i].exp,
                          i \notin forgotten
                   PROVE  i \in DOMAIN consumed'
        BY <2>1 DEF ReplayRemembered
      <4>1. i \in DOMAIN consumed
        BY DEF TimeInv, ReplayRemembered
      <4>2. minted[i].exp <= consumed[i] + MaxTTL /\ consumed[i] \in Nat /\ now \in Nat
        BY <4>1 DEF TimeInv, TypeOK
      <4>3. QED BY <1>0, <2>2, <4>1, <4>2
    <3>2. QED BY <2>1, <2>2, <3>1 DEF TimeInv
  <2>5. QED BY <2>3, <2>4
<1>6. CASE Restart
  <2>1. /\ issued' = {} /\ DOMAIN consumed' = {}
        /\ forgotten' = forgotten \cup DOMAIN consumed
        /\ holding' = [c \in Clients |-> 0]
        /\ UNCHANGED <<now, result, minted, okCount>>
    BY <1>6 DEF Restart
  <2>2. TypeOK' /\ UseInv'
    BY <2>1 DEF TypeOK, UseInv
  <2>3. TimeInv'
    BY <2>1 DEF TimeInv, ReplayRemembered
  <2>4. QED BY <2>2, <2>3
<1>7. CASE Clock
  BY <1>0, <1>7 DEF Clock, TypeOK, UseInv, TimeInv, ReplayRemembered
<1>8. CASE UNCHANGED vars
  BY <1>8 DEF vars, TypeOK, UseInv, TimeInv, ReplayRemembered
<1>9. QED
  BY <1>1, <1>2, <1>3, <1>4, <1>5, <1>6, <1>7, <1>8 DEF Next

\* Every action keeps the maps finite and within maxSize: an insertion into
\* a full store evicts first, a burn moves an entry from one map to the other.
LEMMA NonceNextSize ==
    ASSUME NonceInv, [Next]_vars PROVE SizeInv'
<1> DEFINE nI == Cardinality(issued)
           nC == Cardinality(DOMAIN consumed)
<1> USE NonceAssumption
<1>0. /\ IsFiniteSet(issued) /\ IsFiniteSet(DOMAIN consumed)
      /\ nI \in Nat /\ nC \in Nat /\ nI + nC <= MaxSize
  BY FS_CardinalityType DEF NonceInv, SizeInv, StoreBounded
<1>1. ASSUME NEW scope \in Scopes, NEW ttl \in Ttls, Issue(scope, ttl) PROVE SizeInv'
  <2> DEFINE id == Len(minted) + 1
  <2>1. id \notin issued
    BY DEF NonceInv, TypeOK, Ids
  <2>2. CASE ~Full /\ issued' = issued \cup {id} /\ consumed' = consumed
    <3>1. IsFiniteSet(issued') /\ Cardinality(issued') = nI + 1
      BY <1>0, <2>1, <2>2, FS_AddElement
    <3>2. nI + nC < MaxSize
      BY <1>0, <2>2 DEF Full
    <3>3. QED BY <1>0, <2>2, <3>1, <3>2 DEF SizeInv, StoreBounded
  <2>3. CASE Full
    <3>1. PICK i \in issued \cup DOMAIN consumed :
            /\ issued' = (issued \ {i}) \cup {id}
            /\ consumed' = Without(consumed, {i})
      BY <1>1, <2>3 DEF Issue
    <3>2. DOMAIN consumed' = DOMAIN consumed \ {i}
      BY <3>1, WithoutMap
    <3>3. /\ IsFiniteSet(issued \ {i})
          /\ Cardinality(issued \ {i}) = IF i \in issued THEN nI - 1 ELSE nI
      BY <1>0, FS_RemoveElement
    <3>4. /\ IsFiniteSet(DOMAIN consumed')
          /\ Cardinality(DOMAIN consumed') = IF i \in DOMAIN consumed THEN nC - 1 ELSE nC
      BY <1>0, <3>2, FS_RemoveElement
    <3>5. /\ IsFiniteSet(issued')
          /\ Cardinality(issued') = Cardinality(issued \ {i}) + 1
      BY <2>1, <3>1, <3>3, FS_AddElement
    <3>6. QED BY <1>0, <3>1, <3>3, <3>4, <3>5 DEF SizeInv, StoreBounded
  <2>4. QED BY <1>1, <2>2, <2>3 DEF Issue
<1>2. ASSUME NEW c \in Clients, ConsumeLocked(c) PROVE SizeInv'
  <2> DEFINE id == holding[c]
  <2>1. CASE UNCHANGED <<issued, consumed>>
    BY <2>1, <1>0 DEF SizeInv, StoreBounded
  <2>2. CASE Redeemable(id) /\ Burn(id)
    <3>1. /\ id \in issued /\ id \notin DOMAIN consumed
          /\ issued' = issued \ {id} /\ DOMAIN consumed' = DOMAIN consumed \cup {id}
      BY <2>2 DEF Redeemable, Burn
    <3>2. IsFiniteSet(issued') /\ Cardinality(issued') = nI - 1
      BY <1>0, <3>1, FS_RemoveElement
    <3>3. IsFiniteSet(DOMAIN consumed') /\ Cardinality(DOMAIN consumed') = nC + 1
      <4> DEFINE D == DOMAIN consumed
      <4>1. IsFiniteSet(D) /\ id \notin D
        BY <1>0, <3>1
      <4> HIDE DEF D
      <4>2. IsFiniteSet(D \cup {id}) /\ Cardinality(D \cup {id}) = Cardinality(D) + 1
        BY <4>1, FS_AddElement
      <4>3. QED BY <3>1, <4>2 DEF D
    <3>4. QED BY <1>0, <3>2, <3>3 DEF SizeInv, StoreBounded
  <2>3. QED BY <1>2, <2>1, <2>2 DEF ConsumeLocked
<1>3. CASE Sweep \/ Restart
  <2>1. issued' \subseteq issued /\ DOMAIN consumed' \subseteq DOMAIN consumed
    <3>1. CASE Sweep
      BY <3>1, WithoutMap DEF Sweep
    <3>2. CASE Restart
      BY <3>2 DEF Restart
    <3>3. QED BY <1>3, <3>1, <3>2
  <2>2. /\ IsFiniteSet(issued') /\ IsFiniteSet(DOMAIN consumed')
        /\ Cardinality(issued') <= nI /\ Cardinality(DOMAIN consumed') <= nC
        /\ Cardinality(issued') \in Nat /\ Cardinality(DOMAIN consumed') \in Nat
    BY <1>0, <2>1, FS_Subset, FS_CardinalityType
  <2>3. QED BY <1>0, <2>2 DEF SizeInv, StoreBounded
<1>4. CASE UNCHANGED <<issued, consumed>>
  BY <1>4, <1>0 DEF SizeInv, StoreBounded
<1>5. QED
  BY <1>1, <1>2, <1>3, <1>4 DEF Next, ConsumeRejected, ConsumeChecked, Clock, vars

\* The invariant holds of every execution.
THEOREM NonceInvariant == Spec => []NonceInv
<1>1. Init => NonceInv
  <2> SUFFICES ASSUME Init PROVE NonceInv
    OBVIOUS
  <2>1. Ids = {} /\ DOMAIN consumed = {} /\ issued = {}
    BY DEF Init, Ids
  <2>2. TypeOK
    BY <2>1 DEF Init, TypeOK, Ids
  <2>3. UseInv /\ TimeInv
    BY <2>1 DEF UseInv, TimeInv, ReplayRemembered
  <2>4. SizeInv
    BY <2>1, FS_EmptySet, NonceAssumption DEF SizeInv, StoreBounded
  <2>5. QED BY <2>2, <2>3, <2>4 DEF NonceInv
<1>2. NonceInv /\ [Next]_vars => NonceInv'
  BY NonceNextUse, NonceNextSize DEF NonceInv
<1>3. QED BY <1>1, <1>2, PTL DEF Spec

\* Types hold for ever.
THEOREM NonceTypes == Spec => []TypeOK
BY NonceInvariant, PTL DEF NonceInv

\* No nonce is ever redeemed twice.
THEOREM NonceSingleUse == Spec => []SingleUse
<1>1. NonceInv => SingleUse
  BY DEF NonceInv, UseInv, SingleUse
<1>2. QED BY <1>1, NonceInvariant, PTL

\* What the store calls consumed was redeemed, and is not redeemable.
THEOREM NonceConsumedWasRedeemed == Spec => []ConsumedWasRedeemed
<1>1. NonceInv => ConsumedWasRedeemed
  BY DEF NonceInv, UseInv, TypeOK, ConsumedWasRedeemed
<1>2. QED BY <1>1, NonceInvariant, PTL

\* The sweep never forgets a redemption before its nonce has expired.
THEOREM NonceReplayRemembered == Spec => []ReplayRemembered
BY NonceInvariant, PTL DEF NonceInv, TimeInv

\* The two maps together never exceed maxSize.
THEOREM NonceStoreBounded == Spec => []StoreBounded
BY NonceInvariant, PTL DEF NonceInv, SizeInv
=============================================================================
