---------------------------- MODULE NetBanProofs ----------------------------
(***************************************************************************)
(* Proofs about the banner for every number of goroutines, every set of    *)
(* addresses and ban times, and every sequence of failing kernel calls.    *)
(***************************************************************************)
EXTENDS NetBan, HostQuarantine, FiniteSetTheorems, SequenceTheorems, TLAPS

StepType == [do : {"record", "xdpAdd", "xdpDel", "nftAdd", "nftDel"}, ip : IPs, ttl : Nat]

\* What is left of a call of Ban.
BanRest(s, ip, ttl) ==
    s \in {<<Step("record", ip, ttl), Step("xdpAdd", ip, ttl), Step("nftAdd", ip, ttl)>>,
           <<Step("xdpAdd", ip, ttl), Step("nftAdd", ip, ttl)>>,
           <<Step("nftAdd", ip, ttl)>>}

\* What is left of a call of Unban or Sweep.
DelRest(s) == \A i \in DOMAIN s : s[i].do \in {"xdpDel", "nftDel"}

\* A goroutine is in one call at a time.
CallsInv ==
    /\ todo \in [Workers -> Seq(StepType)]
    /\ \A w \in Workers :
          \/ DelRest(todo[w])
          \/ \E ip \in IPs, ttl \in Nat : BanRest(todo[w], ip, ttl)

\* The calls of a goroutine that is at s which concern an address.
Touches(s, ip) == \E i \in DOMAIN s : s[i].ip = ip
Has(s, do, ip) == \E i \in DOMAIN s : s[i].do = do /\ s[i].ip = ip

(***************************************************************************)
(* For an address whose calls neither failed nor overlapped: one goroutine *)
(* works on it; while a removal from the XDP set is pending the table does *)
(* not list it, while only the addition is pending the table does, and     *)
(* when neither is pending and there is an XDP set, it agrees with the     *)
(* table.                                                                  *)
(***************************************************************************)
MatchInv ==
    \A ip \in IPs \ suspect :
        /\ \A v, w \in Workers : Touches(todo[v], ip) /\ Touches(todo[w], ip) => v = w
        /\ \A w \in Workers : Has(todo[w], "xdpDel", ip) => ip \notin DOMAIN entries
        /\ \A w \in Workers : Has(todo[w], "xdpAdd", ip) /\ ~Has(todo[w], "record", ip)
                                => ip \in DOMAIN entries
        /\ (config.xdp /\ \A w \in Workers : ~Has(todo[w], "xdpAdd", ip) /\ ~Has(todo[w], "xdpDel", ip))
              => (ip \in xdp <=> ip \in DOMAIN entries)

\* The pending additions of a call to the nftables set.
Adds(s, ip, ttl) == \E i \in DOMAIN s : s[i] = Step("nftAdd", ip, ttl)

\* The same for the nftables set, whose elements end by themselves: a pending
\* addition is for at least the time the entry has left, and when nothing is
\* pending and the kernel went by the ban's own time, the element outlives
\* the entry.
TimeInv ==
    \A ip \in IPs \ suspect :
        /\ \A w \in Workers : Has(todo[w], "nftDel", ip) => ip \notin DOMAIN entries
        /\ \A w \in Workers : \A ttl \in Nat :
              Adds(todo[w], ip, ttl) /\ ~Has(todo[w], "record", ip)
                => ip \in DOMAIN entries /\ entries[ip] <= ttl + 1
        /\ (/\ config.nft /\ ip \notin kept
            /\ \A w \in Workers : ~Has(todo[w], "nftAdd", ip) /\ ~Has(todo[w], "nftDel", ip)
            /\ ip \in DOMAIN entries /\ entries[ip] > 1)
              => ip \in DOMAIN nft /\ nft[ip] + 1 >= entries[ip]

\* Table and XDP set hold addresses; the table is finite, so a sweep is.
TableInv ==
    /\ IsFiniteSet(DOMAIN entries) /\ DOMAIN entries \subseteq IPs
    /\ xdp \subseteq IPs
    /\ \A ip \in DOMAIN entries : entries[ip] \in Nat
    /\ \A ip \in DOMAIN nft : nft[ip] \in Nat

-----------------------------------------------------------------------------
\* The kernel calls of a sweep: well formed, deletions only, and one on each
\* set for every expired address.
LEMMA DelStepsAre ==
  ASSUME NEW S \in SUBSET IPs, IsFiniteSet(S), NEW order \in SetToSeqs(S)
  PROVE  /\ DelSteps(order) \in Seq(StepType)
         /\ DelRest(DelSteps(order))
         /\ \A i \in DOMAIN DelSteps(order) : DelSteps(order)[i].ip \in S
         /\ \A ip \in S : \E i \in DOMAIN DelSteps(order) : DelSteps(order)[i] = Step("xdpDel", ip, 0)
         /\ \A ip \in S : \E i \in DOMAIN DelSteps(order) : DelSteps(order)[i] = Step("nftDel", ip, 0)
<1> DEFINE n == Cardinality(S)
<1>1. n \in Nat /\ order \in [1..n -> S] /\ (\A i, j \in 1..n : i # j => order[i] # order[j])
  BY FS_CardinalityType DEF SetToSeqs
<1> HIDE DEF n
<1>2. Len(order) = n
  BY <1>1
<1>3. \A ip \in S : \E i \in 1..n : order[i] = ip
  <2>1. order \in Injection(1..n, S)
    BY <1>1 DEF Injection, IsInjective
  <2>2. IsFiniteSet(1..n) /\ Cardinality(1..n) = n
    BY <1>1, FS_Interval
  <2>3. order \in Surjection(1..n, S)
    BY <2>1, <2>2, FS_Injection DEF n
  <2> QED
    BY <2>3 DEF Surjection
<1>4. \A k \in 1..2 * n : (k + 1) \div 2 \in 1..n
  BY <1>1
<1>5. ASSUME NEW k \in 1..2 * n
      PROVE  DelSteps(order)[k] \in StepType /\ DelSteps(order)[k].do \in {"xdpDel", "nftDel"}
             /\ DelSteps(order)[k].ip \in S
  BY <1>1, <1>2, <1>4, <1>5 DEF DelSteps, Step, StepType
<1>6. DelSteps(order) \in [1..2 * n -> StepType] /\ 2 * n \in Nat
  BY <1>1, <1>2, <1>5 DEF DelSteps
<1>7. DelSteps(order) \in Seq(StepType) /\ DOMAIN DelSteps(order) = 1..2 * n
  BY <1>6
<1>8. ASSUME NEW ip \in S
      PROVE  \E i \in 1..2 * n : DelSteps(order)[i] = Step("xdpDel", ip, 0)
  <2>1. PICK i \in 1..n : order[i] = ip
    BY <1>3
  <2>2. 2 * i - 1 \in 1..2 * n /\ (2 * i - 1) % 2 = 1 /\ ((2 * i - 1) + 1) \div 2 = i
    BY <1>1
  <2> QED
    BY <1>2, <2>1, <2>2 DEF DelSteps
<1>9. ASSUME NEW ip \in S
      PROVE  \E i \in 1..2 * n : DelSteps(order)[i] = Step("nftDel", ip, 0)
  <2>1. PICK i \in 1..n : order[i] = ip
    BY <1>3
  <2>2. 2 * i \in 1..2 * n /\ (2 * i) % 2 = 0 /\ (2 * i + 1) \div 2 = i
    BY <1>1
  <2> QED
    BY <1>2, <2>1, <2>2 DEF DelSteps
<1> QED
  BY <1>5, <1>7, <1>8, <1>9 DEF DelRest

BannerInv == CallsInv /\ TableInv /\ MatchInv /\ TimeInv

\* Doing the first step of a call leaves the others pending.
LEMMA TailSteps ==
  ASSUME NEW s \in Seq(StepType), s # <<>>, NEW ip
  PROVE  /\ Touches(s, ip) <=> Head(s).ip = ip \/ Touches(Tail(s), ip)
         /\ \A do : Has(s, do, ip) <=> (Head(s).do = do /\ Head(s).ip = ip) \/ Has(Tail(s), do, ip)
<1>1. /\ DOMAIN s = 1..Len(s) /\ DOMAIN Tail(s) = 1..(Len(s) - 1) /\ Len(s) \in Nat \ {0}
      /\ Head(s) = s[1]
  OBVIOUS
<1>2. \A i \in 1..(Len(s) - 1) : Tail(s)[i] = s[i + 1] /\ i + 1 \in 1..Len(s)
  BY <1>1
<1>3. \A i \in 1..Len(s) : i = 1 \/ (i - 1 \in 1..(Len(s) - 1) /\ Tail(s)[i - 1] = s[i])
  BY <1>1
<1>4. Touches(s, ip) <=> Head(s).ip = ip \/ Touches(Tail(s), ip)
  <2>1. ASSUME Touches(s, ip) PROVE Head(s).ip = ip \/ Touches(Tail(s), ip)
    <3>1. PICK i \in 1..Len(s) : s[i].ip = ip
      BY <1>1, <2>1 DEF Touches
    <3>2. CASE i = 1
      BY <1>1, <3>1, <3>2
    <3>3. CASE i # 1
      BY <1>1, <1>3, <3>1, <3>3 DEF Touches
    <3> QED
      BY <3>2, <3>3
  <2>2. ASSUME Touches(Tail(s), ip) PROVE Touches(s, ip)
    <3>1. PICK i \in 1..(Len(s) - 1) : Tail(s)[i].ip = ip
      BY <1>1, <2>2 DEF Touches
    <3> QED
      BY <1>1, <1>2, <3>1 DEF Touches
  <2>3. ASSUME Head(s).ip = ip PROVE Touches(s, ip)
    BY <1>1, <2>3 DEF Touches
  <2> QED
    BY <2>1, <2>2, <2>3
<1>5. ASSUME NEW do
      PROVE  Has(s, do, ip) <=> (Head(s).do = do /\ Head(s).ip = ip) \/ Has(Tail(s), do, ip)
  <2>1. ASSUME Has(s, do, ip) PROVE (Head(s).do = do /\ Head(s).ip = ip) \/ Has(Tail(s), do, ip)
    <3>1. PICK i \in 1..Len(s) : s[i].do = do /\ s[i].ip = ip
      BY <1>1, <2>1 DEF Has
    <3>2. CASE i = 1
      BY <1>1, <3>1, <3>2
    <3>3. CASE i # 1
      BY <1>1, <1>3, <3>1, <3>3 DEF Has
    <3> QED
      BY <3>2, <3>3
  <2>2. ASSUME Has(Tail(s), do, ip) PROVE Has(s, do, ip)
    <3>1. PICK i \in 1..(Len(s) - 1) : Tail(s)[i].do = do /\ Tail(s)[i].ip = ip
      BY <1>1, <2>2 DEF Has
    <3> QED
      BY <1>1, <1>2, <3>1 DEF Has
  <2>3. ASSUME (Head(s).do = do /\ Head(s).ip = ip) PROVE Has(s, do, ip)
    BY <1>1, <2>3 DEF Has
  <2> QED
    BY <2>1, <2>2, <2>3
<1> QED
  BY <1>4, <1>5

\* What a call of Ban has still to do, spelled out.
LEMMA BanRestHas ==
  ASSUME NEW s, NEW ip, NEW ttl, BanRest(s, ip, ttl)
  PROVE  /\ s # <<>>
         /\ ~DelRest(s)
         /\ \A x : Touches(s, x) => x = ip
         /\ \A x : ~Has(s, "xdpDel", x) /\ ~Has(s, "nftDel", x)
         /\ Has(s, "nftAdd", ip) /\ \A x, t : Adds(s, x, t) => x = ip /\ t = ttl
         /\ Head(s).ttl = ttl
         /\ Head(s).ip = ip /\ Head(s).do \in {"record", "xdpAdd", "nftAdd"}
         /\ Has(s, "record", ip) <=> Head(s).do = "record"
         /\ Head(s).do = "nftAdd" <=> ~Has(s, "xdpAdd", ip)
         /\ Head(s).do = "nftAdd" <=> Tail(s) = <<>>
         /\ Tail(s) # <<>> => BanRest(Tail(s), ip, ttl)
         /\ Head(s).do = "record" => Head(Tail(s)).do = "xdpAdd"
         /\ Head(s).do = "xdpAdd" => Head(Tail(s)).do = "nftAdd"
<1> DEFINE r == Step("record", ip, ttl)
           a == Step("xdpAdd", ip, ttl)
           n == Step("nftAdd", ip, ttl)
<1>1. CASE s = <<r, a, n>>
  BY <1>1 DEF BanRest, DelRest, Touches, Has, Adds, Step
<1>2. CASE s = <<a, n>>
  BY <1>2 DEF BanRest, DelRest, Touches, Has, Adds, Step
<1>3. CASE s = <<n>>
  BY <1>3 DEF BanRest, DelRest, Touches, Has, Adds, Step
<1> QED
  BY <1>1, <1>2, <1>3 DEF BanRest

\* Nothing is pending in an empty call, and a pending step is about its address.
LEMMA NothingPending ==
  ASSUME NEW ip
  PROVE  /\ ~Touches(<<>>, ip) /\ \A do : ~Has(<<>>, do, ip)
         /\ \A s, do : Has(s, do, ip) => Touches(s, ip)
  BY DEF Touches, Has

\* A goroutine starts a call with the steps s on the addresses S: an address
\* of S that is not suspect afterwards was worked on by nobody.
LEMMA StartCall ==
  ASSUME BannerInv, NEW w \in Workers, NEW S \in SUBSET IPs, NEW s \in Seq(StepType),
         todo[w] = <<>>, todo' = [todo EXCEPT ![w] = s],
         suspect' = suspect \cup Overlaps(w, S),
         \A ip : Touches(s, ip) => ip \in S, UNCHANGED <<config, xdp>>,
         \A ip \in S : Has(s, "xdpDel", ip) => ip \notin DOMAIN entries',
         \A ip \in S : Has(s, "xdpAdd", ip) => Has(s, "record", ip),
         \A ip \in S : Has(s, "xdpAdd", ip) \/ Has(s, "xdpDel", ip),
         \A ip \in IPs \ S : ip \in DOMAIN entries' <=> ip \in DOMAIN entries
  PROVE  MatchInv'
<1>1. todo \in [Workers -> Seq(StepType)]
  BY DEF BannerInv, CallsInv
<1>2. todo'[w] = s /\ \A v \in Workers \ {w} : todo'[v] = todo[v]
  BY <1>1
<1> SUFFICES ASSUME NEW ip \in IPs \ suspect'
             PROVE
        /\ \A u, v \in Workers : Touches(todo'[u], ip) /\ Touches(todo'[v], ip) => u = v
        /\ \A v \in Workers : Has(todo'[v], "xdpDel", ip) => ip \notin DOMAIN entries'
        /\ \A v \in Workers : Has(todo'[v], "xdpAdd", ip) /\ ~Has(todo'[v], "record", ip)
                                => ip \in DOMAIN entries'
        /\ (config.xdp /\ \A v \in Workers : ~Has(todo'[v], "xdpAdd", ip) /\ ~Has(todo'[v], "xdpDel", ip))
              => (ip \in xdp' <=> ip \in DOMAIN entries')
  BY DEF MatchInv
<1>3. CASE ip \in S
  <2>1. \A v \in Workers \ {w} : ~Touches(todo'[v], ip)
    BY <1>2, <1>3 DEF Overlaps, Touches
  <2>2. \A v \in Workers \ {w} : \A do : ~Has(todo'[v], do, ip)
    BY <2>1, NothingPending
  <2> QED
    BY <1>2, <1>3, <2>1, <2>2
<1>4. CASE ip \notin S
  <2>1. ~Touches(s, ip) /\ \A do : ~Has(s, do, ip)
    BY <1>4, NothingPending
  <2>2. ASSUME NEW v \in Workers
        PROVE  /\ Touches(todo'[v], ip) <=> Touches(todo[v], ip)
               /\ \A do : Has(todo'[v], do, ip) <=> Has(todo[v], do, ip)
    BY <1>2, <2>1, NothingPending
  <2>3. ip \in IPs \ suspect /\ (ip \in DOMAIN entries' <=> ip \in DOMAIN entries)
    BY <1>4
  <2>4. /\ \A u, v \in Workers : Touches(todo[u], ip) /\ Touches(todo[v], ip) => u = v
        /\ \A v \in Workers : Has(todo[v], "xdpDel", ip) => ip \notin DOMAIN entries
        /\ \A v \in Workers : Has(todo[v], "xdpAdd", ip) /\ ~Has(todo[v], "record", ip)
                                => ip \in DOMAIN entries
        /\ (config.xdp /\ \A v \in Workers : ~Has(todo[v], "xdpAdd", ip) /\ ~Has(todo[v], "xdpDel", ip))
              => (ip \in xdp <=> ip \in DOMAIN entries)
    BY <2>3 DEF BannerInv, MatchInv
  <2>5. \A u, v \in Workers : Touches(todo'[u], ip) /\ Touches(todo'[v], ip) => u = v
    BY <2>2, <2>4
  <2>6. \A v \in Workers : Has(todo'[v], "xdpDel", ip) => ip \notin DOMAIN entries'
    BY <2>2, <2>3, <2>4
  <2>7. \A v \in Workers : Has(todo'[v], "xdpAdd", ip) /\ ~Has(todo'[v], "record", ip)
                             => ip \in DOMAIN entries'
    BY <2>2, <2>3, <2>4
  <2>8. (config.xdp /\ \A v \in Workers : ~Has(todo'[v], "xdpAdd", ip) /\ ~Has(todo'[v], "xdpDel", ip))
          => (ip \in xdp' <=> ip \in DOMAIN entries')
    BY <2>2, <2>3, <2>4
  <2> QED
    BY <2>5, <2>6, <2>7, <2>8
<1> QED
  BY <1>3, <1>4

\* A pending addition is a pending step, about its address.
LEMMA AddsPending ==
  ASSUME NEW s, NEW ip, NEW ttl, Adds(s, ip, ttl)
  PROVE  Has(s, "nftAdd", ip) /\ Touches(s, ip)
  BY DEF Adds, Has, Touches, Step

\* The start of a call, for the nftables set.
LEMMA StartTime ==
  ASSUME BannerInv, NEW w \in Workers, NEW S \in SUBSET IPs, NEW s \in Seq(StepType),
         todo[w] = <<>>, todo' = [todo EXCEPT ![w] = s],
         suspect' = suspect \cup Overlaps(w, S),
         \A ip : Touches(s, ip) => ip \in S, UNCHANGED <<config, nft, kept>>,
         \A ip \in S : Has(s, "nftDel", ip) => ip \notin DOMAIN entries',
         \A ip \in S : Has(s, "nftAdd", ip) => Has(s, "record", ip),
         \A ip \in S : Has(s, "nftAdd", ip) \/ Has(s, "nftDel", ip),
         \A ip \in IPs \ S : /\ ip \in DOMAIN entries' <=> ip \in DOMAIN entries
                             /\ ip \in DOMAIN entries => entries'[ip] = entries[ip]
  PROVE  TimeInv'
<1>1. todo \in [Workers -> Seq(StepType)]
  BY DEF BannerInv, CallsInv
<1>2. todo'[w] = s /\ \A v \in Workers \ {w} : todo'[v] = todo[v]
  BY <1>1
<1> SUFFICES ASSUME NEW ip \in IPs \ suspect'
             PROVE
        /\ \A v \in Workers : Has(todo'[v], "nftDel", ip) => ip \notin DOMAIN entries'
        /\ \A v \in Workers : \A ttl \in Nat :
              Adds(todo'[v], ip, ttl) /\ ~Has(todo'[v], "record", ip)
                => ip \in DOMAIN entries' /\ entries'[ip] <= ttl + 1
        /\ (/\ config.nft /\ ip \notin kept
            /\ \A v \in Workers : ~Has(todo'[v], "nftAdd", ip) /\ ~Has(todo'[v], "nftDel", ip)
            /\ ip \in DOMAIN entries' /\ entries'[ip] > 1)
              => ip \in DOMAIN nft /\ nft[ip] + 1 >= entries'[ip]
  BY DEF TimeInv
<1>3. CASE ip \in S
  <2>1. \A v \in Workers \ {w} : ~Touches(todo'[v], ip)
    BY <1>2, <1>3 DEF Overlaps, Touches
  <2>2. \A v \in Workers \ {w} : \A do : ~Has(todo'[v], do, ip)
    BY <2>1, NothingPending
  <2>3. \A v \in Workers : \A ttl \in Nat : Adds(todo'[v], ip, ttl) => v = w /\ Has(s, "nftAdd", ip)
    BY <1>2, <2>1, AddsPending
  <2> QED
    BY <1>2, <1>3, <2>2, <2>3
<1>4. CASE ip \notin S
  <2>1. ~Touches(s, ip) /\ \A do : ~Has(s, do, ip)
    BY <1>4, NothingPending
  <2>2. ASSUME NEW v \in Workers
        PROVE  /\ \A do : Has(todo'[v], do, ip) <=> Has(todo[v], do, ip)
               /\ \A ttl : Adds(todo'[v], ip, ttl) => Adds(todo[v], ip, ttl)
    <3>1. CASE v = w
      BY <1>2, <2>1, <3>1, NothingPending, AddsPending
    <3>2. CASE v # w
      BY <1>2, <3>2
    <3> QED
      BY <3>1, <3>2
  <2>3. /\ ip \in IPs \ suspect /\ (ip \in DOMAIN entries' <=> ip \in DOMAIN entries)
        /\ ip \in DOMAIN entries => entries'[ip] = entries[ip]
    BY <1>4
  <2>4. /\ \A v \in Workers : Has(todo[v], "nftDel", ip) => ip \notin DOMAIN entries
        /\ \A v \in Workers : \A ttl \in Nat :
              Adds(todo[v], ip, ttl) /\ ~Has(todo[v], "record", ip)
                => ip \in DOMAIN entries /\ entries[ip] <= ttl + 1
        /\ (/\ config.nft /\ ip \notin kept
            /\ \A v \in Workers : ~Has(todo[v], "nftAdd", ip) /\ ~Has(todo[v], "nftDel", ip)
            /\ ip \in DOMAIN entries /\ entries[ip] > 1)
              => ip \in DOMAIN nft /\ nft[ip] + 1 >= entries[ip]
    BY <2>3 DEF BannerInv, TimeInv
  <2>5. \A v \in Workers : Has(todo'[v], "nftDel", ip) => ip \notin DOMAIN entries'
    BY <2>2, <2>3, <2>4
  <2>6. \A v \in Workers : \A ttl \in Nat :
           Adds(todo'[v], ip, ttl) /\ ~Has(todo'[v], "record", ip)
             => ip \in DOMAIN entries' /\ entries'[ip] <= ttl + 1
    BY <2>2, <2>3, <2>4
  <2>7. (/\ config.nft /\ ip \notin kept
         /\ \A v \in Workers : ~Has(todo'[v], "nftAdd", ip) /\ ~Has(todo'[v], "nftDel", ip)
         /\ ip \in DOMAIN entries' /\ entries'[ip] > 1)
           => ip \in DOMAIN nft /\ nft[ip] + 1 >= entries'[ip]
    BY <2>2, <2>3, <2>4
  <2> QED
    BY <2>5, <2>6, <2>7
<1> QED
  BY <1>3, <1>4

\* A call of Ban that the veto let pass, or that no safety net was asked about.
LEMMA BanKeeps ==
  ASSUME BannerInv, NEW w \in Workers, NEW ip \in IPs, NEW ttl \in Ttls, Ban(w, ip, ttl)
  PROVE  BannerInv'
<1> DEFINE t == TtlOrDefault(ttl)
           s == <<Step("record", ip, t), Step("xdpAdd", ip, t), Step("nftAdd", ip, t)>>
<1>1. t \in Nat
  BY NetBanAssumption DEF TtlOrDefault
<1>2. s \in Seq(StepType) /\ BanRest(s, ip, t)
  BY <1>1 DEF Step, StepType, BanRest
<1>3. /\ todo[w] = <<>> /\ todo' = [todo EXCEPT ![w] = s]
      /\ suspect' = suspect \cup Overlaps(w, {ip})
      /\ UNCHANGED <<config, allow, entries, xdp, nft, kept>>
  BY DEF Ban, BanSteps
<1>4. Has(s, "record", ip) /\ Has(s, "xdpAdd", ip) /\ Has(s, "nftAdd", ip)
  BY DEF Has, Step
<1> HIDE DEF s, t
<1>5. CallsInv'
  BY <1>1, <1>2, <1>3 DEF BannerInv, CallsInv
<1>6. TableInv'
  BY <1>3 DEF BannerInv, TableInv
<1>7. MatchInv' /\ TimeInv'
  <2>1. /\ \A x : Touches(s, x) => x \in {ip}
        /\ \A x : ~Has(s, "xdpDel", x) /\ ~Has(s, "nftDel", x)
    BY <1>2, BanRestHas
  <2>2. {ip} \in SUBSET IPs
        /\ \A x \in {ip} : Has(s, "record", x) /\ Has(s, "xdpAdd", x) /\ Has(s, "nftAdd", x)
    BY <1>4
  <2>3. UNCHANGED <<config, entries, xdp, nft, kept>>
    BY <1>3
  <2>4. MatchInv'
    BY <1>2, <1>3, <2>1, <2>2, <2>3, StartCall
  <2>5. TimeInv'
    BY <1>2, <1>3, <2>1, <2>2, <2>3, StartTime
  <2> QED
    BY <2>4, <2>5
<1> QED
  BY <1>5, <1>6, <1>7 DEF BannerInv

\* The first critical section of Unban or Sweep takes the addresses S off
\* the table.
LEMMA RemovalKeeps ==
  ASSUME BannerInv, NEW w \in Workers, NEW S \in SUBSET IPs, NEW s \in Seq(StepType),
         todo[w] = <<>>, todo' = [todo EXCEPT ![w] = s],
         suspect' = suspect \cup Overlaps(w, S),
         entries' = Drop(entries, S), UNCHANGED <<config, allow, xdp, nft, kept>>,
         DelRest(s), \A ip : Touches(s, ip) => ip \in S,
         \A ip \in S : Has(s, "xdpDel", ip) /\ Has(s, "nftDel", ip)
  PROVE  BannerInv'
<1>1. DOMAIN entries' = DOMAIN entries \ S /\ \A ip \in DOMAIN entries' : entries'[ip] = entries[ip]
  BY DEF Drop
<1>2. CallsInv'
  BY DEF BannerInv, CallsInv
<1>3. TableInv'
  BY <1>1, FS_Difference DEF BannerInv, TableInv
<1>4. \A ip : ~Has(s, "xdpAdd", ip) /\ ~Has(s, "nftAdd", ip)
  BY DEF DelRest, Has
<1>5. MatchInv'
  BY <1>1, <1>4, StartCall
<1>6. TimeInv'
  BY <1>1, <1>4, StartTime
<1> QED
  BY <1>2, <1>3, <1>5, <1>6 DEF BannerInv

\* Unban lists removals only, of an address it takes off the table.
LEMMA UnbanKeeps ==
  ASSUME BannerInv, NEW w \in Workers, NEW ip \in IPs, Unban(w, ip)
  PROVE  BannerInv'
<1> DEFINE s == <<Step("xdpDel", ip, 0), Step("nftDel", ip, 0)>>
<1>1. s \in Seq(StepType)
  BY DEF Step, StepType
<1>2. DelRest(s) /\ (\A x : Touches(s, x) => x \in {ip}) /\ \A x \in {ip} : Has(s, "xdpDel", x) /\ Has(s, "nftDel", x)
  BY DEF DelRest, Touches, Has, Step
<1>3. /\ todo[w] = <<>> /\ todo' = [todo EXCEPT ![w] = s]
      /\ suspect' = suspect \cup Overlaps(w, {ip})
      /\ entries' = Drop(entries, {ip}) /\ UNCHANGED <<config, allow, xdp, nft, kept>>
  BY DEF Unban
<1>4. {ip} \in SUBSET IPs
  OBVIOUS
<1> HIDE DEF s
<1> QED
  BY <1>1, <1>2, <1>3, <1>4, RemovalKeeps

\* Sweep lists removals only, of the entries it takes off the table.
LEMMA SweepKeeps ==
  ASSUME BannerInv, NEW w \in Workers, Sweep(w)
  PROVE  BannerInv'
<1>1. Expired \in SUBSET IPs /\ IsFiniteSet(Expired)
  BY FS_Subset DEF BannerInv, TableInv, Expired
<1>2. PICK order \in SetToSeqs(Expired) : todo' = [todo EXCEPT ![w] = DelSteps(order)]
  BY DEF Sweep
<1> DEFINE s == DelSteps(order)
<1>3. s \in Seq(StepType) /\ DelRest(s)
  BY <1>1, DelStepsAre
<1>4. /\ \A x : Touches(s, x) => x \in Expired
      /\ \A x \in Expired : Has(s, "xdpDel", x) /\ Has(s, "nftDel", x)
  <2>1. ASSUME NEW x, Touches(s, x) PROVE x \in Expired
    BY <1>1, <2>1, DelStepsAre DEF Touches
  <2>2. ASSUME NEW x \in Expired PROVE Has(s, "xdpDel", x) /\ Has(s, "nftDel", x)
    BY <1>1, <2>2, DelStepsAre DEF Has, Step
  <2> QED
    BY <2>1, <2>2
<1>5. /\ todo[w] = <<>> /\ todo' = [todo EXCEPT ![w] = s]
      /\ suspect' = suspect \cup Overlaps(w, Expired)
      /\ entries' = Drop(entries, Expired) /\ UNCHANGED <<config, allow, xdp, nft, kept>>
  BY <1>2 DEF Sweep
<1> HIDE DEF s
<1> QED
  BY <1>1, <1>3, <1>4, <1>5, RemovalKeeps

\* The kernel calls and the entry of Ban keep the table and the XDP set in
\* step.
LEMMA DoStepMatches ==
  ASSUME BannerInv, NEW w \in Workers, DoStep(w)
  PROVE  MatchInv'
<1> DEFINE s == todo[w]
           h == Head(s)
<1>1. s \in Seq(StepType) /\ s # <<>> /\ todo \in [Workers -> Seq(StepType)]
  BY DEF DoStep, BannerInv, CallsInv
<1>2. todo'[w] = Tail(s) /\ \A v \in Workers \ {w} : todo'[v] = todo[v]
  BY <1>1 DEF DoStep
<1> HIDE DEF s
<1>3. \A v \in Workers : \A x : Touches(todo'[v], x) => Touches(todo[v], x)
  BY <1>1, <1>2, TailSteps DEF s
<1>4. ASSUME NEW x \in IPs \ suspect
      PROVE  /\ \A u, v \in Workers : Touches(todo[u], x) /\ Touches(todo[v], x) => u = v
             /\ \A v \in Workers : Has(todo[v], "xdpDel", x) => x \notin DOMAIN entries
             /\ \A v \in Workers : Has(todo[v], "xdpAdd", x) /\ ~Has(todo[v], "record", x)
                                     => x \in DOMAIN entries
             /\ (config.xdp /\ \A v \in Workers : ~Has(todo[v], "xdpAdd", x) /\ ~Has(todo[v], "xdpDel", x))
                   => (x \in xdp <=> x \in DOMAIN entries)
  BY <1>4 DEF BannerInv, MatchInv
<1> SUFFICES ASSUME NEW x \in IPs \ suspect'
             PROVE
        /\ \A v \in Workers : Has(todo'[v], "xdpDel", x) => x \notin DOMAIN entries'
        /\ \A v \in Workers : Has(todo'[v], "xdpAdd", x) /\ ~Has(todo'[v], "record", x)
                                => x \in DOMAIN entries'
        /\ (config.xdp /\ \A v \in Workers : ~Has(todo'[v], "xdpAdd", x) /\ ~Has(todo'[v], "xdpDel", x))
              => (x \in xdp' <=> x \in DOMAIN entries')
  <2>1. suspect \subseteq suspect' /\ config' = config
    BY DEF DoStep
  <2> QED
    BY <1>3, <1>4, <2>1 DEF MatchInv
<1>5. x \in IPs \ suspect
  BY DEF DoStep
<1>6. CASE h.ip # x
  <2>1. ASSUME NEW v \in Workers, NEW do PROVE Has(todo'[v], do, x) <=> Has(todo[v], do, x)
    <3>1. Has(s, do, x) <=> Has(Tail(s), do, x)
      BY <1>1, <1>6, TailSteps
    <3> QED
      BY <1>2, <3>1 DEF s
  <2>2. (x \in DOMAIN entries' <=> x \in DOMAIN entries) /\ (x \in xdp' <=> x \in xdp)
    BY <1>6 DEF DoStep, Map, Drop, s
  <2> QED
    BY <1>4, <1>5, <2>1, <2>2
<1>7. CASE h.ip = x
  <2>1. \A v \in Workers \ {w} : ~Touches(todo[v], x)
    <3>1. Touches(todo[w], x)
      BY <1>1, <1>7, TailSteps DEF s
    <3> QED
      BY <1>4, <1>5, <3>1
  <2>2. ASSUME NEW v \in Workers \ {w}, NEW do PROVE ~Has(todo'[v], do, x) /\ ~Has(todo[v], do, x)
    BY <1>2, <2>1, NothingPending
  <2>3. \A do : Has(s, do, x) <=> h.do = do \/ Has(Tail(s), do, x)
    BY <1>1, <1>7, TailSteps
  <2>4. \/ h.do = "record" /\ DOMAIN entries' = DOMAIN entries \cup {x} /\ xdp' = xdp
        \/ h.do = "xdpAdd" /\ xdp' = xdp \cup {x} /\ entries' = entries
        \/ h.do = "xdpDel" /\ xdp' = xdp \ {x} /\ entries' = entries
        \/ h.do \in {"nftAdd", "nftDel"} /\ xdp' = xdp /\ entries' = entries
        \/ h.do \in {"xdpAdd", "xdpDel"} /\ ~config.xdp /\ xdp' = xdp /\ entries' = entries
    BY <1>1, <1>7 DEF DoStep, Configured, Map, s
  <2>5. CASE DelRest(s)
    <3>1. ~Has(s, "xdpAdd", x) /\ ~Has(s, "record", x)
      BY <2>5 DEF DelRest, Has
    <3>2. h.do \in {"xdpDel", "nftDel"}
      BY <1>1, <2>5 DEF DelRest
    <3>3. ~Has(Tail(s), "xdpAdd", x)
      BY <2>3, <3>1
    <3>4. CASE h.do = "xdpDel"
      <4>1. x \notin DOMAIN entries
        BY <1>4, <1>5, <2>3, <3>4 DEF s
      <4> QED
        BY <1>2, <2>2, <2>4, <3>3, <3>4, <4>1
    <3>5. CASE h.do = "nftDel"
      <4>1. entries' = entries /\ xdp' = xdp /\ (Has(Tail(s), "xdpDel", x) <=> Has(s, "xdpDel", x))
        BY <2>3, <2>4, <3>5
      <4> QED
        BY <1>2, <1>4, <1>5, <2>2, <3>1, <3>3, <4>1 DEF s
    <3> QED
      BY <3>2, <3>4, <3>5
  <2>6. ASSUME NEW ip \in IPs, NEW ttl \in Nat, BanRest(s, ip, ttl)
        PROVE  /\ \A v \in Workers : Has(todo'[v], "xdpDel", x) => x \notin DOMAIN entries'
               /\ \A v \in Workers : Has(todo'[v], "xdpAdd", x) /\ ~Has(todo'[v], "record", x)
                                       => x \in DOMAIN entries'
               /\ (config.xdp /\ \A v \in Workers : ~Has(todo'[v], "xdpAdd", x) /\ ~Has(todo'[v], "xdpDel", x))
                     => (x \in xdp' <=> x \in DOMAIN entries')
    <3>1. /\ ip = x /\ ~Has(s, "xdpDel", x) /\ h.do \in {"record", "xdpAdd", "nftAdd"}
          /\ Has(s, "record", x) <=> h.do = "record"
          /\ h.do = "nftAdd" <=> ~Has(s, "xdpAdd", x)
      BY <1>7, <2>6, BanRestHas
    <3>2. ~Has(Tail(s), "xdpDel", x)
      BY <2>3, <3>1
    <3>3. CASE h.do = "record"
      <4>1. Has(Tail(s), "xdpAdd", x)
        BY <2>3, <3>1, <3>3
      <4> QED
        BY <1>2, <2>2, <2>4, <3>2, <3>3, <4>1
    <3>4. CASE h.do = "xdpAdd"
      <4>1. x \in DOMAIN entries
        BY <1>4, <1>5, <3>1, <3>4 DEF s
      <4> QED
        BY <1>2, <2>2, <2>4, <3>2, <3>4, <4>1
    <3>5. CASE h.do = "nftAdd"
      <4>1. entries' = entries /\ xdp' = xdp /\ ~Has(Tail(s), "xdpAdd", x)
        BY <2>3, <2>4, <3>1, <3>5
      <4> QED
        BY <1>2, <1>4, <1>5, <2>2, <3>1, <3>2, <3>5, <4>1 DEF s
    <3> QED
      BY <3>1, <3>3, <3>4, <3>5
  <2> QED
    BY <2>5, <2>6 DEF BannerInv, CallsInv, s
<1> QED
  BY <1>6, <1>7

\* The kernel calls and the entry of Ban, for the nftables set.
LEMMA DoStepTimes ==
  ASSUME BannerInv, NEW w \in Workers, DoStep(w)
  PROVE  TimeInv'
<1> DEFINE s == todo[w]
           h == Head(s)
<1>1. s \in Seq(StepType) /\ s # <<>> /\ todo \in [Workers -> Seq(StepType)]
  BY DEF DoStep, BannerInv, CallsInv
<1>2. todo'[w] = Tail(s) /\ \A v \in Workers \ {w} : todo'[v] = todo[v]
  BY <1>1 DEF DoStep
<1> HIDE DEF s
<1>3. ASSUME NEW x, NEW t, Adds(Tail(s), x, t) PROVE Adds(s, x, t)
  <2>1. PICK i \in DOMAIN Tail(s) : Tail(s)[i] = Step("nftAdd", x, t)
    BY <1>3 DEF Adds
  <2>2. i + 1 \in DOMAIN s /\ s[i + 1] = Tail(s)[i]
    BY <1>1, <2>1
  <2> QED
    BY <2>1, <2>2 DEF Adds
<1> DEFINE Free(x) == \A v \in Workers : ~Has(todo'[v], "nftAdd", x) /\ ~Has(todo'[v], "nftDel", x)
           D(x) == \A v \in Workers : Has(todo'[v], "nftDel", x) => x \notin DOMAIN entries'
           A(x) == \A v \in Workers : \A ttl \in Nat :
                      Adds(todo'[v], x, ttl) /\ ~Has(todo'[v], "record", x)
                        => x \in DOMAIN entries' /\ entries'[x] <= ttl + 1
           F(x) == (config.nft /\ x \notin kept' /\ Free(x) /\ x \in DOMAIN entries' /\ entries'[x] > 1)
                      => x \in DOMAIN nft' /\ nft'[x] + 1 >= entries'[x]
<1> SUFFICES ASSUME NEW x \in IPs \ suspect' PROVE D(x) /\ A(x) /\ F(x)
  <2>1. config' = config
    BY DEF DoStep
  <2> QED
    BY <2>1 DEF TimeInv
<1>4. x \in IPs \ suspect
  BY DEF DoStep
<1>5. /\ \A u, v \in Workers : Touches(todo[u], x) /\ Touches(todo[v], x) => u = v
      /\ \A v \in Workers : Has(todo[v], "nftDel", x) => x \notin DOMAIN entries
      /\ \A v \in Workers : \A ttl \in Nat :
            Adds(todo[v], x, ttl) /\ ~Has(todo[v], "record", x)
              => x \in DOMAIN entries /\ entries[x] <= ttl + 1
      /\ (/\ config.nft /\ x \notin kept
          /\ \A v \in Workers : ~Has(todo[v], "nftAdd", x) /\ ~Has(todo[v], "nftDel", x)
          /\ x \in DOMAIN entries /\ entries[x] > 1)
            => x \in DOMAIN nft /\ nft[x] + 1 >= entries[x]
  BY <1>4 DEF BannerInv, MatchInv, TimeInv
<1>6. CASE h.ip # x
  <2>1. ASSUME NEW v \in Workers
        PROVE  /\ \A do : Has(todo'[v], do, x) <=> Has(todo[v], do, x)
               /\ \A t : Adds(todo'[v], x, t) => Adds(todo[v], x, t)
    <3>1. CASE v = w
      <4>1. todo'[v] = Tail(s) /\ todo[v] = s
        BY <1>2, <3>1 DEF s
      <4>2. \A do : Has(Tail(s), do, x) <=> Has(s, do, x)
        BY <1>1, <1>6, TailSteps
      <4>3. \A t : Adds(Tail(s), x, t) => Adds(s, x, t)
        BY <1>3
      <4> QED
        BY <4>1, <4>2, <4>3
    <3>2. CASE v # w
      <4>1. todo'[v] = todo[v]
        BY <1>2, <3>2
      <4> QED
        BY <4>1
    <3> QED
      BY <3>1, <3>2
  <2>2. /\ (x \in DOMAIN entries' <=> x \in DOMAIN entries) /\ (x \in DOMAIN entries => entries'[x] = entries[x])
        /\ (x \in DOMAIN nft' <=> x \in DOMAIN nft) /\ (x \in DOMAIN nft => nft'[x] = nft[x])
        /\ (x \in kept' <=> x \in kept)
    BY <1>6 DEF DoStep, NftAdd, Map, Drop, s
  <2>3. D(x)
    BY <1>5, <2>1, <2>2
  <2>4. A(x)
    BY <1>5, <2>1, <2>2
  <2>5. F(x)
    BY <1>5, <2>1, <2>2
  <2> QED
    BY <2>3, <2>4, <2>5
<1>7. CASE h.ip = x
  <2>1. \A v \in Workers \ {w} : ~Touches(todo'[v], x)
    <3>1. Touches(todo[w], x)
      BY <1>1, <1>7, TailSteps DEF s
    <3> QED
      BY <1>2, <1>5, <3>1
  <2>2. ASSUME NEW v \in Workers \ {w}
        PROVE  (\A do : ~Has(todo'[v], do, x)) /\ \A t : ~Adds(todo'[v], x, t)
    BY <2>1, <2>2, NothingPending, AddsPending
  <2>3. \A do : Has(s, do, x) <=> h.do = do \/ Has(Tail(s), do, x)
    BY <1>1, <1>7, TailSteps
  <2>4. CASE DelRest(s)
    <3>1. /\ \A do : Has(s, do, x) => do \in {"xdpDel", "nftDel"}
          /\ h.do \in {"xdpDel", "nftDel"} /\ \A t : ~Adds(Tail(s), x, t)
      BY <1>1, <1>3, <2>4 DEF DelRest, Has, Adds, Step
    <3>2. A(x)
      BY <1>2, <2>2, <3>1
    <3>3. entries' = entries
      BY <3>1 DEF DoStep, Configured, s
    <3>4. CASE h.do = "nftDel"
      <4>1. x \notin DOMAIN entries'
        BY <1>5, <2>3, <3>3, <3>4 DEF s
      <4> QED
        BY <3>2, <4>1
    <3>5. CASE h.do = "xdpDel"
      <4>1. UNCHANGED <<entries, nft, kept>> /\ \A do : do # "xdpDel" => (Has(Tail(s), do, x) <=> Has(s, do, x))
        BY <2>3, <3>5 DEF DoStep, Configured, s
      <4>2. ~Has(s, "nftAdd", x)
        BY <3>1
      <4>3. D(x)
        BY <1>2, <1>5, <2>2, <4>1 DEF s
      <4>4. Free(x) => \A v \in Workers : ~Has(todo[v], "nftAdd", x) /\ ~Has(todo[v], "nftDel", x)
        <5>1. \A v \in Workers \ {w} : todo'[v] = todo[v]
          BY <1>2
        <5> QED
          BY <1>2, <4>1, <4>2, <5>1 DEF s
      <4>5. F(x)
        BY <1>5, <4>1, <4>4
      <4> QED
        BY <3>2, <4>3, <4>5
    <3> QED
      BY <3>1, <3>4, <3>5
  <2>5. ASSUME NEW ip \in IPs, NEW ttl \in Nat, BanRest(s, ip, ttl)
        PROVE  D(x) /\ A(x) /\ F(x)
    <3>1. /\ ip = x /\ ~Has(s, "nftDel", x) /\ h.do \in {"record", "xdpAdd", "nftAdd"} /\ h.ttl = ttl
          /\ Has(s, "record", x) <=> h.do = "record"
          /\ Has(s, "nftAdd", x) /\ (\A t : Adds(s, x, t) => t = ttl)
          /\ h.do = "nftAdd" <=> Tail(s) = <<>>
      <4>1. ip = x
        BY <1>7, <2>5, BanRestHas
      <4>2. BanRest(s, x, ttl)
        BY <2>5, <4>1
      <4>3. /\ ~Has(s, "nftDel", x) /\ h.do \in {"record", "xdpAdd", "nftAdd"} /\ h.ttl = ttl
            /\ (Has(s, "record", x) <=> h.do = "record") /\ Has(s, "nftAdd", x)
            /\ (h.do = "nftAdd" <=> Tail(s) = <<>>)
        BY <4>2, BanRestHas
      <4>4. \A t : Adds(s, x, t) => t = ttl
        BY <4>2, BanRestHas
      <4> QED
        BY <4>1, <4>3, <4>4
    <3>2. D(x)
      BY <1>2, <2>2, <2>3, <3>1
    <3>3. CASE h.do = "record"
      <4>1. entries'[x] = ttl + 1 /\ x \in DOMAIN entries'
        BY <1>7, <3>1, <3>3 DEF DoStep, Configured, Map, s
      <4>2. A(x)
        <5>1. SUFFICES ASSUME NEW v \in Workers, NEW t \in Nat, Adds(todo'[v], x, t)
                       PROVE  entries'[x] <= t + 1
          BY <4>1
        <5>2. v = w
          BY <2>2, <5>1
        <5>3. Adds(s, x, t)
          BY <1>2, <1>3, <5>1, <5>2
        <5>4. t = ttl
          BY <3>1, <5>3
        <5> QED
          BY <4>1, <5>4
      <4>3. Has(todo'[w], "nftAdd", x)
        BY <1>2, <2>3, <3>1, <3>3
      <4> QED
        BY <3>2, <4>2, <4>3
    <3>4. CASE h.do = "xdpAdd"
      <4>1. entries' = entries
        BY <3>4 DEF DoStep, Configured, s
      <4>2. A(x)
        <5>1. ~Has(todo[w], "record", x)
          BY <3>1, <3>4 DEF s
        <5> QED
          BY <1>2, <1>3, <1>5, <2>2, <4>1, <5>1 DEF s
      <4>3. Has(todo'[w], "nftAdd", x)
        BY <1>2, <2>3, <3>1, <3>4
      <4> QED
        BY <3>2, <4>2, <4>3
    <3>5. CASE h.do = "nftAdd"
      <4>1. entries' = entries /\ Tail(s) = <<>>
        BY <3>1, <3>5 DEF DoStep, Configured, s
      <4>2. A(x)
        <5>1. \A t : ~Adds(<<>>, x, t)
          BY DEF Adds
        <5>2. \A v \in Workers, t \in Nat : ~Adds(todo'[v], x, t)
          BY <1>2, <2>2, <4>1, <5>1
        <5> QED
          BY <5>2
      <4>3. Adds(s, x, ttl)
        BY <2>5, <3>1, <3>5 DEF BanRest, Adds, Step
      <4>4. entries[x] <= ttl + 1
        BY <1>5, <3>1, <3>5, <4>3 DEF s
      <4>5. config.nft /\ x \notin kept' => nft' = Map(nft, x, ttl)
        BY <1>7, <3>1, <3>5 DEF DoStep, Configured, NftAdd, s
      <4>6. F(x)
        BY <4>1, <4>4, <4>5 DEF Map
      <4> QED
        BY <3>2, <4>2, <4>6
    <3> QED
      BY <3>1, <3>3, <3>4, <3>5
  <2> QED
    BY <2>4, <2>5 DEF BannerInv, CallsInv, s
<1> QED
  BY <1>6, <1>7

\* A step of a call in progress.
LEMMA DoStepKeeps ==
  ASSUME BannerInv, NEW w \in Workers, DoStep(w)
  PROVE  BannerInv'
<1> DEFINE s == todo[w]
           h == Head(s)
<1>1. s \in Seq(StepType) /\ s # <<>> /\ todo \in [Workers -> Seq(StepType)]
  BY DEF DoStep, BannerInv, CallsInv
<1>2. h \in StepType /\ Tail(s) \in Seq(StepType) /\ todo' = [todo EXCEPT ![w] = Tail(s)]
  BY <1>1 DEF DoStep
<1>3. CallsInv'
  <2>1. \/ DelRest(Tail(s))
        \/ \E ip \in IPs, ttl \in Nat : BanRest(Tail(s), ip, ttl)
    <3>1. CASE DelRest(s)
      BY <1>1, <3>1 DEF DelRest
    <3>2. ASSUME NEW ip \in IPs, NEW ttl \in Nat, BanRest(s, ip, ttl)
          PROVE  DelRest(Tail(s)) \/ BanRest(Tail(s), ip, ttl)
      <4>1. CASE Tail(s) = <<>>
        BY <4>1 DEF DelRest
      <4>2. CASE Tail(s) # <<>>
        BY <3>2, <4>2, BanRestHas
      <4> QED
        BY <4>1, <4>2
    <3> QED
      BY <3>1, <3>2 DEF BannerInv, CallsInv
  <2> QED
    BY <1>1, <1>2, <2>1 DEF BannerInv, CallsInv
<1>4. TableInv'
  <2>1. DOMAIN entries' = DOMAIN entries \/ DOMAIN entries' = DOMAIN entries \cup {h.ip}
    BY DEF DoStep, Map
  <2>2. h.ip \in IPs /\ h.ttl \in Nat /\ xdp' \subseteq xdp \cup {h.ip}
    BY <1>2 DEF DoStep, StepType
  <2>3. \A ip \in DOMAIN entries' : entries'[ip] \in Nat
    BY <2>2 DEF DoStep, Map, BannerInv, TableInv
  <2>4. \A ip \in DOMAIN nft' : nft'[ip] \in Nat
    BY <2>2 DEF DoStep, NftAdd, Map, Drop, BannerInv, TableInv
  <2> QED
    BY <2>1, <2>2, <2>3, <2>4, FS_AddElement DEF BannerInv, TableInv
<1> QED
  BY <1>3, <1>4, DoStepMatches, DoStepTimes DEF BannerInv

-----------------------------------------------------------------------------
\* Nothing banned, nothing pending.
LEMMA InitBanner == Init => BannerInv
<1> SUFFICES ASSUME Init PROVE BannerInv
  OBVIOUS
<1>1. \A w \in Workers : todo[w] = <<>>
  BY DEF Init
<1>2. CallsInv
  BY <1>1 DEF Init, CallsInv, DelRest
<1>3. TableInv
  BY FS_EmptySet DEF Init, TableInv
<1>4. MatchInv
  BY <1>1 DEF Init, MatchInv, Touches, Has
<1>5. TimeInv
  BY <1>1 DEF Init, TimeInv, Has, Adds
<1> QED
  BY <1>2, <1>3, <1>4, <1>5 DEF BannerInv

\* Every step keeps the invariant.
LEMMA NextBanner == BannerInv /\ [Next]_vars => BannerInv'
<1> SUFFICES ASSUME BannerInv, [Next]_vars PROVE BannerInv'
  OBVIOUS
<1>1. ASSUME NEW w \in Workers, NEW ip \in IPs, NEW ttl \in Ttls, Ban(w, ip, ttl)
      PROVE  BannerInv'
  BY <1>1, BanKeeps
<1>2. ASSUME NEW w \in Workers, NEW ip \in IPs, Unban(w, ip) PROVE BannerInv'
  BY <1>2, UnbanKeeps
<1>3. ASSUME NEW w \in Workers, Sweep(w) PROVE BannerInv'
  BY <1>3, SweepKeeps
<1>4. ASSUME NEW w \in Workers, DoStep(w) PROVE BannerInv'
  BY <1>4, DoStepKeeps
<1>5. ASSUME NEW ip \in IPs, AddAllow(ip) PROVE BannerInv'
  BY <1>5 DEF AddAllow, BannerInv, CallsInv, TableInv, MatchInv, TimeInv
<1>6. ASSUME NEW ip \in IPs, RemoveAllow(ip) PROVE BannerInv'
  BY <1>6 DEF RemoveAllow, BannerInv, CallsInv, TableInv, MatchInv, TimeInv
<1>7. CASE Clock
  <2>1. /\ DOMAIN entries' = DOMAIN entries /\ UNCHANGED <<config, xdp, todo, suspect, kept>>
        /\ \A ip \in DOMAIN entries : entries[ip] \in Nat /\ entries'[ip] \in Nat
                                      /\ entries'[ip] <= entries[ip]
                                      /\ (entries'[ip] > 1 => entries'[ip] + 1 = entries[ip])
    BY <1>7 DEF Clock, BannerInv, TableInv
  <2>2. \A ip \in DOMAIN nft : nft[ip] \in Nat /\ (nft[ip] > 1 => ip \in DOMAIN nft' /\ nft'[ip] = nft[ip] - 1)
    BY <1>7 DEF Clock, BannerInv, TableInv
  <2>3. \A ip \in DOMAIN nft' : nft'[ip] \in Nat
    BY <1>7 DEF Clock, BannerInv, TableInv
  <2>4. CallsInv' /\ TableInv' /\ MatchInv'
    BY <2>1, <2>3 DEF BannerInv, CallsInv, TableInv, MatchInv
  <2>5. TimeInv'
    <3> SUFFICES ASSUME NEW ip \in IPs \ suspect
                 PROVE
          /\ \A w \in Workers : Has(todo[w], "nftDel", ip) => ip \notin DOMAIN entries
          /\ \A w \in Workers : \A ttl \in Nat :
                Adds(todo[w], ip, ttl) /\ ~Has(todo[w], "record", ip)
                  => ip \in DOMAIN entries /\ entries'[ip] <= ttl + 1
          /\ (/\ config.nft /\ ip \notin kept
              /\ \A w \in Workers : ~Has(todo[w], "nftAdd", ip) /\ ~Has(todo[w], "nftDel", ip)
              /\ ip \in DOMAIN entries /\ entries'[ip] > 1)
                => ip \in DOMAIN nft' /\ nft'[ip] + 1 >= entries'[ip]
      BY <2>1 DEF TimeInv
    <3>1. TimeInv
      BY DEF BannerInv
    <3>2. \A w \in Workers : Has(todo[w], "nftDel", ip) => ip \notin DOMAIN entries
      BY <3>1 DEF TimeInv
    <3>3. ASSUME NEW w \in Workers, NEW ttl \in Nat, Adds(todo[w], ip, ttl), ~Has(todo[w], "record", ip)
          PROVE  ip \in DOMAIN entries /\ entries'[ip] <= ttl + 1
      <4>1. ip \in DOMAIN entries /\ entries[ip] <= ttl + 1
        BY <3>1, <3>3 DEF TimeInv
      <4> QED
        BY <2>1, <4>1
    <3>4. ASSUME config.nft, ip \notin kept,
                 \A w \in Workers : ~Has(todo[w], "nftAdd", ip) /\ ~Has(todo[w], "nftDel", ip),
                 ip \in DOMAIN entries, entries'[ip] > 1
          PROVE  ip \in DOMAIN nft' /\ nft'[ip] + 1 >= entries'[ip]
      <4>1. ip \in DOMAIN nft /\ nft[ip] + 1 >= entries[ip]
        BY <2>1, <3>1, <3>4 DEF TimeInv
      <4> QED
        BY <2>1, <2>2, <3>4, <4>1
    <3> QED
      BY <3>2, <3>3, <3>4
  <2> QED
    BY <2>4, <2>5 DEF BannerInv
<1>8. CASE UNCHANGED vars
  BY <1>8 DEF vars, BannerInv, CallsInv, TableInv, MatchInv, TimeInv
<1> QED
  BY <1>1, <1>2, <1>3, <1>4, <1>5, <1>6, <1>7, <1>8 DEF Next

-----------------------------------------------------------------------------
\* Between calls the table agrees with an XDP set on every address of which
\* no kernel call failed and no two calls overlapped, and an nftables element
\* outlives its entry.
LEMMA QuietMatches ==
  ASSUME BannerInv, Quiet, NEW ip \in IPs \ suspect
  PROVE  /\ config.xdp => (ip \in xdp <=> ip \in DOMAIN entries)
         /\ config.nft /\ ip \notin kept /\ ip \in DOMAIN entries /\ entries[ip] > 1
              => ip \in DOMAIN nft
<1>1. \A w \in Workers : \A do : ~Has(todo[w], do, ip)
  BY DEF Quiet, Has
<1> QED
  BY <1>1 DEF BannerInv, MatchInv, TimeInv

\* A banner without an XDP admin drops nothing by XDP.
LEMMA XdpOnlyIfSet == Spec => [](~config.xdp => xdp = {})
<1>1. Init => (~config.xdp => xdp = {})
  BY DEF Init
<1>2. (~config.xdp => xdp = {}) /\ [Next]_vars => (~config.xdp => xdp = {})'
  BY DEF Next, vars, Ban, Unban, Sweep, DoStep, Configured, AddAllow, RemoveAllow, Clock
<1> QED
  BY <1>1, <1>2, PTL DEF Spec

\* No drop outlives its entry: Sweep, which looks only at the table, misses
\* none but those that failed or overlapping calls left behind.
THEOREM NoOrphanDrops == Spec => []DropsAreListed
<1>1. BannerInv /\ (~config.xdp => xdp = {}) => DropsAreListed
  BY QuietMatches DEF DropsAreListed, BannerInv, TableInv
<1> QED
  BY <1>1, InitBanner, NextBanner, XdpOnlyIfSet, PTL DEF Spec

\* What List reports is dropped, with the same two exceptions: by XDP where
\* there is one, by nftables until the ban's time is up.
THEOREM ListedBansHold == Spec => []ListedAreDropped
<1>1. BannerInv => ListedAreDropped
  BY QuietMatches DEF ListedAreDropped, BannerInv, TableInv
<1> QED
  BY <1>1, InitBanner, NextBanner, PTL DEF Spec

-----------------------------------------------------------------------------
(***************************************************************************)
(* Host isolation, the other half of the package: proofs for every         *)
(* allow-list, set of SSH peers and sequence of failing nft commands,      *)
(* disengages and restarts.  It shares no variable with the bans.          *)
(***************************************************************************)
Names == {"flush", "table", "chainIn", "chainOut", "loIn", "loOut", "estIn", "estOut",
          "allowIn", "allowOut"}
RuleType == [name : Names, ips : SUBSET Addrs]
Flush == Rule("flush", {})
NoFlush(s) == \A r \in Range(s) : r.name # "flush"

\* The allow rules of a family are well formed and name all its addresses.
LEMMA AllowRulesAre ==
  ASSUME NEW ips \in SUBSET Addrs
  PROVE  /\ AllowRules(ips) \in Seq(RuleType)
         /\ Range(AllowRules(ips)) = IF ips = {} THEN {}
                                     ELSE {Rule("allowIn", ips), Rule("allowOut", ips)}
<1>1. Rule("allowIn", ips) \in RuleType /\ Rule("allowOut", ips) \in RuleType
  BY DEF Rule, RuleType, Names
<1> QED
  BY <1>1 DEF Range, AllowRules

\* The fixed part of the table.
LEMMA ChainsAre ==
  /\ Chains \in Seq(RuleType)
  /\ Range(Chains) = {Rule("table", {}), Rule("chainIn", {}), Rule("chainOut", {}),
                      Rule("loIn", {}), Rule("loOut", {}), Rule("estIn", {}), Rule("estOut", {})}
<1>1. Chains \in Seq(RuleType)
  BY DEF Chains, Rule, RuleType, Names
<1>2. DOMAIN Chains = 1..7
  BY DEF Chains
<1> QED
  BY <1>1, <1>2 DEF Range, Chains

\* What EngageQuarantine runs for an allow-list: the flush, first and only
\* there, the chains, and the allow rules of both families.
LEMMA BuildIs ==
  ASSUME NEW A \in SUBSET Addrs
  PROVE  /\ Build(A) \in Seq(RuleType) /\ Build(A) # <<>>
         /\ Head(Build(A)) = Flush
         /\ Range(Tail(Build(A))) = Range(Chains) \cup Range(AllowRules(A \ V6))
                                      \cup Range(AllowRules(A \cap V6))
         /\ NoFlush(Tail(Build(A)))
<1> DEFINE v4 == AllowRules(A \ V6)
           v6 == AllowRules(A \cap V6)
           rest == Chains \o v4 \o v6
<1>1. v4 \in Seq(RuleType) /\ v6 \in Seq(RuleType)
  BY AllowRulesAre
<1>2. Chains \in Seq(RuleType) /\ Flush \in RuleType
  BY ChainsAre DEF Flush, Rule, RuleType, Names
<1> HIDE DEF v4, v6
<1>3. rest \in Seq(RuleType) /\ Range(rest) = Range(Chains) \cup Range(v4) \cup Range(v6)
  <2> DEFINE base == Chains \o v4
  <2>1. base \in Seq(RuleType) /\ Range(base) = Range(Chains) \cup Range(v4)
    BY <1>1, <1>2, RangeConcatenation, ConcatProperties
  <2> HIDE DEF base
  <2>2. base \o v6 \in Seq(RuleType) /\ Range(base \o v6) = Range(base) \cup Range(v6)
    BY <1>1, <2>1, RangeConcatenation, ConcatProperties
  <2> QED
    BY <2>1, <2>2 DEF base
<1>4. Build(A) = <<Flush>> \o rest
  BY <1>1, <1>2, ConcatAssociative, ConcatProperties DEF Build, Flush, v4, v6
<1> HIDE DEF rest
<1>5. Build(A) \in Seq(RuleType) /\ Build(A) # <<>> /\ Head(Build(A)) = Flush
      /\ Tail(Build(A)) = rest
  BY <1>2, <1>3, <1>4
<1>6. NoFlush(rest)
  <2>1. NoFlush(Chains)
    BY ChainsAre DEF NoFlush, Rule
  <2>2. NoFlush(v4) /\ NoFlush(v6)
    BY AllowRulesAre DEF NoFlush, Rule, v4, v6
  <2> QED
    BY <1>3, <2>1, <2>2 DEF NoFlush
<1> QED
  BY <1>3, <1>5, <1>6 DEF v4, v6

-----------------------------------------------------------------------------
(***************************************************************************)
(* The inductive invariant.  EngagedIsUsable speaks of the last state of a *)
(* call; on the way there every rule of the table being built is either in *)
(* the kernel or among the commands still to run, and nothing of it is     *)
(* taken for built before the flush has run.                               *)
(***************************************************************************)
BuildInv ==
    nftTodo # <<>> =>
        \/ nftTodo = Build(request)
        \/ NoFlush(nftTodo) /\ Range(Tail(Build(request))) \subseteq rules \cup Range(nftTodo)

\* A call that has come to its end has installed all of the table.
EndInv ==
    outcome = "engaged" =>
        /\ on /\ Range(Tail(Build(request))) \subseteq rules
        /\ ~SkipCheck /\ Peers # {} => request \cap Peers # {}

QuarantineInv ==
    /\ request \in SUBSET Addrs
    /\ nftTodo \in Seq(RuleType)
    /\ nftTodo # <<>> <=> outcome = "running"
    /\ nftTodo # <<>> /\ ~SkipCheck /\ Peers # {} => request \cap Peers # {}
    /\ BuildInv
    /\ EndInv

\* No table, no call.
LEMMA InitQuarantine == QuarantineInit => QuarantineInv
  BY DEF QuarantineInit, QuarantineInv, BuildInv, EndInv

\* One nft command that succeeds.
LEMMA RunNftQuarantine == ASSUME QuarantineInv, RunNft PROVE QuarantineInv'
<1> USE DEF QuarantineInv
<1>1. /\ nftTodo # <<>> /\ nftTodo' = Tail(nftTodo) /\ request' = request
      /\ nftTodo' \in Seq(RuleType)
      /\ Range(nftTodo) = {Head(nftTodo)} \cup Range(nftTodo')
  <2>1. nftTodo = <<Head(nftTodo)>> \o Tail(nftTodo) /\ <<Head(nftTodo)>> \in Seq(RuleType)
        /\ Tail(nftTodo) \in Seq(RuleType)
    BY DEF RunNft
  <2>2. Range(<<Head(nftTodo)>> \o Tail(nftTodo)) = Range(<<Head(nftTodo)>>) \cup Range(Tail(nftTodo))
    BY <2>1, RangeConcatenation, ZenonT(40)
  <2>3. Range(<<Head(nftTodo)>>) = {Head(nftTodo)}
    BY DEF Range
  <2> QED
    BY <2>1, <2>2, <2>3 DEF RunNft
<1>2. NoFlush(nftTodo') /\ Range(Tail(Build(request))) \subseteq rules' \cup Range(nftTodo')
  <2>1. CASE nftTodo = Build(request)
    BY <1>1, <2>1, BuildIs
  <2>2. CASE nftTodo # Build(request)
    <3>1. NoFlush(nftTodo) /\ Range(Tail(Build(request))) \subseteq rules \cup Range(nftTodo)
      BY <1>1, <2>2 DEF BuildInv
    <3>2. Head(nftTodo).name # "flush"
      BY <1>1, <3>1 DEF NoFlush
    <3>3. rules' = rules \cup {Head(nftTodo)}
      BY <3>2 DEF RunNft
    <3> QED
      BY <1>1, <3>1, <3>3 DEF NoFlush
  <2> QED
    BY <2>1, <2>2
<1>3. BuildInv'
  BY <1>1, <1>2 DEF BuildInv
<1>4. CASE nftTodo' = <<>>
  <2>1. Range(nftTodo') = {}
    BY <1>4 DEF Range
  <2> QED
    BY <1>1, <1>2, <1>3, <1>4, <2>1 DEF EndInv, RunNft
<1>5. CASE nftTodo' # <<>>
  BY <1>1, <1>3, <1>5 DEF EndInv, RunNft
<1> QED
  BY <1>4, <1>5

\* Every step keeps the invariant.
LEMMA NextQuarantine == QuarantineInv /\ [QuarantineNext]_(quarantineVars) => QuarantineInv'
<1> SUFFICES ASSUME QuarantineInv, [QuarantineNext]_(quarantineVars) PROVE QuarantineInv'
  OBVIOUS
<1> USE DEF QuarantineInv
<1>1. ASSUME NEW A \in SUBSET Addrs, Engage(A) PROVE QuarantineInv'
  BY <1>1, BuildIs DEF Engage, BuildInv, EndInv
<1>2. CASE RunNft
  BY <1>2, RunNftQuarantine
<1>3. CASE NftFails
  BY <1>3 DEF NftFails, BuildInv, EndInv
<1>4. CASE Disengage
  BY <1>4 DEF Disengage, BuildInv, EndInv
<1>5. CASE Restart
  BY <1>5 DEF Restart, BuildInv, EndInv
<1>6. CASE UNCHANGED quarantineVars
  BY <1>6 DEF quarantineVars, BuildInv, EndInv
<1> QED
  BY <1>1, <1>2, <1>3, <1>4, <1>5, <1>6 DEF QuarantineNext

-----------------------------------------------------------------------------
\* The rules of a complete table let every address of the list in and out.
LEMMA TableIsUsable ==
  ASSUME NEW A \in SUBSET Addrs, Range(Tail(Build(A))) \subseteq rules
  PROVE  /\ DropsIn /\ DropsOut
         /\ {Rule("estIn", {}), Rule("estOut", {})} \subseteq rules
         /\ \A ip \in A : Reachable(ip)
<1>1. Range(Chains) \cup Range(AllowRules(A \ V6)) \cup Range(AllowRules(A \cap V6)) \subseteq rules
  BY BuildIs
<1>2. DropsIn /\ DropsOut /\ {Rule("estIn", {}), Rule("estOut", {})} \subseteq rules
  BY <1>1, ChainsAre DEF DropsIn, DropsOut
<1>3. ASSUME NEW ip \in A PROVE Reachable(ip)
  <2>1. PICK ips \in SUBSET Addrs :
            ip \in ips /\ {Rule("allowIn", ips), Rule("allowOut", ips)} \subseteq rules
    <3>1. CASE ip \in V6
      <4>1. A \cap V6 \in SUBSET Addrs /\ ip \in A \cap V6
        BY <3>1
      <4>2. Range(AllowRules(A \cap V6)) = {Rule("allowIn", A \cap V6), Rule("allowOut", A \cap V6)}
        BY <4>1, AllowRulesAre
      <4>3. {Rule("allowIn", A \cap V6), Rule("allowOut", A \cap V6)} \subseteq rules
        BY <1>1, <4>2
      <4> QED
        BY <4>1, <4>3
    <3>2. CASE ip \notin V6
      <4>1. A \ V6 \in SUBSET Addrs /\ ip \in A \ V6
        BY <3>2
      <4>2. Range(AllowRules(A \ V6)) = {Rule("allowIn", A \ V6), Rule("allowOut", A \ V6)}
        BY <4>1, AllowRulesAre
      <4>3. {Rule("allowIn", A \ V6), Rule("allowOut", A \ V6)} \subseteq rules
        BY <1>1, <4>2
      <4> QED
        BY <4>1, <4>3
    <3> QED
      BY <3>1, <3>2
  <2> QED
    BY <2>1 DEF Reachable, Accepts, Rule
<1> QED
  BY <1>2, <1>3

\* However many earlier calls failed half-way, were lifted or lost to a
\* restart, a call of EngageQuarantine that reports success has isolated the
\* host and left the allow-list and the operator's sessions a way in and out.
THEOREM EngagedHostIsUsable == QuarantineSpec => []EngagedIsUsable
<1>1. QuarantineInv => EngagedIsUsable
  <2> SUFFICES ASSUME QuarantineInv, outcome = "engaged" PROVE EngagedIsUsable
    BY DEF EngagedIsUsable
  <2>1. on /\ request \in SUBSET Addrs /\ Range(Tail(Build(request))) \subseteq rules
    BY DEF QuarantineInv, EndInv
  <2>2. ~SkipCheck /\ Peers # {} => \E p \in Peers : p \in request
    BY DEF QuarantineInv, EndInv
  <2> QED
    BY <2>1, <2>2, TableIsUsable DEF EngagedIsUsable
<1> QED
  BY <1>1, InitQuarantine, NextQuarantine, PTL DEF QuarantineSpec
=============================================================================
