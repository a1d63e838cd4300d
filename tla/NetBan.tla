------------------------------- MODULE NetBan -------------------------------
(***************************************************************************)
(* pkg/netban's Banner with the always_allow list of pkg/safetynet.  The   *)
(* ban table is updated under b.mu, the kernel sets (the XDP drop set, the *)
(* nftables set with native timeouts) by calls made after the unlock; any  *)
(* number of goroutines (response engine, containment, API, sweeper) may   *)
(* be between the two.  What a goroutine has still to do is the list of    *)
(* steps in `todo'.  Times are what is left of them, so that time has no   *)
(* end: an entry has expired at 0, an element is gone at 0.                *)
(***************************************************************************)
EXTENDS Naturals, Sequences, FiniteSets, SequencesExt

CONSTANTS
    Workers,    \* goroutines using the banner
    IPs,
    Configs,    \* how a banner may be set up
    Ttls,       \* ttl arguments Ban is called with
    DefaultTtl  \* the ttl that 0 selects

ASSUME NetBanAssumption ==
    /\ Configs \subseteq [xdp : BOOLEAN, nft : BOOLEAN, veto : BOOLEAN]
    /\ Ttls \subseteq Nat
    /\ DefaultTtl \in Nat \ {0}

VARIABLES
    config,   \* an XDP admin was given, useNFT, a safety net was set
    allow,    \* SafetyNet.allow
    entries,  \* Banner.entries: ip -> time until the entry has expired
    xdp,      \* the XDP drop set
    nft,      \* the nftables set: ip -> time until the kernel removes it
    todo,     \* per goroutine: the steps its call has still to make
    suspect,  \* history: addresses with a failed kernel call or overlapping calls
    kept      \* history: banned again, and the kernel kept the element's old timeout

vars == <<config, allow, entries, xdp, nft, todo, suspect, kept>>

Map(f, k, v) == [x \in DOMAIN f \cup {k} |-> IF x = k THEN v ELSE f[x]]
Drop(f, S) == [x \in DOMAIN f \ S |-> f[x]]
Step(do, ip, ttl) == [do |-> do, ip |-> ip, ttl |-> ttl]

\* Goroutine w starts a call on S while others are still working on some of it.
Overlaps(w, S) ==
    {ip \in S : \E v \in Workers \ {w} : \E i \in DOMAIN todo[v] : todo[v][i].ip = ip}

AllowAlways(ip) == ip \in allow

Init ==
    /\ config \in Configs
    /\ allow \in SUBSET IPs
    /\ entries = <<>> /\ xdp = {} /\ nft = <<>>
    /\ todo = [w \in Workers |-> <<>>]
    /\ suspect = {} /\ kept = {}

TtlOrDefault(ttl) == IF ttl <= 0 THEN DefaultTtl ELSE ttl

\* The steps of a call that bans ip.
BanSteps(ip, ttl) ==
    <<Step("record", ip, ttl), Step("xdpAdd", ip, ttl), Step("nftAdd", ip, ttl)>>

\* Mutants of Ban: no veto; the kernel is told nothing about the XDP set.
BanUnvetoed(w, ip, ttl) ==
    /\ todo[w] = <<>>
    /\ todo' = [todo EXCEPT ![w] = BanSteps(ip, TtlOrDefault(ttl))]
    /\ suspect' = suspect \cup Overlaps(w, {ip})
    /\ UNCHANGED <<config, allow, entries, xdp, nft, kept>>
BanNftOnly(w, ip, ttl) ==
    /\ todo[w] = <<>>
    /\ config.veto => ~AllowAlways(ip)
    /\ todo' = [todo EXCEPT ![w] = << Step("record", ip, TtlOrDefault(ttl)),
                  Step("nftAdd", ip, TtlOrDefault(ttl)) >>]
    /\ suspect' = suspect \cup Overlaps(w, {ip})
    /\ UNCHANGED <<config, allow, entries, xdp, nft, kept>>

\* Ban: the veto is asked first; the entry is recorded under a second lock.
Ban(w, ip, ttl) ==
    /\ todo[w] = <<>>
    /\ config.veto => ~AllowAlways(ip)
    /\ todo' = [todo EXCEPT ![w] = BanSteps(ip, TtlOrDefault(ttl))]
    /\ suspect' = suspect \cup Overlaps(w, {ip})
    /\ UNCHANGED <<config, allow, entries, xdp, nft, kept>>

\* Mutant: Unban forgets the XDP set.
UnbanNftOnly(w, ip) ==
    /\ todo[w] = <<>>
    /\ entries' = Drop(entries, {ip})
    /\ todo' = [todo EXCEPT ![w] = <<Step("nftDel", ip, 0)>>]
    /\ suspect' = suspect \cup Overlaps(w, {ip})
    /\ UNCHANGED <<config, allow, xdp, nft, kept>>

Unban(w, ip) ==
    /\ todo[w] = <<>>
    /\ entries' = Drop(entries, {ip})
    /\ todo' = [todo EXCEPT ![w] = <<Step("xdpDel", ip, 0), Step("nftDel", ip, 0)>>]
    /\ suspect' = suspect \cup Overlaps(w, {ip})
    /\ UNCHANGED <<config, allow, xdp, nft, kept>>

Expired == {ip \in DOMAIN entries : entries[ip] = 0}

\* The kernel calls for each of them, two per address.
DelSteps(order) ==
    [k \in 1..2 * Len(order) |->
        Step(IF k % 2 = 1 THEN "xdpDel" ELSE "nftDel", order[(k + 1) \div 2], 0)]

\* Sweep: expired entries go under the lock, their kernel rules after it, in
\* the order the map iteration happened to give.
Sweep(w) ==
    /\ todo[w] = <<>>
    /\ Expired # {}
    /\ entries' = Drop(entries, Expired)
    /\ \E order \in SetToSeqs(Expired) : todo' = [todo EXCEPT ![w] = DelSteps(order)]
    /\ suspect' = suspect \cup Overlaps(w, Expired)
    /\ UNCHANGED <<config, allow, xdp, nft, kept>>

\* A banner without an XDP admin, or not told to use nftables, skips the step.
Configured(do) ==
    /\ do \in {"xdpAdd", "xdpDel"} => config.xdp
    /\ do \in {"nftAdd", "nftDel"} => config.nft

\* nft add element: what it does to the timeout of an element that is there
\* depends on the kernel.
NftAdd(ip, ttl) ==
    \/ nft' = Map(nft, ip, ttl) /\ kept' = kept \ {ip}
    \/ ip \in DOMAIN nft /\ kept' = kept \cup {ip} /\ UNCHANGED nft

\* One step of a call in progress.
DoStep(w) ==
    /\ todo[w] # <<>>
    /\ LET s == Head(todo[w]) IN
       \/ ~Configured(s.do) /\ UNCHANGED <<entries, xdp, nft, suspect, kept>>
       \/ /\ s.do = "record"
          /\ entries' = Map(entries, s.ip, s.ttl + 1)   \* Sweep asks for After
          /\ UNCHANGED <<xdp, nft, suspect, kept>>
       \/ /\ s.do = "xdpAdd" /\ Configured(s.do)
          /\ xdp' = xdp \cup {s.ip}
          /\ UNCHANGED <<entries, nft, suspect, kept>>
       \/ /\ s.do = "xdpDel" /\ Configured(s.do)
          /\ xdp' = xdp \ {s.ip}
          /\ UNCHANGED <<entries, nft, suspect, kept>>
       \/ /\ s.do = "nftAdd" /\ Configured(s.do)
          /\ NftAdd(s.ip, s.ttl)
          /\ UNCHANGED <<entries, xdp, suspect>>
       \/ /\ s.do = "nftDel" /\ Configured(s.do)
          /\ nft' = Drop(nft, {s.ip})
          /\ kept' = kept \ {s.ip}
          /\ UNCHANGED <<entries, xdp, suspect>>
       \/ /\ s.do # "record" /\ Configured(s.do)   \* the kernel call fails
          /\ suspect' = suspect \cup {s.ip}
          /\ UNCHANGED <<entries, xdp, nft, kept>>
    /\ todo' = [todo EXCEPT ![w] = Tail(@)]
    /\ UNCHANGED <<config, allow>>

AddAllow(ip) ==
    allow' = allow \cup {ip} /\ UNCHANGED <<config, entries, xdp, nft, todo, suspect, kept>>

RemoveAllow(ip) ==
    allow' = allow \ {ip} /\ UNCHANGED <<config, entries, xdp, nft, todo, suspect, kept>>

\* Time passes; the kernel removes nftables elements by itself.
Clock ==
    /\ entries' = [ip \in DOMAIN entries |-> IF entries[ip] = 0 THEN 0 ELSE entries[ip] - 1]
    /\ nft' = [ip \in {x \in DOMAIN nft : nft[x] > 1} |-> nft[ip] - 1]
    /\ UNCHANGED <<config, allow, xdp, todo, suspect, kept>>

Next ==
    \/ \E w \in Workers, ip \in IPs, ttl \in Ttls : Ban(w, ip, ttl)
    \/ \E w \in Workers, ip \in IPs : Unban(w, ip)
    \/ \E w \in Workers : Sweep(w) \/ DoStep(w)
    \/ \E ip \in IPs : AddAllow(ip) \/ RemoveAllow(ip)
    \/ Clock

Spec == Init /\ [][Next]_vars

\* Time goes on; nothing is assumed of the goroutines.
FairSpec == Spec /\ WF_vars(Clock)

-----------------------------------------------------------------------------
Quiet == \A w \in Workers : todo[w] = <<>>

\* The state stays in its domain.
TypeOK ==
    /\ config \in Configs
    /\ allow \subseteq IPs
    /\ DOMAIN entries \subseteq IPs /\ \A ip \in DOMAIN entries : entries[ip] \in Nat
    /\ xdp \subseteq IPs /\ suspect \subseteq IPs /\ kept \subseteq IPs
    /\ DOMAIN nft \subseteq IPs /\ \A ip \in DOMAIN nft : nft[ip] \in Nat \ {0}
    /\ \A w \in Workers : \A i \in DOMAIN todo[w] :
          todo[w][i] \in [do : {"record", "xdpAdd", "xdpDel", "nftAdd", "nftDel"},
                          ip : IPs, ttl : Nat]

\* The safety-net veto, for the banner the daemon builds (no XDP): an address
\* that comes on the always_allow list and stays there is in the end free for
\* good.  Bans that had passed the veto may still reach the kernel after it,
\* but each only once, no other passes, and the kernel's timeouts end them.
AllowedIsFreed ==
    \A ip \in IPs :
        (config.veto /\ ~config.xdp) =>
            (<>[](ip \in allow) => <>[](ip \notin DOMAIN nft))

\* XDP drops have no timeout of their own: one that the ban table does not
\* list is never lifted, because Sweep only looks at the table.  Only a
\* failed kernel call, or calls on the same address that overlapped between
\* the lock and the kernel, can leave one behind.
DropsAreListed == Quiet => xdp \ suspect \subseteq DOMAIN entries

\* What List reports as banned is dropped, with the same two exceptions: by
\* XDP for as long as it is listed, by nftables until its time is up, unless
\* it was banned again and the kernel went by the first ban's timeout.
ListedAreDropped ==
    Quiet => \A ip \in DOMAIN entries \ suspect :
        /\ config.xdp => ip \in xdp
        /\ config.nft /\ ip \notin kept /\ entries[ip] > 1 => ip \in DOMAIN nft

-----------------------------------------------------------------------------
\* safetynet.go:8: always_allow is a hard veto, any address on it MUST NOT be
\* blocked by netban.
AllowedNotDropped == config.veto => allow \cap (xdp \cup DOMAIN nft) = {}
=============================================================================
