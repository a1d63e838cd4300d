--------------------------- MODULE HostQuarantine ---------------------------
(***************************************************************************)
(* Host isolation in pkg/netban/quarantine.go: EngageQuarantine deletes    *)
(* the nftables table xhelix_quarantine and builds it again by one nft     *)
(* process per rule.  Each may fail, and the kernel enforces what is       *)
(* there after each of them.  The table outlives the daemon.  Its names    *)
(* are not those of NetBan, so that one module can extend both halves of   *)
(* the package.                                                            *)
(***************************************************************************)
EXTENDS Naturals, Sequences, FiniteSets

CONSTANTS
    Addrs,      \* addresses that may be on the allow-list
    V6,         \* the IPv6 ones among them
    Peers,      \* peers of the established SSH sessions
    SkipCheck   \* Banner.SkipOperatorIPCheck

ASSUME QuarantineAssumption ==
    V6 \subseteq Addrs /\ Peers \subseteq Addrs /\ SkipCheck \in BOOLEAN

VARIABLES
    rules,    \* what the kernel's quarantine table holds
    on,       \* Banner.quarantineOn
    nftTodo,  \* nft commands EngageQuarantine has still to run
    request,  \* its allow-list
    outcome   \* how the last call ended

quarantineVars == <<rules, on, nftTodo, request, outcome>>

Rule(name, ips) == [name |-> name, ips |-> ips]

Chains == <<Rule("table", {}), Rule("chainIn", {}), Rule("chainOut", {}),
            Rule("loIn", {}), Rule("loOut", {}), Rule("estIn", {}), Rule("estOut", {})>>

\* The allow rules of one address family; none if it has no address.
AllowRules(ips) ==
    IF ips = {} THEN <<>> ELSE <<Rule("allowIn", ips), Rule("allowOut", ips)>>

\* Mutant: only the IPv4 rules are installed.
BuildV4Only(A) == <<Rule("flush", {})>> \o Chains \o AllowRules(A \ V6)

\* Everything EngageQuarantine runs, in order.
Build(A) == <<Rule("flush", {})>> \o Chains \o AllowRules(A \ V6) \o AllowRules(A \cap V6)

QuarantineInit ==
    /\ rules = {} /\ on = FALSE /\ nftTodo = <<>> /\ request = {} /\ outcome = "none"

\* The refusals before nft is touched: an empty list, no SSH peer on it.
Engage(A) ==
    /\ nftTodo = <<>>
    /\ A # {}
    /\ SkipCheck \/ Peers = {} \/ A \cap Peers # {}
    /\ request' = A
    /\ nftTodo' = Build(A)
    /\ outcome' = "running"
    /\ UNCHANGED <<rules, on>>

HasTable == Rule("table", {}) \in rules

\* The commands change the kernel one at a time; a failing flush is ignored.
RunNft ==
    /\ nftTodo # <<>>
    /\ LET c == Head(nftTodo) IN
       \/ /\ c.name = "flush"
          /\ rules' \in {{}, rules}
       \/ /\ c.name # "flush"
          /\ c.name = "table" \/ HasTable
          /\ rules' = rules \cup {c}
    /\ nftTodo' = Tail(nftTodo)
    /\ on' = (on \/ Tail(nftTodo) = <<>>)
    /\ outcome' = IF Tail(nftTodo) = <<>> THEN "engaged" ELSE "running"
    /\ UNCHANGED request

\* Any other failing command ends the call with an error, the rest undone.
NftFails ==
    /\ nftTodo # <<>> /\ Head(nftTodo).name # "flush"
    /\ nftTodo' = <<>>
    /\ outcome' = "failed"
    /\ UNCHANGED <<rules, on, request>>

Disengage ==
    /\ nftTodo = <<>>
    /\ \/ rules' = {} /\ on' = FALSE /\ outcome' = "lifted"
       \/ outcome' = "failed" /\ UNCHANGED <<rules, on>>
    /\ UNCHANGED <<nftTodo, request>>

\* The daemon restarts: the flag is reset, the kernel's table is not.
Restart ==
    /\ on' = FALSE /\ nftTodo' = <<>> /\ outcome' = "none"
    /\ UNCHANGED <<rules, request>>

QuarantineNext ==
    \/ \E A \in SUBSET Addrs : Engage(A)
    \/ RunNft
    \/ NftFails
    \/ Disengage
    \/ Restart

QuarantineSpec == QuarantineInit /\ [][QuarantineNext]_quarantineVars

-----------------------------------------------------------------------------
DropsIn == Rule("chainIn", {}) \in rules
DropsOut == Rule("chainOut", {}) \in rules
Accepts(name, ip) == \E r \in rules : r.name = name /\ ip \in r.ips

\* A new connection of ip passes the quarantine chains both ways.
Reachable(ip) ==
    (DropsIn => Accepts("allowIn", ip)) /\ (DropsOut => Accepts("allowOut", ip))

\* The state stays in its domain; rules exist only in a table.
QuarantineTypeOK ==
    /\ on \in BOOLEAN
    /\ request \subseteq Addrs
    /\ \A r \in rules : r.ips \subseteq Addrs
    /\ rules # {} => HasTable
    /\ outcome \in {"none", "running", "engaged", "lifted", "failed"}
    /\ nftTodo # <<>> <=> outcome = "running"

\* A call that reports success has cut the host off in both directions and
\* left every address of its allow-list, IPv4 or IPv6, and the established
\* sessions a way in and out, whatever was there before.
EngagedIsUsable ==
    outcome = "engaged" =>
        /\ on /\ DropsIn /\ DropsOut
        /\ \A ip \in request : Reachable(ip)
        /\ {Rule("estIn", {}), Rule("estOut", {})} \subseteq rules
        /\ ~SkipCheck /\ Peers # {} => \E p \in Peers : Reachable(p)

\* quarantine.go:35-41: EngageQuarantine refuses rather than drop the
\* operator's reconnect path.
OperatorNotLockedOut ==
    (nftTodo = <<>> /\ Peers # {} /\ ~SkipCheck) => \E p \in Peers : Reachable(p)
=============================================================================
