------------------------------ MODULE MCNetBan ------------------------------
(* The banner for TLC.  Its ban table and its host isolation share no state, *)
(* so a behaviour exercises one of them while the other rests.  The ban      *)
(* table: two goroutines, as the daemon builds the banner, with both kernel  *)
(* sets, or with XDP alone and no safety net; two addresses banned for one   *)
(* time, or one address for different times.  The isolation: one operator    *)
(* address, one IPv4 and one IPv6 management address.                        *)
EXTENDS NetBan, HostQuarantine

CONSTANTS w1, w2, ipA, ipB, ssh, mgmt4, mgmt6

VARIABLE scene   \* which of the three

Two == {w1, w2}
MCIPs == {ipA, ipB}
DaemonBanner == [xdp |-> FALSE, nft |-> TRUE, veto |-> TRUE]
MCConfigs == {DaemonBanner,
              [xdp |-> TRUE, nft |-> TRUE, veto |-> TRUE],
              [xdp |-> TRUE, nft |-> FALSE, veto |-> FALSE]}
MCTtls == {0, 1}
MCAddrs == {ssh, mgmt4, mgmt6}
MCV6 == {mgmt6}
MCPeers == {ssh}

BannerVars == <<vars, quarantineVars, scene>>

Pending == UNION {{todo[w][i] : i \in DOMAIN todo[w]} : w \in Workers}

\* What is called in a scene of the ban table.
InScene ==
    \/ scene = "addresses" /\ \A s \in Pending : s.ttl <= 1
    \/ scene = "times" /\ allow \subseteq {ipA} /\ \A s \in Pending : s.ip = ipA

BannerInit ==
    /\ Init /\ QuarantineInit
    /\ \/ scene \in {"addresses", "times"} /\ InScene
       \/ scene = "isolation" /\ config = DaemonBanner /\ allow = {}

Table(A) == A /\ UNCHANGED <<quarantineVars, scene>> /\ InScene'

BannerNext ==
    \/ Table(Next)
    \/ scene = "isolation" /\ QuarantineNext /\ UNCHANGED <<vars, scene>>

\* Time goes on; nothing is assumed of the goroutines.
BannerSpec ==
    BannerInit /\ [][BannerNext]_BannerVars /\ WF_BannerVars(Table(Clock))
=============================================================================
