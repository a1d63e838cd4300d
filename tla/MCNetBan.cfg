SPECIFICATION BannerSpec
CONSTANTS
    w1 = w1
    w2 = w2
    ipA = ipA
    ipB = ipB
    ssh = ssh
    mgmt4 = mgmt4
    mgmt6 = mgmt6
    Workers <- Two
    IPs <- MCIPs
    Configs <- MCConfigs
    Ttls <- MCTtls
    DefaultTtl = 2
    Addrs <- MCAddrs
    V6 <- MCV6
    Peers <- MCPeers
    SkipCheck = FALSE
INVARIANTS
    DropsAreListed
    ListedAreDropped
    EngagedIsUsable
PROPERTIES
    AllowedIsFreed
