SPECIFICATION FairSpec
CONSTANTS
    web = web
    cron = cron
    public = public
    local = local
    Binaries = {web}
    Subjects <- AllSubjects
    Labels = {"trusted", "untrusted"}
    Dests <- AllDests
    Flows <- AllFlows
    Lineages <- AllLineages
    Requests = {"request"}
    Tools = {}
    HandEdits <- ZoneFiles
    Absent = Absent
    Torn = Torn
    Policies <- AllPolicies
    NoPolicy = NoPolicy
    Bad = Bad
    TorDest = local
    TorPorts = {local}
    Internal = {local}
    SafeDests = {}
    Protected = {}
    Named = {}
    Declared <- NoProfiles
    AlwaysAllow = {public}
    Enforcing = TRUE
    SafetyNetWired = FALSE
    TTL = 2
    CacheCap = 2
    MaxErrors = 1
    MaxEdits = 2
    MaxZoneOps = 0
PROPERTIES
    DecisionsFollowDisk
    DeniedStaysDropped
