SPECIFICATION FairSpec
CONSTANTS
    d1 = d1
    d2 = d2
    planner = planner
    p1 = p1
    p0 = p0
    pid1 = pid1
    stopRule = stopRule
    killRule = killRule
    Dispatchers <- Two
    Planner = planner
    Rules <- MCRules
    Policy <- MCPolicy
    EnforceRules <- MCEnforceRules
    Configs <- MCConfigs
    Pids <- MCPids
    NoPid = p0
    InitPid = pid1
    AlertPids <- MCAlertPids
    Scores <- MCScores
INVARIANTS
    RecordsMatch
    ExecutedAsLogged
PROPERTIES
    GatedNeverSignals
    PanicDrains
