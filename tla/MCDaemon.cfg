SPECIFICATION FairSpec
CONSTANTS
    BusCap = 1
    MaxEvents = 2
CHECK_DEADLOCK FALSE
INVARIANTS
    SinksNeverRace
    AlertsAccounted
    CleanStopKeepsEvidence
PROPERTIES
    AlertsSettle
