SPECIFICATION FairSpec
CONSTANTS
    Days <- OldAndNew
    Today = 3
    RetentionDays = 1
    QueueSize = 2
    BatchSize = 2
    MaxEvents = 4
    MaxErrors = 1
CHECK_DEADLOCK FALSE
INVARIANTS
    FlushNeverRaces
    Accounted
    OldestDroppedFirst
PROPERTIES
    EventsSettle
