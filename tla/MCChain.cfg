SPECIFICATION FairSpec
CONSTANTS
    Sizes <- SmallAndLarge
    BatchCap = 2
    BodyCap = 3
    MaxBatches = 2
    MaxEvents = 5
    MaxDamage = 1
INVARIANTS
    TailSurvives
    ResumesAtTail
    SurvivorsLinked
    VerdictSound
    EventsOnce
PROPERTIES
    NeverRewritten
    RotationConverges
    ImplementsLog
    EventuallyDurable
