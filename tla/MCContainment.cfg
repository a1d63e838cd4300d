SPECIFICATION Spec
CONSTANTS
    c1 = c1
    c2 = c2
    src = src
    none = none
    Callers <- MCCallers
    Sources <- MCSources
    NoSource = none
    Scores <- MCScores
    Policies <- MCPolicies
    RepeatCooldown = 2
    MaxTime = 2
    MaxFires = 2
INVARIANTS
    ScoreMonotone
    ObserveModeIsSafe
    RepeatSpaced
