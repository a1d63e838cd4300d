SPECIFICATION LineageSpec
CONSTANTS
    Pids = {1, 2, 3}
    CausalCap = 2
    NodeCap = 2
    MaxAnchors = 3
INVARIANTS
    PrimaryKept
    AttributedArePersisted
