SPECIFICATION LineageSpec
CONSTANTS
    Pids = {1, 2, 3}
    CausalCap = 2
    NodeCap = 3
    MaxAnchors = 2
PROPERTY AnchorSurvivesExec
