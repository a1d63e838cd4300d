SPECIFICATION FairSpec
CONSTANTS
    tool = tool
    toolbox = toolbox
    Images = {tool, toolbox}
    Behaviors = {"spawn", "connect", "ptrace"}
    NeverLearnable = {"ptrace"}
    Field <- FirstField
    Window = 2
    MaxErrors = 2
INVARIANTS
    KnownWasLearned
PROPERTY WindowCloses
