SPECIFICATION FairSpec
CONSTANTS
    Workspaces = {w1}
    Viewers = {v1, v2}
    Consoles = {v1}
    All = All
    None = None
    BufferSize = 1
    MaxMutations = 1
    MaxFlips = 1
    MaxChecks = 1
INVARIANTS
    TypeOK
    CountsAreBacked
    ConsoleShowsStatus
PROPERTIES
    WatchedConverges
    UnwatchedConverges
CHECK_DEADLOCK FALSE
