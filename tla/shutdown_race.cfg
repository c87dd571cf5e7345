\* Nothing fails; a signal arrives during a toggle.
SPECIFICATION ShutdownSpec
CONSTANTS
    Workspaces = {w1}
    Clients = {c1}
    Keys = {}
    None = None
    Foreign = Foreign
    Kinds = {"toggle"}
    Faults = {}
    MaxOps = 2
    MaxCrashes = 0
INVARIANT CommittedIsStored
CHECK_DEADLOCK FALSE
