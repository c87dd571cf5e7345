\* A journal entry that could not be closed, and a version used again.
SPECIFICATION Spec
CONSTANTS
    Workspaces = {w1}
    Clients = {c1}
    Keys = {k1}
    None = None
    Foreign = Foreign
    Kinds = {"apply"}
    Faults = {"proxy", "store", "journal", "crash"}
    MaxOps = 2
    MaxCrashes = 1
INVARIANT ReplayIsOfADurableAnswer
CHECK_DEADLOCK FALSE
