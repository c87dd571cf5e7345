\* Two workspaces in one snapshot; every call but the undo may fail, twice over.
SPECIFICATION Spec
CONSTANTS
    Workspaces = {w1, w2}
    Clients = {c1}
    Keys = {k1}
    None = None
    Foreign = Foreign
    Kinds = {"apply", "toggle", "toggle-all", "pattern", "sync", "update", "alias", "repair"}
    Faults = {"proxy", "unavailable", "store", "journal", "load", "crash"}
    MaxOps = 2
    MaxCrashes = 2
SYMMETRY Symmetry
INVARIANTS
    VerifiedIsServed
    DurableMatchesPublished
PROPERTY LedgerSpec
CHECK_DEADLOCK FALSE
