\* Somebody edits the generated file. No symmetry: JournalSettles is a liveness property.
SPECIFICATION FairSpec
CONSTANTS
    Workspaces = {w1}
    Clients = {c1}
    Keys = {k1}
    None = None
    Foreign = Foreign
    Kinds = {"apply", "repair", "create", "delete"}
    Faults = {"proxy", "unavailable", "store", "crash", "drift"}
    MaxOps = 3
    MaxCrashes = 1
PROPERTIES
    InSyncIsServed
    JournalSettles
CHECK_DEADLOCK FALSE
