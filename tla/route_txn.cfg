\* Journal writes and the first proxy load succeed; everything else may fail.
SPECIFICATION Spec
CONSTANTS
    Workspaces = {w1}
    Clients = {c1}
    Keys = {k1}
    None = None
    Foreign = Foreign
    Kinds = {"apply", "toggle", "repair"}
    Faults = {"proxy", "undo", "unavailable", "store", "crash"}
    MaxOps = 3
    MaxCrashes = 1
SYMMETRY Symmetry
INVARIANTS
    TypeOK
    PlanBaseIdentifiesState
    JournalTellsFate
    KeyTakesEffectOnce
    ReplayIsOfADurableAnswer
    RollbackReportIsTrue
CHECK_DEADLOCK FALSE
