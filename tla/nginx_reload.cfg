\* Every failure of the provider's own calls, with a configuration nginx rejects.
SPECIFICATION FairSpec
CONSTANTS
    Configs = {a, b, x}
    Invalid = {x}
    None = None
    Faults = {"write", "test", "reload", "restore", "slow", "crash"}
    MaxCalls = 3
INVARIANTS
    TypeOK
    ContractKept
    SettledApplyIsServed
PROPERTY UndoneIsLoaded
CHECK_DEADLOCK FALSE
