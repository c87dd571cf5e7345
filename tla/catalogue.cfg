SPECIFICATION Spec
CONSTANTS
    e1 = e1
    e2 = e2
    a = a
    b = b
    c = c
    r1 = r1
    r2 = r2
    other = other
    None = None
    Environments = {e1, e2}
    Sessions = {s1}
    Names = {a, b, c}
    Services = {a, b, c, other}
    Repositories = {r1, r2}
    Inputs <- MCInputs
    Requests = {q1}
    MaxApps = 2
    MaxChanges = 4
SYMMETRY Symmetry
INVARIANTS
    ReferencesKeepMeaning
    RestartKeepsReferences
    RepositoryIsCurrent
CHECK_DEADLOCK FALSE
