\* One application: the merge is per application.  One domain: no property of
\* the run compares more of it than that a refresh takes the environment's.
SPECIFICATION Spec
CONSTANTS
    Environment = env
    Sessions = {s1}
    Clients = {c1, c2}
    Apps = {a1}
    Metas = {NoName, id, m1}
    NoName = NoName
    Identifier = id
    Aliases = {al}
    Ports = {p1}
    Remotes = {r1, r2}
    Domains = {d1}
    NoPort = NoPort
    None = None
    Closed = Closed
    MaxVersion = 4
SYMMETRY Symmetry
INVARIANTS
    TypeOK
    LocalRoutingIsOwn
    UntouchedIsInherited
    RemovalsKept
    VersionIdentifiesState
PROPERTIES
    ApplyIsPreviewed
    RefreshSettles
CHECK_DEADLOCK FALSE
