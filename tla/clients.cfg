CONSTANTS
    e1 = e1
    e2 = e2
    s1 = s1
    a1 = a1
    c1 = c1
    p1 = p1
    p2 = p2
    None = None
    General = General
    Environments = {e1, e2}
    Sessions = {s1}
    Agents = {a1}
    Commands = {c1}
    Ports = {p1, p2}
    Parent <- MCParent
    Stored <- MCStored
    Calls <- MCCalls
    CommandLines <- MCCommandLines
    Homes <- MCHomes
    Protocols = {"auto", "modern", "legacy"}
    MaxCalls = 3
SPECIFICATION Spec
INVARIANT TypeOK
INVARIANT CallsStayInScope
INVARIANT AnswersAreTrue
INVARIANT OneProtocol
CHECK_DEADLOCK FALSE
