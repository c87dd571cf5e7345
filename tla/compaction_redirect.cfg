SPECIFICATION Spec
CONSTANTS
    Segments <- MCSegments
    End = ""
    Plain = "plain"
    Redirect = "redirect"
    Rewrite = "rewrite"
    Registrations <- MCNeighbours
    Domains = {"none", "d"}
    LocalHost = "local"
    NoHost = "none"
    NoPattern = NoPattern
    Uris <- MCUris
    NewPatterns = {}
    MaxApps = 4
INVARIANT
    CompactionRedirectsNothing
CHECK_DEADLOCK FALSE
