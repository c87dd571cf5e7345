SPECIFICATION Spec
CONSTANTS
    Segments <- MCSegments
    End = ""
    Plain = "plain"
    Redirect = "redirect"
    Rewrite = "rewrite"
    Registrations <- MCRegistrations
    Domains = {"none", "d"}
    LocalHost = "local"
    NoHost = "none"
    NoPattern = NoPattern
    Uris <- MCUris
    NewPatterns <- MCPatterns
    MaxApps = 3
INVARIANTS
    ResolverAgrees
    CompactionIsInvisible
    NothingIsShadowedSilently
    BrowserUrlIsServed
PROPERTIES
    ToggleKeepsOwners
    PlanShowsWhatChanges
CHECK_DEADLOCK FALSE
