SPECIFICATION Spec
CONSTANTS
    Paths <- MCPaths
    Defaults <- MCDefaults
    Absolute = Absolute
    MaxIterations = 2
    MaxChanges = 2
INVARIANTS
    PrintsWhatWasAsked
    ReportsTheLastLoad
    DomainErrorsAreReported
    DiscoveryIsFirst
CHECK_DEADLOCK FALSE
