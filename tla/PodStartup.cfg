\* Every input of MCInputs; three failures in the course of a start.
SPECIFICATION FairSpec
CONSTANTS
    Unset = Unset
    Empty = Empty
    MaxMillis = 5000
    Roots = {"root1", "root2"}
    Inputs <- MCInputs
    MaxFaults = 3
CHECK_DEADLOCK FALSE
INVARIANTS
    BusinessProtected
    ManagementShielded
    RulesIdempotent
    BusinessIsolated
    ProxyConfigured
PROPERTIES
    PodStarts
