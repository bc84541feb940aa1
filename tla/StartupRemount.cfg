\* The mounted OPA configuration is replaced between the two reads of one start.
SPECIFICATION Spec
CONSTANTS
    d1 = d1
    d2 = d2
    NoDaemon = NoDaemon
    Daemons = {d1, d2}
    Unset = Unset
    Empty = Empty
    MaxMillis = 5000
    Inputs <- MCInputs
    OPADocs <- Docs
    Files <- MCFiles
    MaxKills = 1
    MaxRemounts = 1
CHECK_DEADLOCK FALSE
INVARIANTS
    RoleDerived
