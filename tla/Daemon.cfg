\* A workload daemon with pilot-agent and its Envoy, probed by Ready. Scheduling and
\* the kernel are fair; services are not.
SPECIFICATION FairSpec
CONSTANTS
    Role = "workload"
    ProxyMode = "istio"
    Probed = TRUE
    MaxFaults = 2
CHECK_DEADLOCK FALSE
INVARIANTS
    ChildReaped
    ResultPending
    PolicyBeforeProxy
    StopHasCause
    ExitStatus
    GroupSignalled
PROPERTIES
    ReadyMeansServing
    StopCompletes
    LossNoticed
    Recovers
