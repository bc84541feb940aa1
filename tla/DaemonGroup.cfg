\* pilot-agent may exit before its Envoy.
SPECIFICATION Spec
CONSTANTS
    Role = "egress"
    ProxyMode = "istio"
    Probed = TRUE
    MaxFaults = 1
CHECK_DEADLOCK FALSE
INVARIANTS
    GroupStopped
