\* Certificates expire under a moving clock until the CA can issue no more.
SPECIFICATION Spec
CONSTANTS
    Streams = {s1, s2}
    NoStream = NoStream
    Names = {1, 2}
    Requests <- Subscriptions
    ValidNames = {1, 2}
    Capacity = 1
    MaxRequestNames = 2
    QueueLen = 1
    SecretTTL = 2
    LeafLife = 4
    IssueMargin = 1
    CANotBefore = 0
    CANotAfter = 5
    MaxTime = 4
    MaxVersion = 2
SYMMETRY StreamSymmetry
INVARIANTS
    ServedLeafOutlivesTTL
PROPERTIES
    VersionsAdvance
