\* One stream asks for batches of names; the cache holds two certificates.
SPECIFICATION Spec
CONSTANTS
    Streams = {s1}
    NoStream = NoStream
    Names = {1, 2, 3}
    Requests <- Batches
    ValidNames = {1, 2, 3}
    Capacity = 2
    MaxRequestNames = 3
    QueueLen = 1
    SecretTTL = 1
    LeafLife = 2
    IssueMargin = 0
    CANotBefore = 0
    CANotAfter = 3
    MaxTime = 0
    MaxVersion = 6
INVARIANTS
    OneAnswer
