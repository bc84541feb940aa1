\* Three streams, one more than the cache of one certificate allows: each evicts the
\* certificate of the others.
SPECIFICATION Spec
CONSTANTS
    Streams = {s1, s2, s3}
    NoStream = NoStream
    Names = {1, 2}
    Requests <- Subscriptions
    ValidNames = {1, 2}
    Capacity = 1
    MaxRequestNames = 1
    QueueLen = 1
    SecretTTL = 1
    LeafLife = 2
    IssueMargin = 0
    CANotBefore = 0
    CANotAfter = 3
    MaxTime = 0
    MaxVersion = 2
SYMMETRY StreamSymmetry
INVARIANTS
    StreamsBounded
PROPERTIES
    ServiceSpec
