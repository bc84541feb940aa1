\* Clients may stop reading at any time.
SPECIFICATION FairSpec
CONSTANTS
    Streams = {s1, s2}
    NoStream = NoStream
    Names = {1, 2}
    Requests <- Subscriptions
    ValidNames = {1}
    Capacity = 1
    MaxRequestNames = 1
    QueueLen = 1
    SecretTTL = 1
    LeafLife = 2
    IssueMargin = 0
    CANotBefore = 0
    CANotAfter = 3
    MaxTime = 0
    MaxVersion = 1
PROPERTIES
    RequestsAnswered
    StreamsEnd
