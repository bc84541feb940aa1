\* Three daemons on two private directories and one public one, killed, failing or
\* losing power at any step.
SPECIFICATION FairSpec
CONSTANTS
    p1 = p1
    p2 = p2
    p3 = p3
    d1 = d1
    d2 = d2
    NoProc = NoProc
    Procs = {p1, p2, p3}
    Dirs = {d1, d2}
    Home <- SharedHome
    MaxCAs = 4
    MaxKills = 1
    MaxOutages = 1
INVARIANTS
    OneAuthority
    SingleAuthority
    BundleTrustsSigner
PROPERTIES
    NeverReplaced
    TrustSpec
    EventuallyServes
