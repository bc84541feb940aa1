\* Requests through both proxies, with names at the boundaries of the checks.
SPECIFICATION Spec
CONSTANTS
    MaxName = 10
    MaxLabel = 3
    Arrivals <- SomeArrivals
    Connections <- SomeConnections
    Mutations <- SomeMutations
CHECK_DEADLOCK FALSE
INVARIANTS
    RoutedAsAuthorized
    RoutedAsFirstAuthorized
    RoutedToInspectedName
    NamesAgree
