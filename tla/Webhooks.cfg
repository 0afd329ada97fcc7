SPECIFICATION FairSpec
CONSTANTS
    Events <- MCEvents
    Endpoints <- MCEndpointOne
    EventOrg <- MCAllOfA
    EndpointOrg <- MCEndpointOfA
    Dispatchers = {"d1", "d2"}
    Retriers = {"r1"}
    BatchSize = 1
    Retries = 2
    MaxFaults = 1
INVARIANTS
    TypeOK
    OneSender
    AttemptsAreCounted
PROPERTIES
    DeliveryStepsForward
    EventReachesEndpoint
    FailedDeliveryEnds
