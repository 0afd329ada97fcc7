SPECIFICATION FairSpec
CONSTANTS
    Events <- MCEvents
    Endpoints <- MCEndpointOne
    EventOrg <- MCSecondOfA
    EndpointOrg <- MCEndpointOfA
    Dispatchers = {"d1"}
    Retriers = {"r1"}
    BatchSize = 1
    Retries = 1
    MaxFaults = 0
PROPERTIES
    EventReachesEndpoint
