SPECIFICATION FairSpec
CONSTANTS
    Clients = {"c1", "c2", "c3"}
    Inputs <- MCInputs
    NoExternalId = "none"
    Addresses = {"a"}
    MaxFaults = 1
CHECK_DEADLOCK FALSE
INVARIANTS
    ReplaysAgree
    OneGeneratedAddress
    AuditGapsAreFaults
PROPERTIES
    RetriedRequestEnds
