SPECIFICATION FairSpec
CONSTANTS
    Tabs = {"owner", "other"}
    Owner = "owner"
    LockThreshold = 2
    RateLimit = 2
    MaxSlips = 2
    MaxSecrets = 2
    MaxFaults = 1
INVARIANTS
    LockIsEarned
    EnabledSecretIsConfirmed
PROPERTIES
    OwnerGetsIn
    LimitEnds
