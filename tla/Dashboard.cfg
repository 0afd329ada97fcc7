SPECIFICATION FairSpec
CONSTANTS
    Members = {"ann", "bob"}
    Founder = "ann"
    Keys = {"k"}
    Wallets = {"usdc"}
    Addresses = {"A"}
    Roles = {"MEMBER"}
    MaxChanges = 2
    MaxFaults = 1
INVARIANTS
    TypeOK
    EveryKeyWasSeen
    WritersWereManagers
PROPERTIES
    WriterSeesTheRow
