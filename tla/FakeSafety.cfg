SPECIFICATION FairSpec
CONSTANTS
    Invoices = {"i1", "i2"}
    Terms <- MCTerms
    Txs = {"t1", "t2"}
    Pays <- MCPays
    RequiredConfirmations = 1
    MayExpire = {"i1"}
    MaxBlock = 1
    MaxFaults = 1
INVARIANTS
    TypeOK
    OneLiveAttempt
PROPERTIES
    ImplementsInvoiceLife
    InFlightPaymentEnds
    SimulatedTransferIsRead
