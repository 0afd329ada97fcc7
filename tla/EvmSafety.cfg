SPECIFICATION Spec
CONSTANTS
    Invoices = {"i1", "i2"}
    Terms <- MCTerms
    Txs <- MCTxs2
    Logs <- MCTxs2
    Transfer <- MCTransfer
    Scanners = {"s1"}
    Confirmers = {"c1"}
    RequiredConfirmations = 2
    MayExpire = {"i1"}
    MayRevert = {"t1"}
    MaxHeight = 3
    MaxReorgs = 1
    MaxFaults = 0
INVARIANTS
    TypeOK
    OneLiveAttempt
    StatusesAgree
    SettledIsOnChain
    CursorCoversTransfers
PROPERTIES
    ImplementsInvoiceLife
    PaymentStepsLegal
