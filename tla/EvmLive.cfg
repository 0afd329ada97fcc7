SPECIFICATION FairSpec
CONSTANTS
    Invoices = {"i1", "i2"}
    Terms <- MCTerms
    Txs <- MCTxOne
    Logs <- MCTxOne
    Transfer <- MCTransferOne
    Scanners = {"s1"}
    Confirmers = {"c1"}
    RequiredConfirmations = 2
    MayExpire = {"i1"}
    MayRevert = {"t1"}
    MaxHeight = 3
    MaxReorgs = 1
    MaxFaults = 1
PROPERTIES
    ImplementsInvoiceLife
    TransferFindsInvoice
    OverdueInvoiceCloses
    BuriedPaymentSettles
