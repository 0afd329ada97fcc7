SPECIFICATION FairSpec
CONSTANTS
    Invoices = {"i1", "i2"}
    Terms <- MCTerms
    Txs <- MCTxs2
    Logs <- MCTxs2
    Transfer <- MCTransfer
    Scanners = {"s1"}
    Confirmers = {"c1"}
    RequiredConfirmations = 2
    MayExpire = {"i1"}
    MayRevert = {}
    MaxHeight = 3
    MaxReorgs = 0
    MaxFaults = 0
PROPERTIES
    BuriedPaymentSettles
