SPECIFICATION FairPageSpec
CONSTANTS
    Invoices = {"i1"}
    Racing = TRUE
    Tabs = {"tab"}
    LinkOf <- MCLinkOf
    MaxErrors = 2
CHECK_DEADLOCK FALSE
INVARIANTS
    PaidPageAfterEvent
PROPERTIES
    PageFollowsInvoice
    PaidPageLeaves
