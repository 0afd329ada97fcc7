SPECIFICATION FairPageSpec
CONSTANTS
    Invoices = {"i1"}
    Racing = TRUE
    Tabs = {"tab"}
    LinkOf <- MCLinkOf
    MaxErrors = 0
CHECK_DEADLOCK FALSE
PROPERTIES
    PageLearnsOutcome
