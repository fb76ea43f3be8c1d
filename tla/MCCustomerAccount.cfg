SPECIFICATION Spec
CONSTANTS
    Amounts <- MCAmounts
    Dates = {1}
    MaxCustomers = 2
    MaxInvoices = 2
    MaxPayments = 2
CHECK_DEADLOCK FALSE
INVARIANTS
    TypeOK
    BalanceExplained
    PaidByAllocations
    InvoicesSettled
    LedgerRunsToBalance
    EveryDocumentPostedOnce
PROPERTIES
    HistoryKept
    CreditLimitHeld
