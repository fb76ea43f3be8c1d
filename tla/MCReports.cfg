SPECIFICATION ReadSpec
CONSTANTS
    Amounts <- MCAmounts
    Dates = {1, 62}
    MaxCustomers = 1
    MaxInvoices = 2
    MaxPayments = 2
    MaxMeanwhile = 1
    Values = {1, 2}
    Limits = {1, 2}
    MaxRows = 3
    MaxWrites = 2
INVARIANTS
    AgingAddsUp
    SummaryBalances
    DuesAgree
    WalkMisses
