SPECIFICATION Spec
CONSTANTS
    Amounts = {0, 1, 2}
    Dates = {1, 2}
    MaxCustomers = 2
    MaxInvoices = 2
    MaxPayments = 2
    Slots = {r1, r2}
    Inputs <- MCInputs
    Attempts = 2
INVARIANTS
    TypeOK
    InvoicesContendedByForeignOnly
PROPERTIES
    ImplementsAccount
    OldestDueFirst
    RequestsAnswered
