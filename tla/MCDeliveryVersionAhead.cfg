SPECIFICATION Spec
CONSTANTS
    Slots = {r1, r2}
    Drivers = {1}
    Vehicles = {1}
    Times = {}
    Window = 2
    Ahead = 1
    MaxSales = 0
    MaxDeliveries = 1
INVARIANTS
    HistoryIsLegalLife
