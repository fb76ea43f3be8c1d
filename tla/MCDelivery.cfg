SPECIFICATION Spec
CONSTANTS
    Slots = {r1, r2}
    Drivers = {1}
    Vehicles = {1}
    Times = {}
    Window = 2
    Ahead = 0
    MaxSales = 1
    MaxDeliveries = 1
SYMMETRY SlotSymmetry
INVARIANTS
    TypeOK
    HistoryIsLegalLife
    AssignedHasBoth
PROPERTIES
    UpdatesSeeTheRow
