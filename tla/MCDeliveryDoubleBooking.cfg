SPECIFICATION Spec
CONSTANTS
    Slots = {r1, r2}
    Drivers = {1}
    Vehicles = {1}
    Times = {1}
    Window = 2
    Ahead = 0
    MaxSales = 0
    MaxDeliveries = 2
INVARIANTS
    NoDoubleBooking
