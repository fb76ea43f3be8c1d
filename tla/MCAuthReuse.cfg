SPECIFICATION Spec
CONSTANTS
    Slots = {r1, r2}
    Users = {u1}
    MaxSessions = 3
PROPERTIES
    ReuseRevokesFamily
