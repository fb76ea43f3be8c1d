SPECIFICATION AccessSpec
CONSTANTS
    Slots = {r1, r2}
    Users = {u1}
    MaxSessions = 3
    Inputs <- MCInputs
    Overridden = {2}
    MaxUsers = 2
    MaxReplacements = 2
    MaxSeeds = 1
SYMMETRY Symmetric
CHECK_DEADLOCK FALSE
INVARIANTS
    TypeOK
    FamilyIsChain
    UsersTypeOK
    AdmittedHeldPermission
    OverridesOfConcurrent
PROPERTIES
    SignedOutStaysOut
    LastActiveOvertaken
