SPECIFICATION Spec
CHECK_DEADLOCK FALSE
CONSTANTS
    session = s
    Sessions = {s}
    Runs = {r1, r2}
    Stops = {i1}
    Pump = Pump
    NoRun = NoRun
    SessionOf <- OneSession
    MaxGeneration = 2
    ShutsDown = FALSE
    StorageFails = TRUE
    Overlaps = FALSE
    KeepsUp = TRUE
SYMMETRY TaskSymmetry
INVARIANTS
    OwnersAgree
    OwnedSessionIsReleasable
PROPERTIES
    EndingsStand
