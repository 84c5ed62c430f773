SPECIFICATION Spec
CHECK_DEADLOCK FALSE
CONSTANTS
    session = s
    Sessions = {s}
    Runs = {r1, r2}
    Stops = {}
    Pump = Pump
    NoRun = NoRun
    SessionOf <- OneSession
    MaxGeneration = 2
    ShutsDown = FALSE
    StorageFails = FALSE
    Overlaps = TRUE
    KeepsUp = TRUE
SYMMETRY TaskSymmetry
INVARIANTS
    OwnedSessionIsReleasable
