SPECIFICATION FairSpec
CHECK_DEADLOCK FALSE
CONSTANTS
    session = s
    Sessions = {s}
    Runs = {r1, r2}
    Stops = {i1}
    Pump = Pump
    NoRun = NoRun
    SessionOf <- OneSession
    MaxGeneration = 1
    ShutsDown = TRUE
    StorageFails = FALSE
    Overlaps = TRUE
    KeepsUp = TRUE
PROPERTIES
    OwnersStand
    InterruptResolves
    EngineLetsGo
