SPECIFICATION Spec
CHECK_DEADLOCK FALSE
CONSTANTS
    Turns = {t1, t2}
    Children = {}
    Calls = {r1}
    Remote = {}
    Pump = Pump
    NoTurn = NoTurn
    MaxAsked = 2
    MaxQueued = 2
    MaxGeneration = 2
    ShutsDown = FALSE
    StorageFails = FALSE
SYMMETRY TaskSymmetry
INVARIANTS
    PendingIsOwned
    ShownIsAnswerable
