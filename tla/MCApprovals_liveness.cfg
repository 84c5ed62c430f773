SPECIFICATION FairSpec
CHECK_DEADLOCK FALSE
CONSTANTS
    Turns = {t1, c1}
    Children = {c1}
    Calls = {r1, q1}
    Remote = {q1}
    Pump = Pump
    NoTurn = NoTurn
    MaxAsked = 1
    MaxQueued = 2
    MaxGeneration = 1
    ShutsDown = TRUE
    StorageFails = TRUE
INVARIANTS
    SendingIsPending
    AnsweredOnce
PROPERTIES
    NothingHangs
