SPECIFICATION FairSpec
CHECK_DEADLOCK FALSE
CONSTANTS
    Clients = {c1}
    Responders = {r1}
    Stopper = Stopper
    NoClient = NoClient
    MaxGeneration = 2
    MaxRequestId = 3
PROPERTIES
    NothingHangs
