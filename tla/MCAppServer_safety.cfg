SPECIFICATION Spec
CHECK_DEADLOCK FALSE
CONSTANTS
    Clients = {c1, c2}
    Responders = {}
    Stopper = Stopper
    NoClient = NoClient
    MaxGeneration = 3
    MaxRequestId = 3
SYMMETRY ClientSymmetry
INVARIANTS
    TypeOK
    AwaitedIsReachable
    ProcessesSupervised
    SingleTeardown
PROPERTIES
    ImplementsTransport
