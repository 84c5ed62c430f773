SPECIFICATION Spec
CONSTANTS
    Root = root
    Child = child
    Stranger = stranger
    Turns = {t1, t2, t3}
    Callers = {c1, c2}
    Models = {m1, m2}
    MaxBytes = 2
    PageSize = 1
    ThreadLimits <- MCThreadLimits
    SessionLimits <- MCSessionLimits
    GlobalLimits <- MCGlobalLimits
    Scenarios <- MCScenarios
INVARIANTS ActivityIsSound TranscriptIsSound
PROPERTIES HistoryIsRestored FactsStay DeletionIsWhole
