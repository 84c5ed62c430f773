SPECIFICATION AllSpec
CONSTANTS
    \* Transcript
    PageSizes = {1, 2}
    Scripts <- SomeScripts
    \* Migrations
    Databases <- SomeDatabases
    MaxOpens = 2
    MaxSaves = 1
    \* GitReview
    Paths = {1, 2}
    Tasks = {1, 2}
    Worlds <- SomeWorlds
    MaxWrites = 2
    \* Attachments
    Askers = {"u", "v"}
    Files = {"a", "b", "c", "d"}
    MaxAttachments = 3
    MaxFile = 2
    MaxTotal = 4
    MaxCandidates = 3
    MaxIssues = 2
    Permits = 1
    Scenes <- SomeScenes
    MaxForeignWrites = 1
    \* Marketplace
    PluginCalls = {"x", "y", "z"}
    Wants <- SomeWants
    Catalogs <- SomeCatalogs
    \* Projection
    Turns = {1, 2}
    Conversations <- SomeConversations
    MaxRetained = 1
    MaxFailures = 1
    MaxRepeats = 1
    \* Settings
    Calls = {"x", "y"}
    Requests <- SomeRequests
    Edits <- SomeEdits
    MaxEdits = 1
    MaxRestarts = 1
    \* Secrets
    Callers = {"x", "y"}
    SecretWishes <- SomeEntries
    MaxFaults = 2
    \* Telemetry
    Processes = {"program", "monitor"}
    MaxChanges = 3
    MaxReports = 3
    \* Account
    Wishes <- SomeWishes
    MaxLosses = 1
    \* PublicStream
    Phones = {"p", "q"}
    Sessions = {"r", "s"}
    Scenarios <- SomeTalks
    MaxDelta = 6
    MaxJoins = 2
    KeyLength = 3
    MaxSessions = 1
    EmitTarget = 3
    Holdback = 2
    Chunk = 4
    MaxFrames = 2
    MaxPending = 8
    MaxLive = 6
    \* PublicView
    Tools <- SomeTools
    MaxEvents = 5
    MaxText = 2
    MaxContent = 3
    MaxBlocks = 4
    MaxSource = 5
    LiveBudget = 2
    \* PhoneHistory
    Histories <- SomeHistories
    Sizes = {2}
    Window = 4
    FrameBudget = 3
    PageSize = 3
    MaxPage = 4
    MaxRows = 6
    MaxConnects = 2
    \* Sanitizer
    Inputs <- SomeInputs
    MaxDepth = 4
    MaxFields = 7
    MaxItems = 2
    MaxString = 3
    MaxParams = 20
    MaxId = 2
    MetaSize = 3
INVARIANTS
    PagesAreTheView
    ReviewIsOfOneMoment
    AttachmentsAreWhatWasChecked
    RoutesAreCurrent
    AnswerIsSaved
    ReportsAreAsked
    LoginIsItsOwn
    OnlyTheSessionGoesOut
PROPERTIES
    OpenKeeps
    FilesKeepWhatWasTold
CHECK_DEADLOCK FALSE
