SPECIFICATION ProductSpec
CONSTANTS
    HTTP = {1, 2}
    OtaCap = 1
    FeedEvery = 1
    WdTimeout = 4
    BeatTimeout = 7
    SteadyBeat = 2
    Periods = {0, 1, 8}
    HogMax = 3
    DeclMenu <- Menu
    MaxItems = 3
    DeclFlags = {"f"}
    Features = {"pool", "readiness", "bound-deps", "coupling", "coupling-observe", "veto", "budget", "local-resources", "liveness-monitor"}
    MaxClaims = 4
    MaxVeto = 2
    IdxMod = 256
    Signals = {"S", "T"}
    CallFlags = {"a", "b"}
    UserVerbs = {"sample", "put"}
    DataFeatures = {"liveness"}
    MaxTokens = 4
INVARIANTS UpdateIsSafe SocketsInBudgetBelow BiteIsEarned SortIsRight AcceptedIsSound IndexIsOwn
\* a build ends, a reset chip stays reset, bodies are bounded
CHECK_DEADLOCK FALSE
