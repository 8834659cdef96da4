CONSTANTS
    None = None
    NoFile = NoFile
    Requests = {r1, r2, r3}
    Clients = {c1, c2}
    AgentLimit = 2
    SourceLimit = 1
    MaxBuckets = 1
    Window = 2
    DayLength = 1
    MonthStart <- MCMonthStart
    MaxRuns = 2
    Attempts = 2
    DailyBudget = 1
    MonthlyBudget = 2
    MaxTokens = 1
    MaxTime = 2
    MaxDeaths = 1
    MaxFaults = 1
SYMMETRY Symmetry
SPECIFICATION Spec
INVARIANTS OverrunBounded RateKept PublishedWhole RefusedForACause
PROPERTY UsedIsKept
