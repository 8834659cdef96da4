SPECIFICATION MCSpec
CONSTANTS
    Pages = {1, 2}
    plain = plain
    secret = secret
    longer = longer
    blank = blank
    word = word
    comma = comma
    Texts <- MCTexts
    Prepared <- MCPrepared
    Marked = {secret}
    Empty = Empty
    Queries <- MCQueries
    Matches <- MCMatches
    Similarity <- MCSimilarity
    Reads <- MCReads
    Scripts = {r1, r2}
    None = None
    BatchSizes = {1, 2}
    MaxRealPages = 2
    Limit = 2
    RrfK = 60
    Filtered = 1
    MaxRuns = 2
    MaxChanges = 2
    MaxActions = 3
INVARIANTS
    ReportIsTrue
    MarkedIsNotSent
    ResultsAreFound
    ShownIsAsked
    FallbackIsTold
PROPERTY FreshnessIsKept
CHECK_DEADLOCK FALSE
