SPECIFICATION Spec
CONSTANTS
    None = None
    k1 = k1
    k2 = k2
    d1 = d1
    d2 = d2
    c1 = c1
    c2 = c2
    Keys    <- MCKeys
    Data    <- MCData
    Columns <- MCColumns
    Keyed   <- MCKeyed
    Covers  <- MCCovers
    Files        <- WorkFiles
    RetryChoices <- AllChoices
    Failures     = {"rate_limit", "other"}
    Requests     <- WorkRequests
    BatchSize    = 1
    PageSize     = 1
    MaxRows      = 3
    MaxFaults    = 2
    MaxOverruns  = 0
    MaxCrashes   = 1
INVARIANTS
    OrphansNeedFaults
    ResultMatchesTable
    RunIsComplete
    HoldIsPrompt
    StatusResultIsFinal
