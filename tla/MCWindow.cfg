SPECIFICATION FairSpec
CONSTANTS
    None = None
    MaxJobs = 2
    MaxCrashes = 1
    MaxGestures = 2
    MaxDialogs = 1
INVARIANTS
    ActionIsAnswered
PROPERTIES
    StatusNeverGoesBack
    PendingIsSettled
    HiddenIsReachable
CHECK_DEADLOCK FALSE
