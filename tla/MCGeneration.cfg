SPECIFICATION FairSpec
CONSTANTS
    None = None
    Texts = {t1}
    MaxNotes = 2
    MaxPages = 2
    MaxFaults = 1
    Providers <- AllProviders
    MaxRetries = 3
    MaxUses = 1
INVARIANTS
    NotesInOrder
    AnswerIsFinal
    StopsPromptly
    LeavesNoProcess
    BlankIsAnError
    RetriesWhatMayPass
PROPERTIES
    UsesEnd
CHECK_DEADLOCK FALSE
