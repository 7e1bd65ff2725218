SPECIFICATION Spec
CONSTANTS
    None = None
    a1 = a1
    a2 = a2
    Backends <- MCBackends
    Addresses <- MCAddresses
    LocalAddress = a1
    Keys = {k1}
    Offers <- MCOffers
    Formats = {f1, f2}
    CliSettings <- MCCliSettings
    MaxGestures = 4
INVARIANTS
    PreviewFits
    ExportAsShown
    NoForeignModel
    DraftsStayOnThePage
    SavesSurvive
PROPERTIES
    RunsAsSent
CHECK_DEADLOCK FALSE
