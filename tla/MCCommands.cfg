SPECIFICATION Spec
CONSTANTS
    None = None
    Procs = {p1, p2, p3}
    Clients = {c1, c2}
    Resident = {c1}
    Ops = {"ensure", "stop", "repair"}
    MaxCommands = 3
    MaxForeground = 1
    MaxFaults = 1
INVARIANTS
    RecordsAreCurrent
    ServingIsFound
PROPERTIES
    RefusedByDaemon
    EnsureWorks
    StopWorks
SYMMETRY AlikeProcs
CHECK_DEADLOCK FALSE
