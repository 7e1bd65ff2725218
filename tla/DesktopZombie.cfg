SPECIFICATION Spec
CONSTANTS
    None = None
    Procs = {p1, p2}
    Clients = {c1, c2}
    Resident = {c1}
    Ops = {"ensure"}
    MaxCommands = 2
    MaxForeground = 0
    MaxFaults = 1
PROPERTIES
    EnsureStarts
CHECK_DEADLOCK FALSE
