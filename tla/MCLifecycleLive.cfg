SPECIFICATION FairSpec
CONSTANTS
    None = None
    Procs = {p1, p2}
    Clients = {c1, c2}
    Resident = {c1}
    Ops = {"ensure", "stop", "repair"}
    MaxCommands = 2
    MaxForeground = 0
    MaxFaults = 1
PROPERTIES
    CommandsReturn
    StoppedEnds
CHECK_DEADLOCK FALSE
