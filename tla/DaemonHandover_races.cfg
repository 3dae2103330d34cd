SPECIFICATION FairSpec
CONSTANTS
    Daemons = {1, 2, 3}
    Clients = {"x", "y"}
    Jobs = {1, 2}
    MaxCommands = 3
    MaxCrashes = 1
    MaxStops = 1
INVARIANT OneWorker
INVARIANT NoGhost
PROPERTY RestartReplaces
PROPERTY ClientsConverge
CHECK_DEADLOCK FALSE
