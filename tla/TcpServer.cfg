CONSTANTS
    Threads = 2
    MaxSocks = 2
    MaxTasks = 3
    MaxCalls = 4
    MaxClients = 1
SPECIFICATION FairSpec
INVARIANT ServerInv
PROPERTIES StoppedLoopsEnd ClientsHandled
CHECK_DEADLOCK FALSE
