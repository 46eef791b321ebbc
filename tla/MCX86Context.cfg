SPECIFICATION FairSpec
CONSTANTS
    MaxContexts = 2
    MaxThreads = 2
    MaxReady = 1
    Signals = {10, 17}
    SIGCHLD = 17
    MaxCalls = 5
    Masks = {{}, {10}}
    Calls <- AllCalls
INVARIANTS NoLostWakeup HostThreadsAreFound
PROPERTIES SleepersWake
CHECK_DEADLOCK FALSE
