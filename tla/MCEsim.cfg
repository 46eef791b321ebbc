\* The handlers that the draining runs may call Next without delay, any number of times.
SPECIFICATION TimingSpec
CONSTANTS
    Frames = {f1, f2}
    fast = fast
    slow = slow
    Fast = Fast
    Slow = Slow
    Events = {fast, slow}
    Domains = {Fast, Slow}
    Frequency <- MCFrequency
    DomainOf <- MCDomainOf
    None = None
    Afters = {0, 1}
    Periods <- MCPeriods
    MaxTime = 7
    MaxCalls = 2
    MaxFinalization = 1
    Interrupts = TRUE
INVARIANTS FramesAccountedFor
PROPERTIES OnTime Finalizes ScheduledRuns
CHECK_DEADLOCK FALSE
