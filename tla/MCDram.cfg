\* Two ranks of two banks, every policy.
SPECIFICATION FairSpec
CONSTANTS
    NumRanks = 2
    NumBanks = 2
    Rows = {0}
    T <- Scaled
    MaxRequests = 3
    LastArrival = 1
INVARIANTS TimingsRespected RowIsReady NoLostWakeup ChoiceNotStale ServedInTurn
PROPERTIES Finishes
CHECK_DEADLOCK FALSE
