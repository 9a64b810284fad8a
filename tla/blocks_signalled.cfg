SPECIFICATION FairSpec
CONSTANTS
    N = 2
    Interval <- MCInterval2
    Signalled <- MCSignalled2
    MaxChanges = 1
    MaxRefresh = 0
    MaxKills = 0
    MayStop = FALSE
    MayFail = FALSE
PROPERTIES SignalledBlocksConverge
