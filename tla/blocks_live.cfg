SPECIFICATION FairSpec
CONSTANTS
    N = 2
    Interval <- MCInterval2
    Signalled <- MCSignalled2
    MaxChanges = 1
    MaxRefresh = 0
    MaxKills = 1
    MayStop = FALSE
    MayFail = FALSE
PROPERTIES IntervalBlocksConverge SiblingsReaped
