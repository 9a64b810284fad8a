SPECIFICATION Spec
CONSTANTS
    N = 2
    Interval <- MCInterval2
    Signalled <- MCSignalled2
    MaxChanges = 1
    MaxRefresh = 1
    MaxKills = 1
    MayStop = TRUE
    MayFail = TRUE
INVARIANTS TypeOK OneChildPerBlock PipeBelongsToChild SnapshotStaysValid RootShowsOutputs
PROPERTIES OutputNeverGoesBack
