SPECIFICATION MCSpec
CONSTANTS
    MaxNotes = 3  MaxIds = 3  MaxMenus = 1
    Kinds <- MCKinds
    Limit = 2  IndicateHidden = TRUE
    HistoryLength = 1  StickyHistory = TRUE
    Uses <- MCUses
    MaxRuns = 3  MaxEvents = 3  MaxClosed = 2  Monitors = {1, 2}  WlUses <- MCWlUses
    LayoutSettings <- MCLayoutSettings  LayoutNotes <- MCLayoutNotes  MaxShown = 2
    Outputs = {1, 2}  Seats = {1, 2}  Tops = {1, 2}  MaxPending = 5  MaxTurns = 4  SeatUses <- MCSeatUses
    Tall <- MCTall  Windows = {1, 2}  MaxTold = 3  MaxSteps = 5  XUses <- MCXUses
    Messages <- MCMessages  Configs <- MCConfigs  IconFiles = {"mail", "bell"}  NoValue = NoValue
    MaxArrived = 1  MaxCalls = 5  RuleUses <- MCRuleUses
    Watchers = {"bar"}  Clients = {"mail"}  ActionSets <- MCActionSets  Levels <- MCLevels
    Defaults = {0, 33}  AtOnce = 1  MaxGiven = 3  MaxMoves = 5  BusUses <- MCBusUses
INVARIANTS InOneQueue IdsClosedOnce LimitHolds ImportantFirst WindowSound LayoutSound MessagesSound
PROPERTIES MenuLocks
CHECK_DEADLOCK FALSE
