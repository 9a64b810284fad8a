SPECIFICATION MCSpec
CONSTANTS
    HISTSIZE = 4  MaxRow = 3  MaxText = 3  Uses <- MCScreenUses
    Cols = 3  CellRows = 2  MaxTyped = 6  MaxEdited = 3  CellUses <- MCCellUses
    Alphabets <- MCAlphabets  MaxSent = 5  BUFSIZ = 4  ESC_BUF_SIZ = 5
    MaxPastes = 2  MaxPieces = 2  MaxQueue = 3  SelUses <- MCSelUses
    RowTexts <- MCRowTexts  Grid <- MCGrid  InFont <- MCInFont  Fallback <- MCFallback
    Selections <- MCSelections  MaxDraws = 3  DrawUses <- MCDrawUses
INVARIANTS StTypesOK SelectedIsTyped ParserSound PastesArrive DrawingSound
PROPERTIES SelectionsAgree SelectionKept ImplementsLines
CHECK_DEADLOCK FALSE
