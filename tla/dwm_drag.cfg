SPECIFICATION Spec
CONSTANTS
    w1 = w1  w2 = w2  w3 = w3
    Window = {w1, w2}
    NoWin = NoWin
    MaxMon = 1  NTags = 1
    Masks <- MCMasks1
    Parent <- MCNoParent
    Dialog = {}  Fixed = {}
    Uses = {{"drag"}}
    MaxQueue = 1  MaxRestarts = 0
SYMMETRY Symmetric
PROPERTIES DragTogglesDragged
