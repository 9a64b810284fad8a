SPECIFICATION Spec
CONSTANTS
    w1 = w1  w2 = w2  w3 = w3
    Window = {w1, w2, w3}
    NoWin = NoWin
    MaxMon = 2  NTags = 1
    Masks <- MCMasks1
    Parent <- MCNoParent
    Dialog = {w3}  Fixed = {}
    Uses = {{"move", "zoom", "crash"}}
    MaxQueue = 1  MaxRestarts = 1
PROPERTIES RestartRestores
