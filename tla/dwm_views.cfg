SPECIFICATION Spec
CONSTANTS
    w1 = w1  w2 = w2  w3 = w3
    Window = {w1, w3}
    NoWin = NoWin
    MaxMon = 2  NTags = 2
    Masks <- MCMasks2
    Parent <- MCParent
    Dialog = {}  Fixed = {w1}
    Uses = {{"tag", "move"}, {"float", "fullscreen", "drag", "urgent"},
            {"takefocus", "noinput", "hints", "destroy"}}
    MaxQueue = 2  MaxRestarts = 0
INVARIANTS ListsSound SelIsLastFocused ServerInStep
