CONSTANTS
    Null = Null
    Windows = {w1, w2}
    X11 = {}
    Dialogs = {w1}
    Outputs = {o1}
    Builtin = o1
    Layers = {}
    Interactive = {}
    Numbers = {0, 1}
    Configs <- DefaultConfig
    Rules <- FloatRules
    Requests = {"fullscreen"}
    Commands = {}
SPECIFICATION FairSpec
PROPERTIES PendingSettles
CHECK_DEADLOCK FALSE
