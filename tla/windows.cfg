CONSTANTS
    Null = Null
    Windows = {w1, w2}
    X11 = {w2}
    Dialogs = {w1, w2}
    Outputs = {o1}
    Builtin = o1
    Layers = {}
    Interactive = {}
    Numbers = {0, 1}
    Configs <- StateConfigs
    Rules <- StateRules
    Requests = {"fullscreen", "maximize"}
    Commands = {"move", "resize", "swap-next", "swap-master", "swap-dir", "toggle-float", "fullscreen", "maximize", "fake-fullscreen"}
SPECIFICATION FairSpec
INVARIANTS ListOK ShownExactly
PROPERTIES FloatsSettle
CHECK_DEADLOCK FALSE
