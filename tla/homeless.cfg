CONSTANTS
    Null = Null
    Windows = {w1}
    X11 = {}
    Dialogs = {}
    Outputs = {o1}
    Builtin = Null
    Layers = {}
    Interactive = {}
    Numbers = {0, 1}
    Configs <- DefaultConfig
    Rules <- OnlyNoRule
    Requests = {}
    Commands = {}
SPECIFICATION Spec
INVARIANTS EveryWindowHasHome
CHECK_DEADLOCK FALSE
