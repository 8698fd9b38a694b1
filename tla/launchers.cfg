CONSTANTS
    Null = Null
    Windows = {w1, w2}
    X11 = {w2}
    Dialogs = {w1}
    Outputs = {o1}
    Builtin = Null
    Layers = {l1, l2}
    Interactive = {l1}
    Numbers = {0, 1}
    Configs <- FocusConfigs
    Rules <- FocusRules
    Requests = {}
    Commands = {"workspace", "workspace-back", "workspace-next", "set-ws", "move-to-workspace", "focus-next", "focus-output", "focus-dir"}
SPECIFICATION Spec
INVARIANTS TypeOK FocusCoherent BackElsewhere OutputsOK HomesLive FocusLive
PROPERTIES LayerKeepsKeyboard
CHECK_DEADLOCK FALSE
