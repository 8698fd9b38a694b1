CONSTANTS
    Null = Null
    Windows = {w1}
    X11 = {}
    Dialogs = {w1}
    Outputs = {o1, o2}
    Builtin = Null
    Layers = {}
    Interactive = {}
    Numbers = {0, 1}
    Configs <- DefaultConfig
    Rules <- SendRules
    Requests = {}
    Commands = {"workspace", "workspace-back", "set-ws", "ext-workspace", "move-to-workspace", "move-to-output", "move", "toggle-float"}
    Names = {n1}
SPECIFICATION MirrorSpec
INVARIANTS MirrorTrue TaskbarNeverLies
PROPERTIES ChangesReported
CHECK_DEADLOCK FALSE
