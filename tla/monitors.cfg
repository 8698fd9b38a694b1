CONSTANTS
    Null = Null
    Windows = {w1, w2}
    X11 = {}
    Dialogs = {}
    Outputs = {o1, o2}
    Builtin = o1
    Layers = {}
    Interactive = {}
    Numbers = {0, 1}
    Configs <- DefaultConfig
    Rules <- SendRules
    Requests = {}
    Commands = {"workspace", "ext-workspace", "move-to-workspace", "move-to-output", "follow-mouse", "focus-output", "focus-dir", "move"}
SPECIFICATION Spec
INVARIANTS NoOrphans
PROPERTIES ImplementsDesktop NeverHidesFocus WindowsStayPut
CHECK_DEADLOCK FALSE
