CONSTANTS
    None = None
    Devices = {k1, v1, v2}
    Virtual = {v1, v2}
    Keys = {super, j, f1}
    Super = super
    Switches = {f1}
    Bindings <- SuperJ
    Defaults <- SuperJ
    Windows = {w1, w2}
    Launcher = launcher
SPECIFICATION Spec
INVARIANTS TypeOK NoStuckKeys LogoInStep
PROPERTIES FocusFollowed ShortcutsKept Advertised
