CONSTANTS
    None = None
    Surfaces = {game, term}
    Buttons = {left, right, middle}
    Left = left
    Right = right
SPECIFICATION Spec
INVARIANTS TypeOK ActiveIsAlive OneIsTold GrabHidesPointer NoStuckButtons
