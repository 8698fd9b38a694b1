CONSTANTS
    Choices <- SomeChoices
    Areas <- Screen
    Deltas <- Steps
    MaxWindows = 6
    MaxMasters = 2
    MaxTiled = 5
    Unset = Unset
SPECIFICATION Spec
INVARIANTS TypeOK TilesApart TilesInside TilesFill
