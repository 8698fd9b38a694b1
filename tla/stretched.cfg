CONSTANTS
    Border = 1
    Tiles = {25, 29}
    Screen = 33
    Seed = 25
    Drags = {17, 29}
    Naturals = {15, 23}
    MaxChanges = 3
SPECIFICATION FairSpec
PROPERTIES OwnSizeAdopted
CHECK_DEADLOCK FALSE
