CONSTANTS
    None = None
    Clients = {bar, tool}
    Residents = {bar}
    Outputs = {o1, o2}
    Spaces <- MCSpaces
    Titles <- MCTitles
    Texts <- MCTexts
    Percents = {95}
    Kelvins = {9000}
SYMMETRY Symmetry
SPECIFICATION LightSpec
INVARIANTS TypeOK GammaInStep OutputsLit
PROPERTIES ChangesArrive ResidentsInStep
