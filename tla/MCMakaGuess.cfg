SPECIFICATION Spec
CONSTANTS
    Players = 2
    None = None
    MaxLost = 1
    MaxActions = 7
INVARIANT
    NeverGuessed
