SPECIFICATION Spec
CONSTANTS
    ta = ta
    tb = tb
    tc = tc
    Players = 2
    Tiles = {ta, tb, tc}
    Kinds = {ta, tb}
    KindOf <- MCKindOf
    Copies <- MCCopies
    Deals <- MCSeatDeals
    HandSize = 3
    None = None
    StartScore = 2
    MaxLost = 1
    MaxActions = 8
INVARIANTS
    TypeOK
    UnspoiledRounds
