SPECIFICATION Spec
CONSTANTS
    ta = ta
    tb = tb
    tc = tc
    Players = 2
    Tiles = {ta, tb, tc}
    Kinds = {ta, tb}
    KindOf <- RedKindOf
    Copies <- RedCopies
    Deals <- RedDeals
    HandSize = 3
    None = None
    StartScore = 2
    MaxLost = 0
    MaxActions = 4
INVARIANT
    ClosedKanRemovesFour
