SPECIFICATION NamesSpec
CONSTANTS
    Conns = {c1, c2}
    Numbers = {n1, n2}
    Methods = {m1, m2}
    None = None
    Ambiguous = Ambiguous
    MaxPending = 2
    MaxOutstanding = 2
    Garbling = {"request"}
    Observed = {TRUE}
    MaxRequests = 3
SYMMETRY Symmetry
INVARIANT
    AmbiguityNeverPicks
