SPECIFICATION Spec
CONSTANTS
    MaxAppends = 5
    Conns = {c1, c2}
    Numbers = {n1, n2}
    Methods = {m1, m2}
    None = None
    Ambiguous = Ambiguous
    MaxPending = 1
    MaxOutstanding = 1
    Garbling = {"request", "response"}
    Observed = {FALSE}
    MaxRequests = 4
SYMMETRY Symmetry
INVARIANTS
    JournalTypeOK
    RawBeforeName
    ReplayIsComplete
    UnfailedReplays
    NamesTypeOK
    NeverMisattributed
    NotedIsNamed
    PendingIsOwed
