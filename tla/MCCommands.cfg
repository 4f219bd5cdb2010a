SPECIFICATION MCSpec
CONSTANTS
    None = None
    p1 = p1
    p2 = p2
    v1 = v1
    v2 = v2
    r1 = r1
    r2 = r2
    d1 = d1
    d2 = d2
    Procs = {p1, p2}
    Versions = {v1, v2}
    ResVersions = {r1, r2}
    Payloads = {d1, d2}
    PrefixOf <- MCPrefixOf
    Torn = Torn
    Demands = {None, d1}
    MaxStarts = 3
    MaxChanges = 2
    Clients = {c1, c2}
    c1 = c1
    c2 = c2
INVARIANTS
    TypeOK
    FetchedIsNamed
    EntriesLoad
    DecodedAsBound
    RegistrySound
PROPERTIES
    NoRequestCut
    CancelledExits
CHECK_DEADLOCK FALSE
