SPECIFICATION FairSpec
CONSTANTS
    Requests = {r1}
    NoReq = NoReq
    Policies <- MCPolicies
    MaxBudget = 4
    MaxTracked = 1
    BodySizes <- MCBodySizes
    Traffic <- MCTraffic
    MaxMessages = 3
    PacketCap = 1
INVARIANTS
    SessionTypeOK
    NoReadLost
    ReturnsJoined
    NilOnlyWhenCancelled
    OwnCloseNotBlamed
PROPERTIES
    ObserverSpec
    ShutdownCompletes
    FetchesSettle
