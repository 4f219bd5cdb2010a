SPECIFICATION Spec
CONSTANTS
    Requests = {r1, r2}
    NoReq = NoReq
    Policies <- MCPolicies
    MaxBudget = 4
    MaxTracked = 1
    BodySizes <- MCBodySizes
    Traffic <- SomeTraffic
    MaxMessages = 5
SYMMETRY Symmetry
INVARIANTS
    TypeOK
    BudgetReserved
    OneOutcomePerFetch
    FetchAccounted
    AwaitedAccounted
PROPERTIES
    NoCommandAfterLoop
    AnswersRetained
