CONSTANTS
    Request = {1, 2, 3}
    Name <- OneName
    NoName = NoName
    MaxLength = 5
    Parse <- MCParse
    Fold <- MCFold
    PoolSize = 2
    MaxLimit = 1
    Offered = {"create", "delete"}
    Asked <- FirstPage
    MaxClock = 2
    Hazards = {}
SPECIFICATION Spec
INVARIANT
    UpdatedIsLastChange
