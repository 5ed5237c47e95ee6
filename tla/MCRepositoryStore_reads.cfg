CONSTANTS
    Request = {1, 2, 3}
    Name <- TwoNames
    NoName = NoName
    MaxLength = 5
    Parse <- MCParse
    Fold <- MCFold
    PoolSize = 3
    MaxLimit = 2
    Offered = {"create", "get_by_id", "get_by_name", "list", "delete"}
    Asked <- Pages
    MaxClock = 2
    Hazards = {}
SPECIFICATION Spec
INVARIANTS
    TypeOK
    ReadsAreCurrent
    FirstPageIsNewest
