CONSTANTS
    Request = {1, 2, 3}
    Name <- OneName
    NoName = NoName
    MaxLength = 5
    Parse <- MCParse
    Fold <- MCFold
    PoolSize = 2
    MaxLimit = 1
    Offered = {"create", "get_by_name", "list", "delete"}
    Asked <- FirstPage
    MaxClock = 1
    Hazards = {"error", "kill"}
SPECIFICATION FairSpec
PROPERTY
    EveryCallAnswers
    ImplementsRepositoryContract
